--------------------------- MODULE EvidenceProofs --------------------------
(***************************************************************************)
(* Proofs about the components that derive evidence: LogIndex, Hunts,      *)
(* Inventories, LogEvidence, Backups and Chronology, for any number of     *)
(* logs, lines, patterns, dumps, sources, backups, edits, builds and       *)
(* crashes.                                                                *)
(*                                                                         *)
(* Each component has a part of its own: its invariant, a lemma for each   *)
(* kind of step, and the theorems. Hunts works on the state of LogIndex;   *)
(* the others share no state, and nothing in one part is used in another   *)
(* but the lemmas on sets and sequences at the beginning.                  *)
(***************************************************************************)
EXTENDS Hunts, Backups, Inventories, LogEvidence, Chronology,
        FiniteSetTheorems, WellFoundedInduction, TLAPS

(***************************************************************************)
(* Sets of numbers and sequences.                                          *)
(*                                                                         *)
(* What is least, what is greatest, and what appending and restating do.   *)
(***************************************************************************)

LEMMA LessThan == \A x, y \in Nat : y < x => <<y, x>> \in OpToRel(<, Nat)
BY Zenon DEF OpToRel

\* A set of numbers below a bound has a greatest element, and Max is it.
LEMMA MaxOfSet ==
    ASSUME NEW n \in Nat, NEW T \in SUBSET (0 .. n), T # {}
    PROVE  Max(T) \in T /\ \A y \in T : Max(T) >= y
<1> DEFINE U == {n - y : y \in T}
<1>1. PICK t : t \in T
  OBVIOUS
<1>2. U \subseteq Nat /\ n - t \in U
  BY <1>1
<1>3. PICK x \in U : \A y \in U : ~(<<y, x>> \in OpToRel(<, Nat))
  <2> HIDE DEF U
  <2> QED BY <1>2, WFMin, NatLessThanWellFounded
<1>4. x \in Nat /\ \A y \in U : y \in Nat /\ ~(y < x)
  <2> HIDE DEF U
  <2> QED BY <1>2, <1>3, LessThan, Zenon
<1>5. PICK m \in T : n - m = x
  BY <1>3
<1>6. \A y \in T : m >= y
  BY <1>4, <1>5
<1> QED BY <1>5, <1>6 DEF Max

Sequence(q) == \E n \in Nat : q = [i \in 1 .. n |-> q[i]]

LEMMA Sized ==
    ASSUME NEW q, Sequence(q)
    PROVE  Len(q) \in Nat /\ DOMAIN q = 1 .. Len(q) /\ q \in Seq({q[i] : i \in DOMAIN q})
<1>1. PICK n \in Nat : q = [i \in 1 .. n |-> q[i]]
  BY DEF Sequence
<1>2. q \in [1 .. n -> {q[i] : i \in DOMAIN q}] /\ DOMAIN q = 1 .. n
  BY <1>1
<1>3. q \in Seq({q[i] : i \in DOMAIN q})
  BY <1>2
<1> QED  BY <1>2, <1>3

LEMMA Appended ==
    ASSUME NEW q, Sequence(q), NEW e
    PROVE  /\ Sequence(Append(q, e)) /\ Len(Append(q, e)) = Len(q) + 1
           /\ DOMAIN Append(q, e) = 1 .. (Len(q) + 1) /\ Append(q, e)[Len(q) + 1] = e
           /\ \A i \in DOMAIN q : Append(q, e)[i] = q[i]
<1> DEFINE S == {q[i] : i \in DOMAIN q} \cup {e}
<1>1. Len(q) \in Nat /\ DOMAIN q = 1 .. Len(q) /\ q \in Seq({q[i] : i \in DOMAIN q})
  BY Sized
<1>2. q \in Seq(S) /\ e \in S
  <2>1. q \in [1 .. Len(q) -> S]
    BY <1>1
  <2> QED  BY <1>1, <2>1
<1> HIDE DEF S
<1>3. Append(q, e) \in Seq(S) /\ Len(Append(q, e)) = Len(q) + 1
      /\ \A i \in 1 .. Len(q) : Append(q, e)[i] = q[i]
      /\ Append(q, e)[Len(q) + 1] = e
  BY <1>1, <1>2
<1> DEFINE r == Append(q, e)
<1>4. r \in Seq(S) /\ Len(r) = Len(q) + 1
  BY <1>3
<1> HIDE DEF r
<1>5. DOMAIN r = 1 .. (Len(q) + 1) /\ r = [i \in 1 .. (Len(q) + 1) |-> r[i]]
  BY <1>4
<1>6. Sequence(r)
  BY <1>1, <1>5 DEF Sequence
<1> QED  BY <1>1, <1>3, <1>5, <1>6 DEF r

\* What keeps the indices of a sequence is one of the same length.
LEMMA Reindexed ==
    ASSUME NEW q, Sequence(q), NEW r, r = [i \in DOMAIN q |-> r[i]]
    PROVE  Sequence(r) /\ Len(r) = Len(q) /\ DOMAIN r = DOMAIN q
<1>1. Len(q) \in Nat /\ DOMAIN q = 1 .. Len(q)
  BY Sized
<1>2. r = [i \in 1 .. Len(q) |-> r[i]]
  BY <1>1
<1>3. Sequence(r)
  BY <1>1, <1>2 DEF Sequence
<1>4. Len(r) \in Nat /\ DOMAIN r = 1 .. Len(r) /\ DOMAIN r = 1 .. Len(q)
  BY <1>2, <1>3, Sized
<1> QED  BY <1>1, <1>3, <1>4

(***************************************************************************)
(* Log index: the derived index of the access logs and its alerts.         *)
(*                                                                         *)
(* The argument: every edit of a file gives it a new time, so a recorded   *)
(* time that still is the time of its file is that of what was read, and   *)
(* what was read of such sources is all their lines and nothing else,      *)
(* unless the index says that it is partial (Whole). Edits, registrations, *)
(* cancelled builds and crashes between the steps change no record. The    *)
(* findings are those of a build only once it has retired what it did not  *)
(* report (AlertsInv).                                                     *)
(***************************************************************************)

LogsTyped ==
    /\ DOMAIN accessLogs = AccessLogs /\ registered \subseteq AccessLogs
    /\ \A f \in AccessLogs : /\ DOMAIN accessLogs[f] = {"form", "lines", "stamp"}
                             /\ accessLogs[f].form \in Forms /\ accessLogs[f].stamp \in Nat
BuilderTyped ==
    /\ DOMAIN builder = {"at", "todo", "sizes", "sources", "rows", "cancelled", "incomplete", "gen"}
    /\ builder.at \in {"idle", "reading", "alerts", "retire"}
    /\ builder.todo \subseteq AccessLogs /\ builder.gen \in Nat

\* The time of a source is that of its file when it was read, or of an earlier state of it.
Dated(sources) ==
    \A s \in sources :
        s.file \in AccessLogs /\ s.mtime \in Nat /\ s.mtime <= accessLogs[s.file].stamp

\* What was read of sources that have not changed since: all their lines, and
\* nothing else; or the index says that it is partial.
Lasting(sources) == \A s \in sources : s.mtime = accessLogs[s.file].stamp
LinesOf(names) == UNION {accessLogs[f].lines : f \in {g \in names : accessLogs[g].form = "log"}}
Names(sources) == {s.file : s \in sources}
WholeOf(sources, rows) ==
    /\ \A s \in sources : accessLogs[s.file].form \in {"log", "other"}
    /\ rows = LinesOf(Names(sources))
Whole(sources, rows) == Lasting(sources) => WholeOf(sources, rows)

ReadingInv ==
    /\ Dated(builder.sources) /\ Dated(accessIndex.sources)
    /\ builder.at = "reading" =>
          builder.cancelled \/ builder.incomplete \/ Whole(builder.sources, builder.rows)
    /\ accessIndex.partial \/ Whole(accessIndex.sources, accessIndex.rows)

IndexInv == LogsTyped /\ BuilderTyped /\ ReadingInv

----------------------------------------------------------------------------
LEMMA IndexStart == IxInit => IndexInv
<1> SUFFICES ASSUME IxInit PROVE IndexInv
  OBVIOUS
<1>1. LogsTyped
  BY LogIndexConstants DEF IxInit, LogsTyped
<1>2. BuilderTyped
  BY DEF IxInit, BuilderTyped, NoBuilder
<1>3. builder.sources = {} /\ builder.at = "idle" /\ accessIndex.sources = {} /\ accessIndex.rows = {}
  BY DEF IxInit, NoBuilder, NoLogIndex
<1>4. ReadingInv
  BY <1>3 DEF ReadingInv, Dated, Whole, WholeOf, LinesOf, Names
<1> QED  BY <1>1, <1>2, <1>4 DEF IndexInv

LEMMA IndexStands ==
    ASSUME IndexInv, UNCHANGED <<accessLogs, registered, accessIndex, builder>>
    PROVE  IndexInv'
BY DEF IndexInv, LogsTyped, BuilderTyped, ReadingInv, Dated, Whole, WholeOf, Lasting, LinesOf, Names

LEMMA RegisterKeeps ==
    ASSUME IndexInv, Register
    PROVE  IndexInv'
BY DEF Register, IndexInv, LogsTyped, BuilderTyped, ReadingInv, Dated, Whole, WholeOf, Lasting, LinesOf, Names

\* A file that changes is of a later stamp than any source read of it.
LEMMA EditKeeps ==
    ASSUME IndexInv, Edit
    PROVE  IndexInv'
<1>1. PICK f \in AccessLogs, c \in LogVersions :
          accessLogs' = [accessLogs EXCEPT ![f] = [form |-> c.form, lines |-> c.lines, stamp |-> @.stamp + 1]]
  BY DEF Edit
<1>2. UNCHANGED <<registered, accessIndex, builder>>
  BY DEF Edit
<1>3. /\ DOMAIN accessLogs' = AccessLogs /\ DOMAIN accessLogs'[f] = {"form", "lines", "stamp"}
      /\ accessLogs'[f].form = c.form /\ accessLogs'[f].stamp = accessLogs[f].stamp + 1
      /\ \A g \in AccessLogs \ {f} : accessLogs'[g] = accessLogs[g]
  BY <1>1 DEF IndexInv, LogsTyped
<1>4. LogsTyped' /\ BuilderTyped'
  BY <1>2, <1>3, LogIndexConstants DEF IndexInv, LogsTyped, BuilderTyped
<1>5. \A g \in AccessLogs : accessLogs[g].stamp \in Nat /\ accessLogs'[g].stamp \in Nat
  BY <1>4 DEF IndexInv, LogsTyped
<1>6. ASSUME NEW sources, Dated(sources)
      PROVE  Dated(sources)' /\ (Lasting(sources)' => Lasting(sources) /\ \A s \in sources : s.file # f)
  <2>1. ASSUME NEW s \in sources
        PROVE  /\ s.mtime <= accessLogs'[s.file].stamp
               /\ s.mtime = accessLogs'[s.file].stamp => s.file # f /\ s.mtime = accessLogs[s.file].stamp
    <3>1. s.file \in AccessLogs /\ s.mtime \in Nat /\ s.mtime <= accessLogs[s.file].stamp
      BY <1>6 DEF Dated
    <3>2. CASE s.file = f
      BY <1>3, <1>5, <3>1, <3>2
    <3>3. CASE s.file # f
      BY <1>3, <3>1, <3>3
    <3> QED  BY <3>2, <3>3
  <2> QED  BY <1>6, <2>1 DEF Dated, Lasting
<1>7. ASSUME NEW sources, NEW rows, Dated(sources), Whole(sources, rows)
      PROVE  Whole(sources, rows)'
  <2> SUFFICES ASSUME Lasting(sources)' PROVE WholeOf(sources, rows)'
    BY DEF Whole
  <2>1. WholeOf(sources, rows) /\ \A s \in sources : s.file \in AccessLogs /\ s.file # f
    BY <1>6, <1>7 DEF Whole, Dated
  <2>2. \A s \in sources : accessLogs'[s.file] = accessLogs[s.file]
    BY <1>3, <2>1
  <2>3. \A g \in Names(sources) : accessLogs'[g] = accessLogs[g]
    BY <2>2 DEF Names
  <2>4. LinesOf(Names(sources))' = LinesOf(Names(sources))
    BY <2>3 DEF LinesOf, Names
  <2> QED  BY <2>1, <2>2, <2>4 DEF WholeOf
<1>8. ReadingInv'
  BY <1>2, <1>6, <1>7 DEF IndexInv, ReadingInv
<1> QED  BY <1>4, <1>8 DEF IndexInv

LEMMA BuildStartKeeps ==
    ASSUME IndexInv, BuildStart
    PROVE  IndexInv'
<1>1. /\ accessIndex' = NoLogIndex /\ UNCHANGED <<accessLogs, registered>>
      /\ builder' = [NoBuilder EXCEPT !.at = "reading", !.todo = registered,
                        !.sizes = [f \in registered |-> accessLogs[f].stamp], !.gen = builder.gen + 1]
  BY DEF BuildStart
<1>2. /\ DOMAIN builder' = {"at", "todo", "sizes", "sources", "rows", "cancelled", "incomplete", "gen"}
      /\ builder'.at = "reading" /\ builder'.todo = registered /\ builder'.gen = builder.gen + 1
      /\ builder'.sources = {} /\ builder'.rows = {}
      /\ accessIndex'.sources = {} /\ accessIndex'.rows = {}
  BY <1>1 DEF NoBuilder, NoLogIndex
<1>3. LogsTyped' /\ BuilderTyped'
  BY <1>1, <1>2 DEF IndexInv, LogsTyped, BuilderTyped
<1>4. ReadingInv'
  BY <1>2 DEF ReadingInv, Dated, Whole, WholeOf, LinesOf, Names
<1> QED  BY <1>3, <1>4 DEF IndexInv

LEMMA ReadFileKeeps ==
    ASSUME IndexInv, NEW f \in AccessLogs, ReadFile(f)
    PROVE  IndexInv'
<1> DEFINE s == Source(f)
           form == accessLogs[f].form
<1>1. /\ builder.at = "reading" /\ UNCHANGED <<accessLogs, registered, accessIndex>>
      /\ builder' = [builder EXCEPT
            !.todo = @ \ {f}, !.sources = @ \cup {s}, !.rows = @ \cup Parsed(f),
            !.incomplete = @ \/ form \in {"unreadable", "broken"}]
  BY DEF ReadFile
<1>2. /\ DOMAIN builder' = DOMAIN builder /\ builder'.at = "reading" /\ builder'.todo = builder.todo \ {f}
      /\ builder'.sources = builder.sources \cup {s} /\ builder'.rows = builder.rows \cup Parsed(f)
      /\ builder'.gen = builder.gen
  BY <1>1 DEF IndexInv, BuilderTyped
<1>3. (builder'.cancelled <=> builder.cancelled)
      /\ (builder'.incomplete <=> builder.incomplete \/ form \in {"unreadable", "broken"})
  BY <1>1 DEF IndexInv, BuilderTyped
<1>4. LogsTyped' /\ BuilderTyped'
  BY <1>1, <1>2 DEF IndexInv, LogsTyped, BuilderTyped
<1>5. s.file = f /\ s.mtime = accessLogs[f].stamp /\ form \in Forms /\ accessLogs[f].stamp \in Nat
  BY DEF Source, IndexInv, LogsTyped
<1> HIDE DEF s
<1>6. Dated(builder'.sources)
  BY <1>2, <1>5 DEF IndexInv, ReadingInv, Dated
<1>7. ASSUME ~builder'.cancelled, ~builder'.incomplete
      PROVE  Whole(builder'.sources, builder'.rows)
  <2> SUFFICES ASSUME Lasting(builder'.sources)
               PROVE  WholeOf(builder'.sources, builder'.rows)
    BY DEF Whole
  <2>1. form \in {"log", "other"}
    BY <1>3, <1>5, <1>7 DEF Forms
  <2>2. WholeOf(builder.sources, builder.rows)
    <3>1. Lasting(builder.sources)
      BY <1>2 DEF Lasting
    <3> QED  BY <1>1, <1>3, <1>7, <3>1 DEF IndexInv, ReadingInv, Whole
  <2>3. Names(builder'.sources) = Names(builder.sources) \cup {f}
    BY <1>2, <1>5 DEF Names
  <2>4. Parsed(f) = LinesOf({f})
    BY <2>1 DEF Parsed, Skips, LinesOf
  <2>5. LinesOf(Names(builder.sources) \cup {f}) = LinesOf(Names(builder.sources)) \cup LinesOf({f})
    BY DEF LinesOf
  <2>6. builder'.rows = LinesOf(Names(builder'.sources))
    BY <1>2, <2>2, <2>3, <2>4, <2>5 DEF WholeOf
  <2>7. \A x \in builder'.sources : accessLogs[x.file].form \in {"log", "other"}
    BY <1>2, <1>5, <2>1, <2>2 DEF WholeOf
  <2> QED  BY <2>6, <2>7 DEF WholeOf
<1>8. ReadingInv'
  BY <1>1, <1>6, <1>7 DEF IndexInv, ReadingInv, Dated, Whole, WholeOf, Lasting, LinesOf, Names
<1> QED  BY <1>4, <1>8 DEF IndexInv

LEMMA CancelledKeeps ==
    ASSUME IndexInv, Cancelled
    PROVE  IndexInv'
<1>1. UNCHANGED <<accessLogs, registered, accessIndex>>
  BY DEF Cancelled
<1>2. PICK sources, rows :
          /\ builder' = [builder EXCEPT !.cancelled = TRUE, !.todo = {}, !.sources = sources, !.rows = rows]
          /\ sources = builder.sources \/ \E f \in builder.todo : sources = builder.sources \cup {Source(f)}
  <2>1. CASE builder' = [builder EXCEPT !.cancelled = TRUE, !.todo = {}]
    <3>1. builder' = [builder EXCEPT !.cancelled = TRUE, !.todo = {}, !.sources = builder.sources,
                                     !.rows = builder.rows]
      BY <2>1 DEF IndexInv, BuilderTyped
    <3> QED  BY <3>1
  <2>2. CASE \E f \in builder.todo : \E some :
                builder' = [builder EXCEPT !.cancelled = TRUE, !.todo = {}, !.sources = @ \cup {Source(f)},
                                           !.rows = @ \cup some]
    BY <2>2
  <2> QED  BY <2>1, <2>2 DEF Cancelled
<1>3. /\ DOMAIN builder' = DOMAIN builder /\ builder'.at = builder.at /\ builder'.todo = {}
      /\ builder'.cancelled = TRUE /\ builder'.sources = sources /\ builder'.gen = builder.gen
  BY <1>2 DEF IndexInv, BuilderTyped
<1>4. LogsTyped' /\ BuilderTyped'
  BY <1>1, <1>3 DEF IndexInv, LogsTyped, BuilderTyped
<1>5. Dated(sources)
  <2>1. \A f \in AccessLogs : Source(f).file = f /\ Source(f).mtime = accessLogs[f].stamp
    BY DEF Source
  <2> QED  BY <1>2, <2>1 DEF IndexInv, LogsTyped, BuilderTyped, ReadingInv, Dated
<1>6. ReadingInv'
  BY <1>1, <1>3, <1>5 DEF IndexInv, ReadingInv, Dated, Whole, WholeOf, Lasting, LinesOf, Names
<1> QED  BY <1>4, <1>6 DEF IndexInv

LEMMA PublishKeeps ==
    ASSUME IndexInv, Publish
    PROVE  IndexInv'
<1>1. /\ builder.at = "reading" /\ UNCHANGED <<accessLogs, registered>>
      /\ accessIndex' = Committed /\ builder' = [builder EXCEPT !.at = "alerts"]
  BY DEF Publish
<1>2. /\ DOMAIN builder' = DOMAIN builder /\ builder'.at = "alerts" /\ builder'.todo = builder.todo
      /\ builder'.sources = builder.sources /\ builder'.gen = builder.gen
  BY <1>1 DEF IndexInv, BuilderTyped
<1>3. accessIndex'.sources = builder.sources /\ accessIndex'.rows = builder.rows
      /\ (accessIndex'.partial <=> builder.cancelled \/ builder.incomplete)
  BY <1>1 DEF Committed
<1>4. LogsTyped' /\ BuilderTyped'
  BY <1>1, <1>2 DEF IndexInv, LogsTyped, BuilderTyped
<1>5. ReadingInv'
  BY <1>1, <1>2, <1>3 DEF IndexInv, ReadingInv, Dated, Whole, WholeOf, Lasting, LinesOf, Names
<1> QED  BY <1>4, <1>5 DEF IndexInv

LEMMA AlertsKeep ==
    ASSUME IndexInv, WriteAlerts \/ CompleteAlerts \/ Crash
    PROVE  IndexInv'
<1>1. UNCHANGED <<accessLogs, registered, accessIndex>>
  BY DEF WriteAlerts, CompleteAlerts, Crash
<1>2. /\ DOMAIN builder' = DOMAIN builder /\ builder'.at \in {"idle", "retire"}
      /\ builder'.todo \subseteq builder.todo /\ builder'.gen = builder.gen
      /\ builder'.sources \subseteq builder.sources
  <2>1. CASE WriteAlerts
    BY <2>1 DEF WriteAlerts, IndexInv, BuilderTyped
  <2>2. CASE builder' = [NoBuilder EXCEPT !.gen = builder.gen]
    BY <2>2 DEF NoBuilder, IndexInv, BuilderTyped
  <2> QED  BY <2>1, <2>2 DEF CompleteAlerts, Crash
<1>3. LogsTyped' /\ BuilderTyped'
  BY <1>1, <1>2 DEF IndexInv, LogsTyped, BuilderTyped
<1>4. ReadingInv'
  BY <1>1, <1>2 DEF IndexInv, ReadingInv, Dated, Whole, WholeOf, Lasting, LinesOf, Names
<1> QED  BY <1>3, <1>4 DEF IndexInv

LEMMA IndexStep == IndexInv /\ [IxNext]_ixvars => IndexInv'
<1> SUFFICES ASSUME IndexInv, [IxNext]_ixvars PROVE IndexInv'
  OBVIOUS
<1>1. CASE UNCHANGED ixvars \/ SwitchKind(Switchable)
  BY <1>1, IndexStands DEF ixvars, SwitchKind
<1>2. CASE WriteAlerts \/ CompleteAlerts \/ Crash
  BY <1>2, AlertsKeep
<1> QED
  BY <1>1, <1>2, RegisterKeeps, EditKeeps, BuildStartKeeps, ReadFileKeeps, CancelledKeeps, PublishKeeps
  DEF IxNext

THEOREM IndexInvariant == IxSpec => []IndexInv
BY IndexStart, IndexStep, PTL DEF IxSpec

LEMMA FreshIsWhole == IndexInv => FreshMeansAll
<1> SUFFICES ASSUME IndexInv, FreshIndex(registered)
             PROVE  /\ \A f \in registered : accessLogs[f].form \in {"log", "other"}
                    /\ accessIndex.rows = LinesOf(registered)
  BY DEF FreshMeansAll, LinesOf
<1>1. /\ accessIndex.sources = {[file |-> f, size |-> accessLogs[f].stamp, mtime |-> accessLogs[f].stamp] :
                                   f \in registered}
      /\ ~accessIndex.partial
  BY DEF FreshIndex, SourceFingerprint
<1>2. Names(accessIndex.sources) = registered /\ Lasting(accessIndex.sources)
  <2>1. ASSUME NEW s \in accessIndex.sources
        PROVE  s.file \in registered /\ s.mtime = accessLogs[s.file].stamp
    BY <1>1
  <2>2. ASSUME NEW f \in registered
        PROVE  \E s \in accessIndex.sources : s.file = f
    <3> DEFINE s == [file |-> f, size |-> accessLogs[f].stamp, mtime |-> accessLogs[f].stamp]
    <3>1. s \in accessIndex.sources /\ s.file = f
      BY <1>1
    <3> QED  BY <3>1
  <2> QED  BY <2>1, <2>2 DEF Names, Lasting
<1>3. WholeOf(accessIndex.sources, accessIndex.rows)
  BY <1>1, <1>2 DEF IndexInv, ReadingInv, Whole
<1>4. \A f \in registered : \E s \in accessIndex.sources : s.file = f
  BY <1>2 DEF Names
<1> QED  BY <1>2, <1>3, <1>4 DEF WholeOf

THEOREM FreshIsAll == IxSpec => []FreshMeansAll
BY IndexInvariant, FreshIsWhole, PTL

----------------------------------------------------------------------------
(* The alerts of a settled index                                           *)

Reported == {a \in Alerts(accessIndex.rows) : a.kind \notin alertsOf.off}

\* A build has its number from the start and leaves it to its index; the findings
\* are those of a build only once it has retired what it did not report.
AlertsInv ==
    /\ DOMAIN builder = {"at", "todo", "sizes", "sources", "rows", "cancelled", "incomplete", "gen"}
    /\ builder.gen \in Nat /\ builder.at \in {"idle", "reading", "alerts", "retire"}
    /\ DOMAIN alertsOf = {"gen", "off"} /\ alertsOf.gen \in 0 .. builder.gen
    /\ builder.at # "idle" => alertsOf.gen < builder.gen
    /\ builder.at = "reading" => accessIndex = NoLogIndex
    /\ builder.at \in {"alerts", "retire"} => accessIndex.gen = builder.gen
    /\ builder.at = "retire" => builder.rows = Reported
    /\ builder.at = "idle" /\ accessIndex # NoLogIndex /\ alertsOf.gen = accessIndex.gen => found = Reported

AlertsSettled ==
    builder.at = "idle" /\ accessIndex # NoLogIndex /\ alertsOf.gen = accessIndex.gen => found = Reported

LEMMA AlertsStart == IxInit => AlertsInv
BY DEF IxInit, AlertsInv, NoBuilder, NoLogIndex

LEMMA AlertsStep == AlertsInv /\ [IxNext]_ixvars => AlertsInv'
<1> SUFFICES ASSUME AlertsInv, [IxNext]_ixvars PROVE AlertsInv'
  OBVIOUS
<1>1. CASE UNCHANGED <<accessIndex, builder, found, alertsOf>>
  BY <1>1 DEF AlertsInv, Reported
<1>2. CASE BuildStart
  <2>1. /\ builder' = [NoBuilder EXCEPT !.at = "reading", !.todo = registered,
                           !.sizes = [f \in registered |-> accessLogs[f].stamp], !.gen = builder.gen + 1]
        /\ accessIndex' = NoLogIndex /\ UNCHANGED <<found, alertsOf>>
    BY <1>2 DEF BuildStart
  <2>2. /\ DOMAIN builder' = {"at", "todo", "sizes", "sources", "rows", "cancelled", "incomplete", "gen"}
        /\ builder'.at = "reading" /\ builder'.gen = builder.gen + 1
    BY <2>1 DEF NoBuilder
  <2> QED  BY <2>1, <2>2 DEF AlertsInv
<1>3. CASE (\E f \in AccessLogs : ReadFile(f)) \/ Cancelled
  <2>1. /\ DOMAIN builder' = DOMAIN builder /\ builder'.at = builder.at /\ builder'.gen = builder.gen
        /\ builder.at = "reading" /\ UNCHANGED <<accessIndex, found, alertsOf>>
    BY <1>3 DEF ReadFile, Cancelled, AlertsInv
  <2> QED  BY <2>1 DEF AlertsInv
<1>4. CASE Publish
  <2>1. /\ DOMAIN builder' = DOMAIN builder /\ builder'.at = "alerts" /\ builder'.gen = builder.gen
        /\ builder.at = "reading" /\ UNCHANGED <<found, alertsOf>>
    BY <1>4 DEF Publish, AlertsInv
  <2>2. accessIndex'.gen = builder.gen
    BY <1>4 DEF Publish, Committed
  <2> QED  BY <2>1, <2>2 DEF AlertsInv
<1>5. CASE WriteAlerts
  <2> DEFINE reported == {a \in Alerts(accessIndex.rows) : a.kind \notin off}
  <2>1. /\ builder.at = "alerts" /\ builder' = [builder EXCEPT !.at = "retire", !.rows = reported]
        /\ alertsOf' = [gen |-> alertsOf.gen, off |-> off] /\ UNCHANGED accessIndex
    BY <1>5 DEF WriteAlerts
  <2>2. alertsOf'.off = off /\ alertsOf'.gen = alertsOf.gen /\ DOMAIN alertsOf' = {"gen", "off"}
    BY <2>1
  <2>3. Reported' = reported
    BY <2>1, <2>2 DEF Reported
  <2> HIDE DEF reported
  <2>4. /\ DOMAIN builder' = DOMAIN builder /\ builder'.at = "retire" /\ builder'.gen = builder.gen
        /\ builder'.rows = reported
    BY <2>1 DEF AlertsInv
  <2> QED  BY <2>1, <2>2, <2>3, <2>4 DEF AlertsInv
<1>6. CASE CompleteAlerts
  <2>1. /\ builder.at = "retire" /\ builder' = [NoBuilder EXCEPT !.gen = builder.gen]
        /\ UNCHANGED accessIndex
    BY <1>6 DEF CompleteAlerts
  <2>2. /\ DOMAIN builder' = {"at", "todo", "sizes", "sources", "rows", "cancelled", "incomplete", "gen"}
        /\ builder'.at = "idle" /\ builder'.gen = builder.gen
    BY <2>1 DEF NoBuilder
  <2>3. CASE accessIndex.partial
    <3>1. UNCHANGED <<found, alertsOf>>
      BY <1>6, <2>3 DEF CompleteAlerts
    <3> QED  BY <2>1, <2>2, <3>1 DEF AlertsInv
  <2>4. CASE ~accessIndex.partial
    <3>1. found' = builder.rows /\ alertsOf' = [alertsOf EXCEPT !.gen = accessIndex.gen]
      BY <1>6, <2>4 DEF CompleteAlerts
    <3>2. DOMAIN alertsOf' = {"gen", "off"} /\ alertsOf'.gen = accessIndex.gen /\ alertsOf'.off = alertsOf.off
      BY <3>1 DEF AlertsInv
    <3>3. Reported' = Reported
      BY <2>1, <3>2 DEF Reported
    <3> QED  BY <2>1, <2>2, <3>1, <3>2, <3>3 DEF AlertsInv
  <2> QED  BY <2>3, <2>4
<1>7. CASE Crash
  <2>1. /\ builder.at # "idle" /\ builder' = [NoBuilder EXCEPT !.gen = builder.gen]
        /\ UNCHANGED <<accessIndex, found, alertsOf>>
    BY <1>7 DEF Crash
  <2>2. /\ DOMAIN builder' = {"at", "todo", "sizes", "sources", "rows", "cancelled", "incomplete", "gen"}
        /\ builder'.at = "idle" /\ builder'.gen = builder.gen
    BY <2>1 DEF NoBuilder
  <2> QED  BY <2>1, <2>2 DEF AlertsInv
<1> QED
  BY <1>1, <1>2, <1>3, <1>4, <1>5, <1>6, <1>7 DEF IxNext, ixvars, Register, Edit, SwitchKind

\* The protocol half of AlertsRestateIndex: the findings are the alerts that build() made of
\* the rows of the index, but for the kinds that were off, once its build has settled them.
THEOREM AlertsFollowIndex == IxSpec => []AlertsSettled
<1>1. AlertsInv => AlertsSettled
  BY DEF AlertsInv, AlertsSettled
<1> QED  BY <1>1, AlertsStart, AlertsStep, PTL DEF IxSpec

(***************************************************************************)
(* Hunts: the patterns, the batches that run them and what is applied.     *)
(*                                                                         *)
(* The argument: the entries of a roster stand for different patterns and  *)
(* never change what they stand for (RosterTyped, SameEntries); the check  *)
(* in hand is of the entry the loop is at (CheckInHand), so the test it    *)
(* stores is of an entry of the roster (TestsRecorded), and an entry is    *)
(* marked as done only when its test is stored (DoneIsStored). A job that  *)
(* ends between the two leaves the test, and the list of runs goes by the  *)
(* tests.                                                                  *)
(***************************************************************************)

Statuses == {"pending", "running", "done", "failed", "not_run"}

\* Nobody hunts a pattern twice in one batch.
RosterTyped ==
    /\ DOMAIN job = {"state", "fp", "roster", "next", "cancelled"}
    /\ Sequence(job.roster) /\ job.next \in Nat /\ (Hunting => job.next > 0)
    /\ \A i \in DOMAIN job.roster : /\ DOMAIN job.roster[i] = {"id", "version", "rule", "status"}
                                    /\ job.roster[i].status \in Statuses
    /\ \A i, j \in DOMAIN job.roster : job.roster[i].id = job.roster[j].id => i = j

\* A stored test is of an entry of the roster: what it hunted and where.
Confirms(t, item) ==
    /\ Test(t).batch /\ Test(t).pattern = item.id
    /\ Test(t).version = item.version /\ Test(t).rule = item.rule
    /\ Test(t).gen = job.fp
Stored(item) == \E t \in 1 .. Len(tests) : Confirms(t, item)

\* The check of a batch is of the entry the loop is at, and saved once it is stored.
CheckInHand ==
    /\ DOMAIN check = {"at", "batch", "pattern", "version", "rule", "fp", "clients"}
    /\ Hunting => check.at = "none" \/ check.batch
    /\ check.at = "none" => ~check.batch
    /\ check.batch =>
          /\ Hunting /\ job.next \in DOMAIN job.roster
          /\ check.pattern = job.roster[job.next].id /\ check.version = job.roster[job.next].version
          /\ check.rule = job.roster[job.next].rule /\ check.fp = job.fp
    /\ check.at = "save" => check.batch /\ Stored(job.roster[job.next])

TestsRecorded ==
    /\ Sequence(tests)
    /\ \A t \in 1 .. Len(tests) :
          Test(t).batch => \E i \in DOMAIN job.roster : Confirms(t, job.roster[i])
DoneIsStored ==
    \A i \in DOMAIN job.roster : job.roster[i].status = "done" => Stored(job.roster[i])

HuntInv == RosterTyped /\ CheckInHand /\ TestsRecorded /\ DoneIsStored

\* Patterns are numbered.
PatternsNumbered == \E n \in Nat : DOMAIN library = 1 .. n

HuntsInv == PatternsNumbered /\ HuntInv

----------------------------------------------------------------------------
LEMMA HuntsStart == HInit => HuntInv
<1> SUFFICES ASSUME HInit PROVE HuntInv
  OBVIOUS
<1>1. job = NoHunt /\ check = NoCheck /\ tests = <<>>
  BY DEF HInit
<1>2. Sequence(<<>>) /\ Len(<<>>) = 0 /\ DOMAIN <<>> = {}
  BY DEF Sequence
<1>3. RosterTyped
  BY <1>1, <1>2 DEF RosterTyped, NoHunt, Hunting
<1>4. CheckInHand
  BY <1>1 DEF CheckInHand, NoCheck, NoHunt, Hunting
<1>5. TestsRecorded /\ DoneIsStored
  BY <1>1, <1>2 DEF TestsRecorded, DoneIsStored, NoHunt
<1> QED  BY <1>3, <1>4, <1>5 DEF HuntInv

LEMMA HuntsStand ==
    ASSUME HuntInv, UNCHANGED <<job, check, tests>>
    PROVE  HuntInv'
BY DEF HuntInv, RosterTyped, CheckInHand, TestsRecorded, DoneIsStored, Stored, Confirms, Hunting, Test

\* Statuses may change as the roster is worked through; what its entries stand for may not.
SameEntries ==
    /\ job'.fp = job.fp /\ DOMAIN job' = DOMAIN job
    /\ job'.roster = [i \in DOMAIN job.roster |-> job'.roster[i]]
    /\ \A i \in DOMAIN job.roster :
          /\ DOMAIN job'.roster[i] = {"id", "version", "rule", "status"} /\ job'.roster[i].status \in Statuses
          /\ job'.roster[i].id = job.roster[i].id /\ job'.roster[i].version = job.roster[i].version
          /\ job'.roster[i].rule = job.roster[i].rule

LEMMA EntriesKept ==
    ASSUME HuntInv, SameEntries, UNCHANGED tests,
           job'.next \in Nat, Hunting' => job'.next > 0,
           \A i \in DOMAIN job.roster :
              job'.roster[i].status = "done" => job.roster[i].status = "done" \/ Stored(job.roster[i])
    PROVE  /\ RosterTyped' /\ TestsRecorded' /\ DoneIsStored' /\ DOMAIN job'.roster = DOMAIN job.roster
           /\ \A i \in DOMAIN job.roster : Stored(job.roster[i])' <=> Stored(job.roster[i])
<1>1. Sequence(job'.roster) /\ DOMAIN job'.roster = DOMAIN job.roster
  BY Reindexed DEF HuntInv, RosterTyped, SameEntries
<1>2. RosterTyped'
  BY <1>1 DEF HuntInv, RosterTyped, SameEntries
<1>3. \A i \in DOMAIN job.roster : \A t : Confirms(t, job.roster[i])' <=> Confirms(t, job.roster[i])
  BY DEF SameEntries, Confirms, Test
<1>4. \A i \in DOMAIN job.roster : Stored(job.roster[i])' <=> Stored(job.roster[i])
  BY <1>3 DEF Stored
<1>5. TestsRecorded'
  BY <1>1, <1>3 DEF HuntInv, TestsRecorded, Test
<1>6. DoneIsStored'
  BY <1>1, <1>4 DEF HuntInv, DoneIsStored
<1> QED  BY <1>1, <1>2, <1>4, <1>5, <1>6

LEMMA BatchStartKeeps ==
    ASSUME HuntInv, PatternsNumbered, BatchStart
    PROVE  HuntInv'
<1>1. job = NoHunt /\ ~Hunting /\ UNCHANGED <<check, tests>>
  BY DEF BatchStart, CaseIdle
<1>2. PICK n \in 1 .. MaxPatterns : \E w \in [1 .. n -> Enabled] :
          /\ \A i, j \in 1 .. n : i < j => w[i] < w[j]
          /\ job' = [NoHunt EXCEPT
               !.state = "queued", !.fp = CurrentFingerprint, !.next = 1,
               !.roster = [i \in 1 .. n |-> [id |-> w[i], version |-> library[w[i]].version,
                                            rule |-> library[w[i]].rule, status |-> "pending"]]]
  BY DEF BatchStart
<1>3. PICK w \in [1 .. n -> Enabled] :
          /\ \A i, j \in 1 .. n : i < j => w[i] < w[j]
          /\ job' = [NoHunt EXCEPT
               !.state = "queued", !.fp = CurrentFingerprint, !.next = 1,
               !.roster = [i \in 1 .. n |-> [id |-> w[i], version |-> library[w[i]].version,
                                            rule |-> library[w[i]].rule, status |-> "pending"]]]
  BY <1>2
<1>4. n \in Nat
  BY HuntConstants
<1>5. /\ DOMAIN job' = {"state", "fp", "roster", "next", "cancelled"} /\ job'.next = 1
      /\ job'.roster = [i \in 1 .. n |-> [id |-> w[i], version |-> library[w[i]].version,
                                          rule |-> library[w[i]].rule, status |-> "pending"]]
  BY <1>3 DEF NoHunt
<1>6. /\ Sequence(job'.roster) /\ DOMAIN job'.roster = 1 .. n
      /\ \A i \in 1 .. n : /\ DOMAIN job'.roster[i] = {"id", "version", "rule", "status"}
                           /\ job'.roster[i].status = "pending" /\ job'.roster[i].id = w[i]
  BY <1>4, <1>5 DEF Sequence
<1>7. \A i, j \in 1 .. n : w[i] = w[j] => i = j
  <2>1. \A i \in 1 .. n : w[i] \in Nat
    BY DEF Enabled, PatternsNumbered
  <2> SUFFICES ASSUME NEW i \in 1 .. n, NEW j \in 1 .. n, i < j PROVE w[i] # w[j]
    BY <1>4
  <2>2. w[i] < w[j]
    BY <1>3
  <2> QED  BY <2>1, <2>2
<1>8. RosterTyped'
  BY <1>5, <1>6, <1>7 DEF RosterTyped, Statuses
<1>9. check.at = "none" /\ ~check.batch
  BY <1>1 DEF BatchStart, CaseIdle, HuntInv, CheckInHand
<1>10. CheckInHand'
  BY <1>1, <1>9 DEF HuntInv, CheckInHand
<1>11. \A t \in 1 .. Len(tests) : ~Test(t).batch
  <2>1. DOMAIN job.roster = {}
    BY <1>1 DEF NoHunt
  <2> QED  BY <2>1 DEF HuntInv, TestsRecorded
<1>12. TestsRecorded' /\ DoneIsStored'
  BY <1>1, <1>6, <1>11 DEF HuntInv, TestsRecorded, DoneIsStored, Test
<1> QED  BY <1>8, <1>10, <1>12 DEF HuntInv

\* The state of the job changes, its check may be dropped, and no test is stored.
LEMMA CheckDropped ==
    ASSUME HuntInv, SameEntries, UNCHANGED tests, check' = NoCheck,
           job'.next \in Nat, Hunting' => job'.next > 0,
           \A i \in DOMAIN job.roster :
              job'.roster[i].status = "done" => job.roster[i].status = "done" \/ Stored(job.roster[i])
    PROVE  HuntInv'
<1>1. RosterTyped' /\ TestsRecorded' /\ DoneIsStored'
  BY EntriesKept
<1>2. /\ DOMAIN check' = {"at", "batch", "pattern", "version", "rule", "fp", "clients"}
      /\ check'.at = "none" /\ check'.batch = FALSE
  BY DEF NoCheck
<1>3. CheckInHand'
  BY <1>2 DEF CheckInHand
<1> QED  BY <1>1, <1>3 DEF HuntInv

\* The job alone changes, and stays at its entry.
LEMMA JobRestated ==
    ASSUME HuntInv, SameEntries, UNCHANGED <<tests, check>>, job'.next = job.next, Hunting' <=> Hunting,
           \A i \in DOMAIN job.roster : job'.roster[i].status = job.roster[i].status
    PROVE  HuntInv'
<1>1. job'.next \in Nat /\ (Hunting' => job'.next > 0)
  BY DEF HuntInv, RosterTyped
<1>2. /\ RosterTyped' /\ TestsRecorded' /\ DoneIsStored' /\ DOMAIN job'.roster = DOMAIN job.roster
      /\ \A i \in DOMAIN job.roster : Stored(job.roster[i])' <=> Stored(job.roster[i])
  BY <1>1, EntriesKept
<1>3. CheckInHand'
  <2>1. check.batch => job.next \in DOMAIN job.roster
    BY DEF HuntInv, CheckInHand
  <2>2. \A i \in DOMAIN job.roster :
           /\ job'.roster[i].id = job.roster[i].id /\ job'.roster[i].version = job.roster[i].version
           /\ job'.roster[i].rule = job.roster[i].rule
    BY DEF SameEntries
  <2> QED  BY <1>2, <2>1, <2>2 DEF HuntInv, CheckInHand, SameEntries
<1> QED  BY <1>2, <1>3 DEF HuntInv

LEMMA BatchCancelKeeps ==
    ASSUME HuntInv, BatchCancel
    PROVE  HuntInv'
<1>1. job' = [job EXCEPT !.cancelled = TRUE] /\ UNCHANGED <<tests, check>>
  BY DEF BatchCancel
<1>2. /\ DOMAIN job' = DOMAIN job /\ job'.next = job.next /\ job'.fp = job.fp
      /\ job'.roster = job.roster /\ job'.state = job.state
  BY <1>1 DEF HuntInv, RosterTyped
<1>3. SameEntries
  <2>1. job.roster = [i \in DOMAIN job.roster |-> job.roster[i]]
    BY Sized DEF HuntInv, RosterTyped, Sequence
  <2> QED  BY <1>2, <2>1 DEF SameEntries, HuntInv, RosterTyped
<1> QED  BY <1>1, <1>2, <1>3, JobRestated DEF Hunting

\* The entry the loop is at gets a status.
LEMMA Marking ==
    ASSUME HuntInv, job.next \in DOMAIN job.roster, NEW status \in Statuses
    PROVE  /\ MarkedAs(status) = [i \in DOMAIN job.roster |-> MarkedAs(status)[i]]
           /\ DOMAIN MarkedAs(status) = DOMAIN job.roster
           /\ MarkedAs(status)[job.next].status = status
           /\ \A i \in DOMAIN job.roster :
                 /\ DOMAIN MarkedAs(status)[i] = {"id", "version", "rule", "status"}
                 /\ MarkedAs(status)[i].status \in Statuses
                 /\ MarkedAs(status)[i].id = job.roster[i].id
                 /\ MarkedAs(status)[i].version = job.roster[i].version
                 /\ MarkedAs(status)[i].rule = job.roster[i].rule
                 /\ i # job.next => MarkedAs(status)[i] = job.roster[i]
BY DEF MarkedAs, HuntInv, RosterTyped

\* What an ended job leaves as it is.
LEMMA Settling ==
    ASSUME NEW roster, DOMAIN roster = DOMAIN job.roster,
           \A i \in DOMAIN job.roster : /\ DOMAIN roster[i] = {"id", "version", "rule", "status"}
                                       /\ roster[i].status \in Statuses
    PROVE  /\ Settled(roster) = [i \in DOMAIN job.roster |-> Settled(roster)[i]]
           /\ DOMAIN Settled(roster) = DOMAIN job.roster
           /\ \A i \in DOMAIN job.roster :
                 /\ DOMAIN Settled(roster)[i] = {"id", "version", "rule", "status"}
                 /\ Settled(roster)[i].status \in Statuses
                 /\ Settled(roster)[i].id = roster[i].id
                 /\ Settled(roster)[i].version = roster[i].version
                 /\ Settled(roster)[i].rule = roster[i].rule
                 /\ Settled(roster)[i].status = "done" => roster[i].status = "done"
BY DEF Settled, Statuses

LEMMA Ending ==
    ASSUME HuntInv, NEW roster, job' = EndJob(roster)
    PROVE  /\ DOMAIN job' = DOMAIN job /\ job'.next = job.next /\ job'.fp = job.fp
           /\ job'.roster = Settled(roster) /\ ~Hunting'
<1> DEFINE state == IF job.cancelled THEN "cancelled" ELSE "done"
<1>1. job' = [job EXCEPT !.state = state, !.roster = Settled(roster)]
  BY DEF EndJob
<1>2. state \notin {"queued", "running"}
  OBVIOUS
<1> HIDE DEF state
<1> QED  BY <1>1, <1>2 DEF HuntInv, RosterTyped, Hunting

LEMMA BatchNextKeeps ==
    ASSUME HuntInv, BatchNext
    PROVE  HuntInv'
<1>1. Hunting /\ check.at = "none" /\ UNCHANGED tests
  BY DEF BatchNext
<1>2. job.next \in Nat \ {0} /\ Len(job.roster) \in Nat /\ DOMAIN job.roster = 1 .. Len(job.roster)
      /\ job.roster = [i \in DOMAIN job.roster |-> job.roster[i]]
  BY <1>1, Sized DEF HuntInv, RosterTyped, Sequence
<1>3. CASE job' = EndJob(job.roster) /\ UNCHANGED check
  <2>1. /\ DOMAIN job' = DOMAIN job /\ job'.next = job.next /\ job'.fp = job.fp
        /\ job'.roster = Settled(job.roster) /\ ~Hunting'
    BY <1>3, Ending
  <2>2. /\ Settled(job.roster) = [i \in DOMAIN job.roster |-> Settled(job.roster)[i]]
        /\ \A i \in DOMAIN job.roster :
              /\ DOMAIN Settled(job.roster)[i] = {"id", "version", "rule", "status"}
              /\ Settled(job.roster)[i].status \in Statuses
              /\ Settled(job.roster)[i].id = job.roster[i].id
              /\ Settled(job.roster)[i].version = job.roster[i].version
              /\ Settled(job.roster)[i].rule = job.roster[i].rule
              /\ Settled(job.roster)[i].status = "done" => job.roster[i].status = "done"
    BY Settling DEF HuntInv, RosterTyped
  <2>3. SameEntries
    BY <2>1, <2>2 DEF SameEntries
  <2>4. RosterTyped' /\ TestsRecorded' /\ DoneIsStored'
    BY <1>1, <1>2, <2>1, <2>2, <2>3, EntriesKept
  <2>5. ~check.batch
    BY <1>1 DEF HuntInv, CheckInHand
  <2>6. CheckInHand'
    BY <1>1, <1>3, <2>1, <2>5 DEF HuntInv, CheckInHand
  <2> QED  BY <2>4, <2>6 DEF HuntInv
<1>4. CASE ~(job.cancelled \/ job.next > Len(job.roster))
  <2> DEFINE item == job.roster[job.next]
  <2>1. job' = [job EXCEPT !.state = "running", !.roster = MarkedAs("running")]
        /\ check' = [at |-> "match", batch |-> TRUE, pattern |-> item.id,
                     version |-> item.version, rule |-> item.rule,
                     fp |-> job.fp, clients |-> {}]
    BY <1>4 DEF BatchNext
  <2>2. job.next \in DOMAIN job.roster
    BY <1>2, <1>4
  <2>3. /\ MarkedAs("running") = [i \in DOMAIN job.roster |-> MarkedAs("running")[i]]
        /\ MarkedAs("running")[job.next].status = "running"
        /\ \A i \in DOMAIN job.roster :
              /\ DOMAIN MarkedAs("running")[i] = {"id", "version", "rule", "status"}
              /\ MarkedAs("running")[i].status \in Statuses
              /\ MarkedAs("running")[i].id = job.roster[i].id
              /\ MarkedAs("running")[i].version = job.roster[i].version
              /\ MarkedAs("running")[i].rule = job.roster[i].rule
              /\ i # job.next => MarkedAs("running")[i] = job.roster[i]
    <3>1. "running" \in Statuses
      BY DEF Statuses
    <3> QED  BY <2>2, <3>1, Marking
  <2>4. /\ DOMAIN job' = DOMAIN job /\ job'.next = job.next /\ job'.fp = job.fp
        /\ job'.roster = MarkedAs("running") /\ job'.state = "running"
    BY <2>1 DEF HuntInv, RosterTyped
  <2>5. SameEntries
    BY <2>3, <2>4 DEF SameEntries
  <2>6. \A i \in DOMAIN job.roster : job'.roster[i].status = "done" => job.roster[i].status = "done"
    BY <2>3, <2>4
  <2>7. RosterTyped' /\ TestsRecorded' /\ DoneIsStored' /\ DOMAIN job'.roster = DOMAIN job.roster
    BY <1>1, <1>2, <2>4, <2>5, <2>6, EntriesKept
  <2>8. /\ DOMAIN check' = {"at", "batch", "pattern", "version", "rule", "fp", "clients"}
        /\ check'.at = "match" /\ check'.batch = TRUE /\ check'.pattern = item.id
        /\ check'.version = item.version /\ check'.rule = item.rule /\ check'.fp = job.fp
    BY <2>1
  <2>9. CheckInHand'
    BY <2>2, <2>3, <2>4, <2>7, <2>8 DEF CheckInHand, Hunting
  <2> QED  BY <2>7, <2>9 DEF HuntInv
<1> QED  BY <1>3, <1>4 DEF BatchNext

LEMMA TestStartKeeps ==
    ASSUME HuntInv, TestStart
    PROVE  HuntInv'
<1>1. ~Hunting /\ UNCHANGED <<job, tests>>
  BY DEF TestStart, CaseIdle
<1>2. PICK start : check' = start /\ DOMAIN start = {"at", "batch", "pattern", "version", "rule", "fp", "clients"}
                    /\ start.at = "match" /\ start.batch = FALSE
  <2>1. CASE \E r \in HuntRules : check' = [NoCheck EXCEPT !.at = "match", !.rule = r, !.fp = CurrentFingerprint]
    <3>1. PICK r \in HuntRules : check' = [NoCheck EXCEPT !.at = "match", !.rule = r, !.fp = CurrentFingerprint]
      BY <2>1
    <3>2. /\ DOMAIN check' = {"at", "batch", "pattern", "version", "rule", "fp", "clients"}
          /\ check'.at = "match" /\ check'.batch = FALSE
      BY <3>1 DEF NoCheck
    <3> QED  BY <3>2
  <2>2. CASE \E p \in DOMAIN library :
               check' = [NoCheck EXCEPT !.at = "match", !.pattern = p, !.rule = library[p].rule,
                                        !.version = library[p].version, !.fp = CurrentFingerprint]
    <3>1. PICK p \in DOMAIN library :
               check' = [NoCheck EXCEPT !.at = "match", !.pattern = p, !.rule = library[p].rule,
                                        !.version = library[p].version, !.fp = CurrentFingerprint]
      BY <2>2
    <3>2. /\ DOMAIN check' = {"at", "batch", "pattern", "version", "rule", "fp", "clients"}
          /\ check'.at = "match" /\ check'.batch = FALSE
      BY <3>1 DEF NoCheck
    <3> QED  BY <3>2
  <2> QED  BY <2>1, <2>2 DEF TestStart
<1>3. DOMAIN check' = {"at", "batch", "pattern", "version", "rule", "fp", "clients"}
      /\ check'.at = "match" /\ check'.batch = FALSE
  BY <1>2
<1>4. CheckInHand'
  BY <1>1, <1>3 DEF CheckInHand, Hunting
<1> QED  BY <1>1, <1>4 DEF HuntInv, RosterTyped, TestsRecorded, DoneIsStored, Stored, Confirms, Hunting, Test

LEMMA CheckKeeps ==
    ASSUME HuntInv, CheckMatch \/ CheckVerify
    PROVE  HuntInv'
<1>1. UNCHANGED <<job, tests>> /\ check.at \in {"match", "verify"}
  BY DEF CheckMatch, CheckVerify
<1>2. /\ DOMAIN check' = DOMAIN check /\ check'.at \in {"verify", "store"} /\ check'.batch = check.batch
      /\ check'.pattern = check.pattern /\ check'.version = check.version /\ check'.rule = check.rule
      /\ check'.fp = check.fp
  BY DEF CheckMatch, CheckVerify, HuntInv, CheckInHand
<1>3. CheckInHand'
  BY <1>1, <1>2 DEF HuntInv, CheckInHand, Hunting
<1> QED  BY <1>1, <1>3 DEF HuntInv, RosterTyped, TestsRecorded, DoneIsStored, Stored, Confirms, Hunting, Test

\* A test is stored once and for all.
LEMMA CheckStoreKeeps ==
    ASSUME HuntInv, CheckStore
    PROVE  HuntInv'
<1> PICK n : n = Len(tests) + 1
  OBVIOUS
<1>0. PICK test : test = [batch |-> check.batch, pattern |-> check.pattern, version |-> check.version,
                          rule |-> check.rule, gen |-> check.fp, clients |-> check.clients]
  OBVIOUS
<1>1. tests' = Append(tests, test) /\ UNCHANGED job /\ check.at = "store"
  BY <1>0 DEF CheckStore
<1>2. test.batch = check.batch /\ test.pattern = check.pattern /\ test.version = check.version
      /\ test.rule = check.rule /\ test.gen = check.fp
  BY <1>0
<1>3. /\ Sequence(tests') /\ Len(tests') = n /\ tests'[n] = test
      /\ Len(tests) \in Nat /\ DOMAIN tests = 1 .. Len(tests)
      /\ \A t \in 1 .. Len(tests) : tests'[t] = tests[t]
  BY <1>1, Appended, Sized DEF HuntInv, TestsRecorded
<1>4. \A t \in 1 .. Len(tests') : t \in 1 .. Len(tests) \/ t = n
  BY <1>3
<1>5. ASSUME NEW item, Stored(item) PROVE Stored(item)'
  BY <1>1, <1>3, <1>5 DEF Stored, Confirms, Test
<1>6. check.batch => /\ job.next \in DOMAIN job.roster /\ Confirms(n, job.roster[job.next])'
                     /\ Stored(job.roster[job.next])'
  <2> SUFFICES ASSUME check.batch PROVE job.next \in DOMAIN job.roster /\ Confirms(n, job.roster[job.next])'
    BY <1>3 DEF Stored
  <2> QED  BY <1>1, <1>2, <1>3 DEF HuntInv, CheckInHand, Confirms, Test
<1>7. TestsRecorded'
  <2> SUFFICES ASSUME NEW t \in 1 .. Len(tests'), tests'[t].batch
               PROVE  \E i \in DOMAIN job.roster : Confirms(t, job.roster[i])'
    BY <1>1, <1>3 DEF TestsRecorded, Test
  <2>1. CASE t = n
    <3>1. check.batch
      BY <1>2, <1>3, <2>1
    <3>2. Confirms(t, job.roster[job.next])' /\ job.next \in DOMAIN job.roster /\ UNCHANGED job
      BY <1>1, <1>6, <2>1, <3>1
    <3> QED  BY <3>2
  <2>2. CASE t \in 1 .. Len(tests)
    <3>1. PICK i \in DOMAIN job.roster : Confirms(t, job.roster[i])
      BY <1>3, <2>2 DEF HuntInv, TestsRecorded, Test
    <3>2. Confirms(t, job.roster[i])'
      BY <1>1, <1>3, <2>2, <3>1 DEF Confirms, Test
    <3> QED  BY <3>2
  <2> QED  BY <1>4, <2>1, <2>2
<1>8. RosterTyped' /\ DoneIsStored'
  BY <1>1, <1>5 DEF HuntInv, RosterTyped, DoneIsStored, Hunting
<1>9. CheckInHand'
  <2>1. CASE check.batch
    <3>1. check' = [check EXCEPT !.at = "save"]
      BY <2>1 DEF CheckStore
    <3>2. /\ DOMAIN check' = DOMAIN check /\ check'.at = "save" /\ check'.batch = check.batch
          /\ check'.pattern = check.pattern /\ check'.version = check.version /\ check'.rule = check.rule
          /\ check'.fp = check.fp
      BY <3>1 DEF HuntInv, CheckInHand
    <3> QED  BY <1>1, <1>6, <2>1, <3>2 DEF HuntInv, CheckInHand, Hunting
  <2>2. CASE ~check.batch
    <3>1. check' = NoCheck
      BY <2>2 DEF CheckStore
    <3>2. /\ DOMAIN check' = {"at", "batch", "pattern", "version", "rule", "fp", "clients"}
          /\ check'.at = "none" /\ check'.batch = FALSE
      BY <3>1 DEF NoCheck
    <3> QED  BY <3>2 DEF CheckInHand
  <2> QED  BY <2>1, <2>2
<1> QED  BY <1>7, <1>8, <1>9 DEF HuntInv

\* The loop goes on to its next entry.
LEMMA Advancing ==
    ASSUME HuntInv, job.next \in DOMAIN job.roster, NEW status \in Statuses,
           job' = [job EXCEPT !.roster = MarkedAs(status), !.next = @ + 1],
           UNCHANGED tests, check' = NoCheck,
           \A i \in DOMAIN job.roster :
              MarkedAs(status)[i].status = "done" => job.roster[i].status = "done" \/ Stored(job.roster[i])
    PROVE  HuntInv'
<1>1. /\ DOMAIN job' = DOMAIN job /\ job'.next = job.next + 1 /\ job'.fp = job.fp
      /\ job'.roster = MarkedAs(status) /\ job.next \in Nat
  BY DEF HuntInv, RosterTyped
<1>2. SameEntries
  BY <1>1, Marking DEF SameEntries
<1>3. job'.next \in Nat /\ job'.next > 0
  BY <1>1
<1> QED  BY <1>1, <1>2, <1>3, CheckDropped

\* What goes wrong ends a check; in a batch its pattern has failed, or the job ends.
LEMMA CheckFailsKeeps ==
    ASSUME HuntInv, CheckFails
    PROVE  HuntInv'
<1>1. UNCHANGED tests /\ check' = NoCheck
  BY DEF CheckFails
<1>2. job.roster = [i \in DOMAIN job.roster |-> job.roster[i]]
      /\ job.next \in Nat /\ (Hunting => job.next > 0)
  BY Sized DEF HuntInv, RosterTyped, Sequence
<1>3. CASE ~check.batch
  <2>1. UNCHANGED job
    BY <1>3 DEF CheckFails
  <2>2. SameEntries
    BY <1>2, <2>1 DEF SameEntries, HuntInv, RosterTyped
  <2> QED  BY <1>1, <1>2, <2>1, <2>2, CheckDropped DEF Hunting
<1>4. CASE check.batch
  <2>1. Hunting /\ job.next \in DOMAIN job.roster
    BY <1>4 DEF HuntInv, CheckInHand
  <2>2. CASE job.cancelled
    <3>1. PICK roster : roster = MarkedAs("not_run")
      OBVIOUS
    <3>2. /\ DOMAIN roster = DOMAIN job.roster /\ roster[job.next].status = "not_run"
          /\ \A i \in DOMAIN job.roster :
                /\ DOMAIN roster[i] = {"id", "version", "rule", "status"} /\ roster[i].status \in Statuses
                /\ roster[i].id = job.roster[i].id /\ roster[i].version = job.roster[i].version
                /\ roster[i].rule = job.roster[i].rule
                /\ i # job.next => roster[i] = job.roster[i]
      <4>1. "not_run" \in Statuses
        BY DEF Statuses
      <4> QED  BY <2>1, <3>1, <4>1, Marking
    <3>3. job' = EndJob(roster)
      BY <1>4, <2>2, <3>1 DEF CheckFails
    <3>4. /\ DOMAIN job' = DOMAIN job /\ job'.next = job.next /\ job'.fp = job.fp
          /\ job'.roster = Settled(roster) /\ ~Hunting'
      BY <3>3, Ending
    <3>5. /\ Settled(roster) = [i \in DOMAIN job.roster |-> Settled(roster)[i]]
          /\ \A i \in DOMAIN job.roster :
                /\ DOMAIN Settled(roster)[i] = {"id", "version", "rule", "status"}
                /\ Settled(roster)[i].status \in Statuses
                /\ Settled(roster)[i].id = roster[i].id /\ Settled(roster)[i].version = roster[i].version
                /\ Settled(roster)[i].rule = roster[i].rule
                /\ Settled(roster)[i].status = "done" => roster[i].status = "done"
      BY <3>2, Settling
    <3>6. SameEntries
      <4>1. job'.roster = [i \in DOMAIN job.roster |-> job'.roster[i]]
        BY <3>4, <3>5
      <4>2. \A i \in DOMAIN job.roster :
               /\ DOMAIN job'.roster[i] = {"id", "version", "rule", "status"} /\ job'.roster[i].status \in Statuses
               /\ job'.roster[i].id = job.roster[i].id /\ job'.roster[i].version = job.roster[i].version
               /\ job'.roster[i].rule = job.roster[i].rule
        <5> SUFFICES ASSUME NEW i \in DOMAIN job.roster
                     PROVE  /\ DOMAIN job'.roster[i] = {"id", "version", "rule", "status"}
                            /\ job'.roster[i].status \in Statuses /\ job'.roster[i].id = job.roster[i].id
                            /\ job'.roster[i].version = job.roster[i].version
                            /\ job'.roster[i].rule = job.roster[i].rule
          OBVIOUS
        <5>1. job'.roster[i] = Settled(roster)[i]
          BY <3>4
        <5> QED  BY <3>2, <3>5, <5>1, ZenonT(30)
      <4> QED  BY <3>4, <4>1, <4>2 DEF SameEntries
    <3>7. \A i \in DOMAIN job.roster : job'.roster[i].status = "done" => job.roster[i].status = "done"
      BY <3>2, <3>4, <3>5
    <3> QED  BY <1>1, <1>2, <3>4, <3>6, <3>7, CheckDropped
  <2>3. CASE ~job.cancelled
    <3>1. job' = [job EXCEPT !.roster = MarkedAs("failed"), !.next = @ + 1]
      BY <1>4, <2>3 DEF CheckFails, FailedAs
    <3>2. \A i \in DOMAIN job.roster : MarkedAs("failed")[i].status = "done" => job.roster[i].status = "done"
      <4>1. "failed" \in Statuses
        BY DEF Statuses
      <4> QED  BY <2>1, <4>1, Marking
    <3> QED  BY <1>1, <2>1, <3>1, <3>2, Advancing DEF Statuses
  <2> QED  BY <2>2, <2>3
<1> QED  BY <1>3, <1>4

LEMMA BatchSaveKeeps ==
    ASSUME HuntInv, BatchSave
    PROVE  HuntInv'
<1>1. /\ Hunting /\ job.next \in DOMAIN job.roster /\ Stored(job.roster[job.next])
      /\ UNCHANGED tests /\ check' = NoCheck
      /\ job' = [job EXCEPT !.roster = MarkedAs("done"), !.next = @ + 1]
  BY DEF BatchSave, HuntInv, CheckInHand
<1>2. "done" \in Statuses
  BY DEF Statuses
<1>3. \A i \in DOMAIN job.roster :
         MarkedAs("done")[i].status = "done" => job.roster[i].status = "done" \/ Stored(job.roster[i])
  BY <1>1, <1>2, Marking
<1> QED  BY <1>1, <1>2, <1>3, Advancing

LEMMA BatchBreaksKeeps ==
    ASSUME HuntInv, BatchBreaks
    PROVE  HuntInv'
<1>1. UNCHANGED tests /\ check' = NoCheck /\ job' = [job EXCEPT !.state = "failed"]
  BY DEF BatchBreaks
<1>2. /\ DOMAIN job' = DOMAIN job /\ job'.next = job.next /\ job'.fp = job.fp
      /\ job'.roster = job.roster /\ job'.state = "failed"
  BY <1>1 DEF HuntInv, RosterTyped
<1>3. job.roster = [i \in DOMAIN job.roster |-> job.roster[i]] /\ job.next \in Nat
  BY Sized DEF HuntInv, RosterTyped, Sequence
<1>4. SameEntries
  BY <1>2, <1>3 DEF SameEntries, HuntInv, RosterTyped
<1>5. ~Hunting'
  BY <1>2 DEF Hunting
<1> QED  BY <1>1, <1>2, <1>3, <1>4, <1>5, CheckDropped

----------------------------------------------------------------------------
(* The library                                                             *)

LEMMA NumberedByCount ==
    ASSUME PatternsNumbered
    PROVE  \E n \in Nat : DOMAIN library = 1 .. n /\ NextPattern = n + 1
<1>1. PICK n \in Nat : DOMAIN library = 1 .. n
  BY DEF PatternsNumbered
<1>2. Cardinality(1 .. n) = n
  BY FS_Interval
<1> QED  BY <1>1, <1>2 DEF NextPattern

LEMMA AddedIsNext ==
    ASSUME PatternsNumbered, NEW rule, NEW parent
    PROVE  \E n \in Nat : DOMAIN library = 1 .. n /\ DOMAIN Added(rule, parent) = 1 .. (n + 1)
<1>1. PICK n \in Nat : DOMAIN library = 1 .. n /\ NextPattern = n + 1
  BY NumberedByCount
<1>2. DOMAIN Added(rule, parent) = DOMAIN library \cup {NextPattern}
  BY DEF Added
<1>3. (1 .. n) \cup {n + 1} = 1 .. (n + 1)
  OBVIOUS
<1> QED  BY <1>1, <1>2, <1>3

LEMMA UpdatedStays ==
    ASSUME NEW p, NEW rule, NEW how
    PROVE  DOMAIN Updated(p, rule, how) = DOMAIN library
BY DEF Updated

LEMMA ClonedIsNext ==
    ASSUME PatternsNumbered, NEW p, NEW rule, NEW disable
    PROVE  \E n \in Nat : DOMAIN library = 1 .. n /\ DOMAIN Cloned(p, rule, disable) = 1 .. (n + 1)
<1>1. PICK n \in Nat : DOMAIN library = 1 .. n /\ DOMAIN Added(rule, p) = 1 .. (n + 1)
  BY AddedIsNext
<1>2. DOMAIN SwitchedOff(Added(rule, p), p) = DOMAIN Added(rule, p)
  BY DEF SwitchedOff
<1> QED  BY <1>1, <1>2 DEF Cloned

\* The domain of the library stays, or grows by the next number.
LEMMA EditsNumber ==
    ASSUME PatternsNumbered, Edits
    PROVE  PatternsNumbered'
<1>1. CASE \E r \in HuntRules : CanAdd(r) /\ library' = Added(r, 0)
  BY <1>1, AddedIsNext DEF PatternsNumbered
<1>2. CASE \E p \in DOMAIN library, r \in HuntRules, v \in 0 .. MaxVersion :
             CanUpdate(p, r, v) /\ \E how \in {"keep", "yes", "no"} : library' = Updated(p, r, how)
  BY <1>2, UpdatedStays DEF PatternsNumbered
<1>3. CASE \E p \in DOMAIN library : CanClone(p, library[p].rule, FALSE)
                                   /\ library' = Cloned(p, library[p].rule, FALSE)
  <2>1. PICK p \in DOMAIN library, disable \in BOOLEAN : library' = Cloned(p, library[p].rule, disable)
    BY <1>3, Zenon
  <2> QED  BY <2>1, ClonedIsNext DEF PatternsNumbered
<1>4. CASE \E p \in DOMAIN library : \E v \in 1 .. library[p].version :
             LET wanted == library[p].history[v]
             IN  /\ CanUpdate(p, wanted.rule, 0)
                 /\ library' = Updated(p, wanted.rule, IF wanted.archived THEN "yes" ELSE "no")
  BY <1>4, UpdatedStays DEF PatternsNumbered
<1>5. CASE \E p \in DOMAIN library :
             \/ Own(p) /\ ~library[p].archived /\ library[p].version < MaxVersion
                /\ library' = Updated(p, library[p].rule, "yes")
             \/ library' = [library EXCEPT ![p].enabled = ~@]
  BY <1>5, UpdatedStays DEF PatternsNumbered
<1> QED  BY <1>1, <1>2, <1>3, <1>4, <1>5 DEF Edits

LEMMA ApplySaveNumbers ==
    ASSUME PatternsNumbered, ApplySave
    PROVE  PatternsNumbered'
<1>1. CASE UNCHANGED library
  BY <1>1 DEF PatternsNumbered
<1>2. CASE \E p, rule, how : library' = Updated(p, rule, how)
  BY <1>2, UpdatedStays DEF PatternsNumbered
<1>3. CASE \E p, rule, disable : library' = Cloned(p, rule, disable)
  BY <1>3, ClonedIsNext DEF PatternsNumbered
<1>4. CASE \E rule, parent : library' = Added(rule, parent)
  BY <1>4, AddedIsNext DEF PatternsNumbered
<1> QED  BY <1>1, <1>2, <1>3, <1>4 DEF ApplySave

----------------------------------------------------------------------------
(* Every step                                                              *)

LEMMA HuntStep ==
    ASSUME HuntsInv, HNext
    PROVE  HuntsInv'
<1> USE DEF HuntsInv
<1>1. CASE IndexNext
  BY <1>1, HuntsStand DEF IndexNext, hvars, PatternsNumbered
<1>2. CASE Edits
  BY <1>2, HuntsStand, EditsNumber DEF Edits
<1>3. CASE BatchStart
  BY <1>3, BatchStartKeeps DEF BatchStart, PatternsNumbered
<1>4. CASE BatchCancel
  BY <1>4, BatchCancelKeeps DEF BatchCancel, PatternsNumbered
<1>5. CASE BatchNext
  BY <1>5, BatchNextKeeps DEF BatchNext, PatternsNumbered
<1>6. CASE TestStart
  BY <1>6, TestStartKeeps DEF TestStart, PatternsNumbered
<1>7. CASE CheckMatch \/ CheckVerify
  BY <1>7, CheckKeeps DEF CheckMatch, CheckVerify, PatternsNumbered
<1>8. CASE CheckStore
  BY <1>8, CheckStoreKeeps DEF CheckStore, PatternsNumbered
<1>9. CASE CheckFails
  BY <1>9, CheckFailsKeeps DEF CheckFails, PatternsNumbered
<1>10. CASE BatchSave
  BY <1>10, BatchSaveKeeps DEF BatchSave, PatternsNumbered
<1>11. CASE BatchBreaks
  BY <1>11, BatchBreaksKeeps DEF BatchBreaks, PatternsNumbered
<1>12. CASE CollectClients \/ ApplyStart \/ ApplyCommit \/ ApplyFails
  BY <1>12, HuntsStand DEF CollectClients, ApplyStart, ApplyCommit, ApplyFails, PatternsNumbered
<1>13. CASE ApplySave
  BY <1>13, HuntsStand, ApplySaveNumbers DEF ApplySave
<1> QED  BY <1>1, <1>2, <1>3, <1>4, <1>5, <1>6, <1>7, <1>8, <1>9, <1>10, <1>11, <1>12, <1>13 DEF HNext

(* The inductive invariant of a batch and of the library it takes its roster  *)
(* from: whatever is stored, announced or being checked stands for an entry   *)
(* of the roster, and no pattern is in it twice.                              *)
THEOREM HuntsInvariant == HSpec => []HuntsInv
<1>1. HInit => HuntsInv
  <2>1. ASSUME HInit PROVE DOMAIN library = 1 .. 1
    BY <2>1 DEF HInit
  <2> QED  BY <2>1, HuntsStart DEF HuntsInv, PatternsNumbered
<1>2. HuntsInv /\ [HNext]_<<ixvars, hvars>> => HuntsInv'
  <2>1. ASSUME HuntsInv, UNCHANGED <<ixvars, hvars>> PROVE HuntsInv'
    BY <2>1, HuntsStand DEF HuntsInv, hvars, PatternsNumbered
  <2> QED  BY <2>1, HuntStep
<1> QED  BY <1>1, <1>2, PTL DEF HSpec

LEMMA RecordIsTrue == HuntsInv => BatchTellsTheTruth
<1> SUFFICES ASSUME HuntsInv, NEW i \in DOMAIN job.roster
             PROVE  LET item == job.roster[i]
                    IN  /\ StatusShown(item) = "done" <=> Stored(item)
                        /\ ~Hunting => StatusShown(item) \in {"done", "failed", "not_run"}
                        /\ AllChecked => TestsOf(item) # {}
  BY DEF BatchTellsTheTruth, Stored, Confirms
<1> DEFINE item == job.roster[i]
<1>1. item.status \in Statuses
  BY DEF HuntsInv, HuntInv, RosterTyped
<1>2. Stored(item) => TestsOf(item) # {}
  BY DEF Stored, Confirms, TestsOf
<1>3. TestsOf(item) # {} => Stored(item)
  <2> SUFFICES ASSUME NEW t \in 1 .. Len(tests), Test(t).batch, Test(t).pattern = item.id
               PROVE  Confirms(t, item)
    BY DEF TestsOf, Stored
  <2>1. PICK k \in DOMAIN job.roster : Confirms(t, job.roster[k])
    BY DEF HuntsInv, HuntInv, TestsRecorded
  <2>2. k = i
    BY <2>1 DEF Confirms, HuntsInv, HuntInv, RosterTyped
  <2> QED  BY <2>1, <2>2
<1>4. item.status = "done" => Stored(item)
  BY DEF HuntsInv, HuntInv, DoneIsStored
<1>5. StatusShown(item) = "done" <=> Stored(item)
  BY <1>2, <1>3, <1>4 DEF StatusShown
<1>6. ~Hunting => StatusShown(item) \in {"done", "failed", "not_run"}
  BY <1>1 DEF StatusShown, Statuses
<1>7. AllChecked => TestsOf(item) # {}
  BY <1>2, <1>5 DEF AllChecked
<1> QED  BY <1>5, <1>6, <1>7

(* The record of a batch tells the truth: an entry is shown as done exactly   *)
(* when a test of its listed version and rule is stored, made on the index    *)
(* the batch began with.                                                      *)
THEOREM BatchTells == HSpec => []BatchTellsTheTruth
<1>1. HuntsInv => BatchTellsTheTruth
  BY RecordIsTrue
<1> QED  BY <1>1, HuntsInvariant, PTL

(* Hunting implements the index: whatever a hunt, a request or the library    *)
(* does is a step of the log index or leaves it alone, so what holds of every *)
(* behaviour of the index holds of it with hunts beside it.                   *)
THEOREM HuntsImplementIndex == HSpec => IxSpec
<1>1. HInit => IxInit
  BY DEF HInit
<1>2. [HNext]_<<ixvars, hvars>> => [IxNext]_ixvars
  <2> SUFFICES ASSUME [HNext]_<<ixvars, hvars>> PROVE IxNext \/ UNCHANGED ixvars
    OBVIOUS
  <2>1. CASE IndexNext
    BY <2>1 DEF IndexNext, IxNext
  <2>2. CASE UNCHANGED <<ixvars, hvars>>
    BY <2>2
  <2>3. CASE Edits \/ BatchStart \/ BatchCancel \/ BatchNext \/ TestStart
    BY <2>3 DEF Edits, BatchStart, BatchCancel, BatchNext, TestStart
  <2>4. CASE CheckMatch \/ CheckVerify \/ CheckStore \/ CheckFails \/ BatchSave \/ BatchBreaks
    BY <2>4 DEF CheckMatch, CheckVerify, CheckStore, CheckFails, BatchSave, BatchBreaks
  <2>5. CASE CollectClients \/ ApplyStart \/ ApplySave \/ ApplyCommit \/ ApplyFails
    BY <2>5 DEF CollectClients, ApplyStart, ApplySave, ApplyCommit, ApplyFails
  <2> QED  BY <2>1, <2>2, <2>3, <2>4, <2>5 DEF HNext
<1> QED  BY <1>1, <1>2, PTL DEF HSpec, IxSpec

(***************************************************************************)
(* Inventories: the installations and database dumps of a case.            *)
(*                                                                         *)
(* The argument: a dump has one row and a row id is of one dump (DumpIds). *)
(* The id of a new row is greater than those that are there, so although   *)
(* SQLite gives ids of deleted rows out again, the accounts stored under   *)
(* it are those of its dump alone.                                         *)
(***************************************************************************)

\* Rows have positive ids below a bound, as SQLite hands them out.
Numbered(rows) == \E n \in Nat : \A d \in rows : d.id \in 1 .. n

\* A dump has one row, and a row id is of one dump.
DumpIds ==
    /\ Numbered(dumps)
    /\ \A d, e \in dumps : d.id = e.id \/ d.path = e.path => d = e

InInv == DumpIds /\ DumpsAreReadOnce

\* A new row has an id that no row has.
LEMMA NewId ==
    ASSUME NEW rows, Numbered(rows)
    PROVE  /\ NextId(rows) \in Nat \ {0}
           /\ \A d \in rows : d.id < NextId(rows)
<1> DEFINE ids == {0} \cup {d.id : d \in rows}
<1>1. PICK n \in Nat : \A d \in rows : d.id \in 1 .. n
  BY DEF Numbered
<1>2. ids \in SUBSET (0 .. n) /\ ids # {}
  BY <1>1
<1>3. Max(ids) \in ids /\ \A i \in ids : Max(ids) >= i
  <2> HIDE DEF ids
  <2> QED  BY <1>2, MaxOfSet
<1>4. Max(ids) \in Nat /\ \A d \in rows : d.id \in Nat /\ Max(ids) >= d.id
  BY <1>1, <1>2, <1>3
<1>5. NextId(rows) = Max(ids) + 1
  BY DEF NextId
<1> QED  BY <1>4, <1>5

LEMMA Numbering ==
    ASSUME NEW rows, Numbered(rows), NEW path
    PROVE  Numbered(rows \cup {[id |-> NextId(rows), path |-> path]})
<1>1. NextId(rows) \in Nat \ {0} /\ \A d \in rows : d.id \in Nat \ {0} /\ d.id < NextId(rows)
  BY NewId DEF Numbered
<1>2. \A d \in rows \cup {[id |-> NextId(rows), path |-> path]} : d.id \in 1 .. NextId(rows)
  BY <1>1
<1> QED  BY <1>1, <1>2 DEF Numbered

----------------------------------------------------------------------------
\* The row of a dump that is read again goes with the accounts that are of it, and
\* what is stored for it has an id of its own.
LEMMA StoringKeeps ==
    ASSUME InInv, StoreDump
    PROVE  InInv'
<1> DEFINE path == sql.at
           kept == {d \in dumps : d.path # path}
           id == NextId(kept)
           new == [id |-> id, path |-> path]
           old == {a \in accounts : a.dump \notin OldIds(path)}
           account == [dump |-> id, path |-> path, admin |-> "grant" \in sql.read]
<1>1. dumps' = kept \cup {new} /\ accounts' \subseteq old \cup {account}
  BY DEF StoreDump
<1>2. Numbered(kept)
  BY DEF InInv, DumpIds, Numbered
<1>3. \A d \in kept : d.path # path /\ d.id # id
  BY <1>2, NewId DEF Numbered
<1>4. new.id = id /\ new.path = path /\ account.dump = id /\ account.path = path
  OBVIOUS
<1>5. \A a \in old : \E d \in kept : d.id = a.dump /\ d.path = a.path
  BY DEF OldIds, InInv, DumpsAreReadOnce
<1>6. Numbered(dumps')
  BY <1>1, <1>2, Numbering
<1> HIDE DEF kept, id, new, old, account
<1>7. \A d, e \in dumps' : d.id = e.id \/ d.path = e.path => d = e
  BY <1>1, <1>3, <1>4 DEF InInv, DumpIds, kept
<1>8. \A a \in accounts' : \E d \in dumps' : d.id = a.dump /\ d.path = a.path
  BY <1>1, <1>4, <1>5
<1>9. \A a, b \in accounts' : a.path = b.path => a = b
  <2>1. \A a \in old : a.path # path
    BY <1>3, <1>5
  <2> QED  BY <1>1, <1>4, <2>1 DEF InInv, DumpsAreReadOnce, old
<1> QED  BY <1>6, <1>7, <1>8, <1>9 DEF InInv, DumpIds, DumpsAreReadOnce

\* No other step writes the dumps or their accounts.
LEMMA OthersLeaveDumps ==
    ASSUME [InNext]_ivars, ~StoreDump
    PROVE  UNCHANGED <<dumps, accounts>>
BY DEF InNext, ivars, cmsVars, sqlVars, Replace, Reexport, StartInventory, ListInstall,
       CancelInventory, CommitInventory, View, Collect, Look, SetVersion, StartScan, ReadDump,
       CancelScan, FinishScan

LEMMA InventoriesInvariant == InSpec => []InInv
<1>1. InInit => InInv
  BY DEF InInit, InInv, DumpIds, Numbered, DumpsAreReadOnce
<1>2. InInv /\ [InNext]_ivars => InInv'
  BY StoringKeeps, OthersLeaveDumps DEF InInv, DumpIds, Numbered, DumpsAreReadOnce
<1> QED  BY <1>1, <1>2, PTL DEF InSpec

\* Of DumpsAreReadOnce: however often the dumps are read, every account is of the dump
\* that owns it, and no dump has an account twice (sqldump.py), for any number of dumps
\* and of scans.
THEOREM DumpsReadOnce == InSpec => []DumpsAreReadOnce
BY InventoriesInvariant, PTL DEF InInv

(***************************************************************************)
(* Log evidence: the log folders, their generation and what is published   *)
(* of them.                                                                *)
(*                                                                         *)
(* The argument: what a build has in hand is of the file as it was before, *)
(* unless the file has changed since (InHand), and the entries of a        *)
(* fingerprint are the lines of its text (EntriesAreRead); so a source     *)
(* that is ready was read under its format, and its findings are those of  *)
(* what was read (ReadyIsRead). A pass over all sources that met no        *)
(* failure leaves each of them ready that is not still to do or in hand    *)
(* (FullPass). The receipt of the folder is weighed anew in the commit     *)
(* that ends the job, over the sources as they are (ReconcileIsHonest),    *)
(* and a source turns unread only while a job is at work, or with the      *)
(* receipt (WorkIsShown).                                                  *)
(***************************************************************************)

Working == {"hash", "read", "recheck", "publish", "switch"}

\* The state of the sources, of the files and of the build, without what is only copied.
SourcesTyped ==
    /\ DOMAIN src = Sources /\ DOMAIN served = Sources /\ DOMAIN indexed = Sources
    /\ DOMAIN done = Sources /\ DOMAIN findings = Sources
    /\ \A s \in Sources :
          /\ DOMAIN src[s] = {"state", "format", "stored", "marker", "fp", "warning",
                                "accepted"}
          /\ src[s].format # Unset
          /\ src[s].marker \in Nat
          /\ done[s] \in Nat /\ DOMAIN findings[s] = Lines
          /\ \A l \in Lines : findings[s][l] \in Nat
    /\ logs \in [Sources -> [text : SUBSET Lines, mark : Nat]]
    /\ folderHeld \in BOOLEAN /\ scanned \in BOOLEAN /\ legacy \in BOOLEAN /\ seq \in Nat

BuildTyped ==
    /\ DOMAIN build = {"pc", "scoped", "plan", "todo", "s", "before", "fp", "lines", "run",
                       "cancel", "failed"}
    /\ build.pc \in {"idle", "inventory", "next", "end"} \cup Working
    /\ build.pc \in Working => build.s \in Sources
    /\ build.todo \subseteq Sources
    /\ build.before \in Nat /\ build.run \in Nat
    /\ build.scoped \in BOOLEAN /\ build.cancel \in BOOLEAN /\ build.failed \in BOOLEAN

\* While a build is at work its row says so.
WorkIsShown == build.pc # "idle" => jobRow = "running"

\* A pass over all sources that met no failure leaves each of them ready, unless it is
\* still to do or in hand.
FullPass ==
    build.pc \in Working \cup {"next"} /\ ~build.scoped /\ ~build.failed /\ folderHeld =>
        \A s \in Sources \ build.todo :
            src[s].state = "ready" \/ (build.pc \in Working \ {"switch"} /\ s = build.s)
StartsFull == build.pc = "inventory" /\ ~build.scoped => build.todo = Sources

\* Markers and runs do not run ahead.
InOrder ==
    /\ \A s \in Sources :
          /\ src[s].marker <= logs[s].mark
          /\ done[s] <= seq
          /\ \A l \in Lines : findings[s][l] <= done[s]
    /\ build.pc \in Working => build.before <= logs[build.s].mark /\ build.run <= seq
    /\ build.pc \in Working \ {"switch"} =>
          \A l \in Lines : findings[build.s][l] < build.run

\* The entries of a fingerprint are the lines of its text, and those served are there.
ReadEntry(fp) == [fp |-> fp, lines |-> fp.text]
EntriesAreRead ==
    \A s \in Sources :
        /\ \A e \in indexed[s] : e = ReadEntry(e.fp)
        /\ served[s] # NoFp => ReadEntry(served[s]) \in indexed[s]

\* What the build has in hand is of the file as it was before, unless that changed.
InHand ==
    /\ build.pc \in {"read", "recheck"} /\ build.before = logs[build.s].mark =>
          build.fp = Fingerprint(build.s)
    /\ build.pc = "recheck" /\ build.before = logs[build.s].mark =>
          build.lines = logs[build.s].text
    /\ build.pc \in {"publish", "switch"} =>
          /\ build.fp = [text |-> build.lines, format |-> src[build.s].format]
          /\ ReadEntry(build.fp) \in indexed[build.s]
          /\ build.before = logs[build.s].mark => build.lines = logs[build.s].text

\* A source that is ready was read under its format, and its findings are those of what
\* was read.
ReadyIsRead ==
    \A s \in OtherSources : src[s].state = "ready" =>
        /\ src[s].fp = [text |-> src[s].fp.text, format |-> src[s].format]
        /\ Unchanged(s) => src[s].fp.text = logs[s].text
        /\ Live(s) \subseteq Detected(src[s].fp.text, src[s].format)
        /\ s \notin removed => Live(s) = Detected(src[s].fp.text, src[s].format)

EInv ==
    /\ SourcesTyped /\ BuildTyped /\ WorkIsShown /\ FullPass /\ StartsFull /\ InOrder
    /\ EntriesAreRead /\ InHand /\ ReadyIsRead /\ NothingUnreadIsCertified

----------------------------------------------------------------------------
LEMMA EInitInv == EInit => EInv
<1> SUFFICES ASSUME EInit PROVE EInv
  OBVIOUS
<1>1. PICK t \in Texts : logs = [s \in Sources |-> [text |-> t, mark |-> 0]]
  BY DEF EInit
<1>2. /\ folderHeld = TRUE /\ scanned = FALSE /\ legacy = TRUE /\ seq = 0
      /\ done = [s \in Sources |-> 0]
      /\ findings = [s \in Sources |-> [l \in Lines |-> 0]]
      /\ indexed = [s \in Sources |-> {}] /\ served = [s \in Sources |-> NoFp]
      /\ build = NoJob /\ retiredOver = {}
  BY DEF EInit
<1>9. PICK configured \in [Sources -> Formats], detected \in [Sources -> Formats] :
          src = [s \in Sources |-> New(configured[s], detected[s])]
  BY DEF EInit
<1>3. SourcesTyped
  BY <1>1, <1>2, <1>9, LogEvidenceConstants DEF SourcesTyped, New, Unset
<1>4. BuildTyped
  BY <1>2 DEF BuildTyped, NoJob, Working
<1>5. WorkIsShown /\ FullPass /\ StartsFull /\ InHand
  BY <1>2 DEF WorkIsShown, FullPass, StartsFull, InHand, NoJob, Working
<1>6. InOrder
  BY <1>1, <1>2, <1>9 DEF InOrder, New, NoJob, Working
<1>7. EntriesAreRead
  BY <1>2 DEF EntriesAreRead
<1>8. ReadyIsRead /\ NothingUnreadIsCertified
  BY <1>2, <1>9 DEF ReadyIsRead, NothingUnreadIsCertified, OtherSources, New
<1> QED  BY <1>3, <1>4, <1>5, <1>6, <1>7, <1>8 DEF EInv

----------------------------------------------------------------------------
(* Receipts                                                                *)

\* A receipt is complete only when the last job was and every source was processed.
LEMMA ReconcileIsHonest ==
    ASSUME NEW state, Reconcile(state)
    PROVE  /\ scanned' \in BOOLEAN
           /\ scanned' => /\ state = "done"
                          /\ \A s \in StoredAsOther : src[s].state \in {"ready", "failed"}
BY DEF Reconcile, Certifies, Processed

LEMMA RewriteKeeps ==
    ASSUME EInv, NEW s \in Sources, NEW t \in Texts, EditLog(s, t)
    PROVE  EInv'
<1>1. logs' = [logs EXCEPT ![s] = [text |-> t, mark |-> @.mark + 1]]
      /\ UNCHANGED <<folderHeld, scanned, src, legacy, seq, done, findings, indexed, served,
                     build, jobRow, retiredOver, removed>>
  BY DEF EditLog, case, runVars, indexVars, work, past
<1>2. SourcesTyped /\ BuildTyped /\ InOrder
  BY DEF EInv
<1>3. \A x \in Sources : /\ logs[x].mark \in Nat /\ logs'[x].mark \in Nat
                         /\ logs'[x] = logs[x] \/ logs'[x].mark = logs[x].mark + 1
  BY <1>1, <1>2 DEF SourcesTyped
<1>4. t \in SUBSET Lines
  BY LogEvidenceConstants
<1>5. logs' \in [Sources -> [text : SUBSET Lines, mark : Nat]]
  BY <1>1, <1>2, <1>4 DEF SourcesTyped
<1>6. SourcesTyped'
  BY <1>1, <1>2, <1>5 DEF SourcesTyped
<1>7. BuildTyped' /\ WorkIsShown' /\ FullPass' /\ StartsFull' /\ EntriesAreRead'
  BY <1>1 DEF EInv, BuildTyped, WorkIsShown, FullPass, StartsFull, EntriesAreRead
<1>8. InOrder'
  <2>1. \A x \in Sources : src[x].marker <= logs'[x].mark
    BY <1>2, <1>3 DEF InOrder, SourcesTyped
  <2>2. build.pc \in Working => build.before <= logs'[build.s].mark
    BY <1>2, <1>3 DEF InOrder, BuildTyped
  <2> QED  BY <1>1, <1>2, <2>1, <2>2 DEF InOrder
<1>9. InHand'
  <2>1. build.pc \in Working /\ build.before = logs'[build.s].mark =>
            logs'[build.s] = logs[build.s]
    BY <1>2, <1>3 DEF InOrder, BuildTyped
  <2> QED  BY <1>1, <2>1 DEF EInv, InHand, Working, Fingerprint
<1>10. ReadyIsRead'
  <2>1. \A x \in Sources : src[x].marker = logs'[x].mark => logs'[x] = logs[x]
    BY <1>2, <1>3 DEF InOrder, SourcesTyped
  <2> QED  BY <1>1, <2>1 DEF EInv, ReadyIsRead, OtherSources, Unchanged, Live
<1>11. NothingUnreadIsCertified'
  BY <1>1 DEF EInv, NothingUnreadIsCertified, StoredAsOther
<1> QED  BY <1>6, <1>7, <1>8, <1>9, <1>10, <1>11 DEF EInv
----------------------------------------------------------------------------
(* Requests                                                                *)

\* What is left as it was by a step that only writes receipts and jobs.
Steady == <<logs, src, seq, done, findings, indexed, served, removed>>

LEMMA SteadyStands ==
    ASSUME EInv, UNCHANGED Steady
    PROVE  ReadyIsRead' /\ EntriesAreRead' /\ StoredAsOther' = StoredAsOther
BY DEF EInv, Steady, ReadyIsRead, EntriesAreRead, OtherSources, StoredAsOther, Unchanged, Live

LEMMA FolderKeeps ==
    ASSUME EInv, RegisterFolder
    PROVE  EInv'
<1>1. /\ folderHeld' = TRUE /\ scanned' = FALSE /\ build.pc = "idle" /\ UNCHANGED Steady
      /\ UNCHANGED <<build, jobRow, legacy, retiredOver>>
  BY DEF RegisterFolder, NoLogJob, fileVars, runVars, indexVars, work, past, Steady
<1>2. SourcesTyped' /\ InOrder'
  BY <1>1 DEF EInv, SourcesTyped, InOrder, Steady
<1>3. BuildTyped' /\ WorkIsShown' /\ StartsFull' /\ InHand' /\ FullPass'
  BY <1>1 DEF EInv, BuildTyped, WorkIsShown, StartsFull, InHand, FullPass, Working, Steady
<1> QED  BY <1>1, <1>2, <1>3, SteadyStands DEF EInv, NothingUnreadIsCertified

LEMMA RemovedKeeps ==
    ASSUME EInv, RemoveFolder
    PROVE  EInv'
<1>1. /\ folderHeld' = FALSE /\ scanned' = FALSE /\ seq' = seq + 1
      /\ done' = [s \in Sources |-> seq'] /\ removed' = Sources
      /\ UNCHANGED <<logs, src, findings, indexed, served, build, jobRow, legacy, retiredOver>>
  BY DEF RemoveFolder, fileVars, indexVars, work
<1>2. SourcesTyped /\ InOrder /\ BuildTyped
  BY DEF EInv
<1>3. seq \in Nat /\ seq' \in Nat /\ seq' = seq + 1
  BY <1>1, <1>2 DEF SourcesTyped
<1>4. \A s \in Sources : done'[s] = seq' /\ \A l \in Lines : findings[s][l] < seq'
  BY <1>1, <1>2, <1>3 DEF SourcesTyped, InOrder
<1>5. SourcesTyped'
  BY <1>1, <1>2, <1>3 DEF SourcesTyped
<1>6. InOrder'
  BY <1>1, <1>2, <1>3, <1>4 DEF InOrder, SourcesTyped, BuildTyped
<1>7. BuildTyped' /\ WorkIsShown' /\ StartsFull' /\ InHand' /\ FullPass' /\ EntriesAreRead'
  BY <1>1 DEF EInv, BuildTyped, WorkIsShown, StartsFull, InHand, FullPass, EntriesAreRead,
              Fingerprint
<1>8. ReadyIsRead'
  <2>1. \A s \in Sources : Live(s)' = {}
    BY <1>1, <1>2, <1>3, <1>4 DEF Live, SourcesTyped
  <2> QED  BY <1>1, <2>1 DEF EInv, ReadyIsRead, OtherSources, Unchanged
<1> QED  BY <1>1, <1>5, <1>6, <1>7, <1>8 DEF EInv, NothingUnreadIsCertified

LEMMA ConfigureKeeps ==
    ASSUME EInv, NEW s \in Sources, NEW format \in Formats, Configure(s, format)
    PROVE  EInv'
<1>1. /\ src' = [src EXCEPT ![s].format = format, ![s].state = "new", ![s].accepted = <<>>]
      /\ scanned' = FALSE /\ build.pc = "idle"
      /\ UNCHANGED <<logs, seq, done, findings, indexed, served, removed, folderHeld, build,
                     jobRow, legacy, retiredOver>>
  BY DEF Configure, HoldsCase, NoLogJob, fileVars, runVars, indexVars, work, past
<1>2. SourcesTyped
  BY DEF EInv
<1>3. /\ DOMAIN src' = Sources /\ DOMAIN src'[s] = DOMAIN src[s]
      /\ src'[s].format = format /\ src'[s].state = "new" /\ src'[s].marker = src[s].marker
      /\ \A x \in Sources \ {s} : src'[x] = src[x]
  BY <1>1, <1>2 DEF SourcesTyped
<1>4. format # Unset
  BY LogEvidenceConstants
<1>5. SourcesTyped'
  BY <1>1, <1>2, <1>3, <1>4 DEF SourcesTyped
<1>6. InOrder'
  BY <1>1, <1>3 DEF EInv, InOrder
<1>7. BuildTyped' /\ WorkIsShown' /\ StartsFull' /\ InHand' /\ FullPass' /\ EntriesAreRead'
  BY <1>1 DEF EInv, BuildTyped, WorkIsShown, StartsFull, InHand, FullPass, EntriesAreRead,
              Working
<1>8. ReadyIsRead'
  BY <1>1, <1>3 DEF EInv, ReadyIsRead, OtherSources, Unchanged, Live
<1> QED  BY <1>1, <1>5, <1>6, <1>7, <1>8 DEF EInv, NothingUnreadIsCertified

LEMMA AcceptKeeps ==
    ASSUME EInv, NEW s \in Sources, AcceptWarning(s)
    PROVE  EInv'
<1>1. /\ src' = [src EXCEPT ![s].accepted = WarningKey(s)]
      /\ build.pc = "idle"
      /\ UNCHANGED <<logs, seq, done, findings, indexed, served, removed, folderHeld, scanned,
                     build, jobRow, legacy, retiredOver>>
  BY DEF AcceptWarning, HoldsCase, NoLogJob, fileVars, runVars, indexVars, work, past
<1>2. SourcesTyped
  BY DEF EInv
<1> DEFINE key == WarningKey(s)
<1> HIDE DEF key
<1>3. /\ DOMAIN src' = Sources
      /\ \A x \in Sources : /\ DOMAIN src'[x] = DOMAIN src[x]
                             /\ src'[x].state = src[x].state /\ src'[x].format = src[x].format
                             /\ src'[x].stored = src[x].stored
                             /\ src'[x].marker = src[x].marker /\ src'[x].fp = src[x].fp
  <2>1. src' = [src EXCEPT ![s].accepted = key]
    BY <1>1 DEF key
  <2> QED  BY <1>2, <2>1 DEF SourcesTyped
<1>4. OtherSources' = OtherSources /\ StoredAsOther' = StoredAsOther
  BY <1>3 DEF OtherSources, StoredAsOther
<1>5. SourcesTyped'
  BY <1>1, <1>2, <1>3 DEF SourcesTyped
<1>6. InOrder'
  BY <1>1, <1>3 DEF EInv, InOrder
<1>7. BuildTyped' /\ WorkIsShown' /\ StartsFull' /\ InHand' /\ FullPass' /\ EntriesAreRead'
  BY <1>1 DEF EInv, BuildTyped, WorkIsShown, StartsFull, InHand, FullPass, EntriesAreRead,
              Working
<1>8. ReadyIsRead'
  BY <1>1, <1>3, <1>4 DEF EInv, ReadyIsRead, OtherSources, Unchanged, Live
<1>9. NothingUnreadIsCertified'
  BY <1>1, <1>3, <1>4 DEF EInv, NothingUnreadIsCertified, StoredAsOther
<1> QED  BY <1>5, <1>6, <1>7, <1>8, <1>9 DEF EInv

LEMMA SelectKeeps ==
    ASSUME EInv, NEW s \in Sources, NEW line, SelectEntry(s, line)
    PROVE  EInv'
<1>1. UNCHANGED <<Steady, folderHeld, scanned, build, jobRow, legacy, retiredOver>>
  BY DEF SelectEntry, HoldsCase, fileVars, runVars, indexVars, work, past, Steady
<1>2. SourcesTyped' /\ InOrder' /\ BuildTyped' /\ WorkIsShown' /\ StartsFull' /\ FullPass'
  BY <1>1 DEF EInv, SourcesTyped, InOrder, BuildTyped, WorkIsShown, StartsFull, FullPass, Steady
<1>3. InHand'
  BY <1>1 DEF EInv, InHand, Fingerprint, Steady
<1>4. NothingUnreadIsCertified'
  BY <1>1, SteadyStands DEF EInv, NothingUnreadIsCertified, Steady
<1> QED  BY <1>1, <1>2, <1>3, <1>4, SteadyStands DEF EInv

LEMMA AnalyzeKeeps ==
    ASSUME EInv, NEW chosen \in SUBSET Sources, Analyze(chosen)
    PROVE  EInv'
<1>1. /\ UNCHANGED <<Steady, folderHeld, scanned, legacy, retiredOver>>
      /\ jobRow' = "running"
  BY DEF Analyze, HoldsCase, fileVars, runVars, indexVars, past, Steady
<1>2. PICK scoped \in BOOLEAN, plan \in BOOLEAN :
          /\ ~scoped => chosen = Sources
          /\ build' = [NoJob EXCEPT !.pc = "inventory", !.scoped = scoped, !.plan = plan,
                                   !.todo = chosen]
  BY DEF Analyze
<1>3. SourcesTyped' /\ InOrder'
  BY <1>1, <1>2 DEF EInv, SourcesTyped, InOrder, Steady, NoJob, Working
<1>4. BuildTyped' /\ WorkIsShown' /\ StartsFull' /\ InHand' /\ FullPass'
  BY <1>1, <1>2 DEF BuildTyped, WorkIsShown, StartsFull, InHand, FullPass, NoJob, Working
<1> QED  BY <1>1, <1>3, <1>4, SteadyStands DEF EInv, NothingUnreadIsCertified

\* A build goes on with what it has in hand when it is asked to stop.
LEMMA CancelKeeps ==
    ASSUME EInv, Cancel
    PROVE  EInv'
<1>1. /\ UNCHANGED <<Steady, folderHeld, scanned, jobRow, legacy, retiredOver>>
      /\ build' = [build EXCEPT !.cancel = TRUE]
  BY DEF Cancel, fileVars, case, runVars, indexVars, past, Steady
<1>2. BuildTyped
  BY DEF EInv
<1>3. /\ DOMAIN build' = DOMAIN build /\ build'.pc = build.pc /\ build'.scoped = build.scoped
      /\ build'.todo = build.todo /\ build'.s = build.s /\ build'.before = build.before
      /\ build'.fp = build.fp /\ build'.lines = build.lines /\ build'.run = build.run
      /\ build'.failed = build.failed /\ build'.cancel = TRUE
  BY <1>1, <1>2 DEF BuildTyped
<1>4. SourcesTyped' /\ InOrder' /\ BuildTyped' /\ WorkIsShown' /\ StartsFull' /\ FullPass'
  BY <1>1, <1>3 DEF EInv, SourcesTyped, InOrder, BuildTyped, WorkIsShown, StartsFull, FullPass,
                    Steady
<1>5. InHand'
  BY <1>1, <1>3 DEF EInv, InHand, Fingerprint, Steady
<1>6. NothingUnreadIsCertified'
  BY <1>1, SteadyStands DEF EInv, NothingUnreadIsCertified, Steady
<1> QED  BY <1>1, <1>4, <1>5, <1>6, SteadyStands DEF EInv

\* The receipts are brought up to date, and a build that is gone is taken for failed.
LEMMA RefreshKeeps ==
    ASSUME EInv, Refresh \/ Recover
    PROVE  EInv'
<1>1. /\ UNCHANGED <<Steady, folderHeld, build, legacy, retiredOver>>
      /\ \/ jobRow' = jobRow /\ Reconcile(jobRow)
         \/ jobRow' = "failed" /\ Reconcile("failed") /\ build.pc = "idle"
  BY DEF Refresh, Recover, fileVars, runVars, indexVars, work, past, Steady
<1>2. scanned' \in BOOLEAN
      /\ (scanned' => jobRow' = "done" /\ \A s \in StoredAsOther : src[s].state \in {"ready", "failed"})
  BY <1>1, ReconcileIsHonest
<1>3. SourcesTyped' /\ InOrder' /\ BuildTyped' /\ StartsFull' /\ FullPass'
  BY <1>1, <1>2 DEF EInv, SourcesTyped, InOrder, BuildTyped, StartsFull, FullPass, Steady
<1>4. InHand'
  BY <1>1 DEF EInv, InHand, Fingerprint, Steady
<1>5. WorkIsShown'
  BY <1>1, <1>2 DEF EInv, WorkIsShown
<1>6. NothingUnreadIsCertified'
  BY <1>1, <1>2, SteadyStands DEF EInv, NothingUnreadIsCertified, Steady
<1> QED  BY <1>1, <1>3, <1>4, <1>5, <1>6, SteadyStands DEF EInv

LEMMA CrashKeeps ==
    ASSUME EInv, ECrash
    PROVE  EInv'
<1>1. UNCHANGED <<Steady, folderHeld, scanned, jobRow, legacy, retiredOver>> /\ build' = NoJob
  BY DEF ECrash, fileVars, case, runVars, indexVars, past, Steady
<1>2. SourcesTyped' /\ InOrder'
  BY <1>1 DEF EInv, SourcesTyped, InOrder, Steady, NoJob, Working
<1>3. BuildTyped' /\ WorkIsShown' /\ StartsFull' /\ InHand' /\ FullPass'
  BY <1>1 DEF BuildTyped, WorkIsShown, StartsFull, InHand, FullPass, NoJob, Working
<1>4. NothingUnreadIsCertified'
  BY <1>1, SteadyStands DEF EInv, NothingUnreadIsCertified, Steady
<1> QED  BY <1>1, <1>2, <1>3, <1>4, SteadyStands DEF EInv
----------------------------------------------------------------------------
(* The build                                                               *)

LEMMA ListSourcesKeeps ==
    ASSUME EInv, ListSources
    PROVE  EInv'
<1>1. /\ build.pc = "inventory" /\ UNCHANGED <<Steady, folderHeld, legacy, retiredOver>>
  BY DEF ListSources, At, fileVars, runVars, indexVars, past, Steady
<1>2. BuildTyped /\ StartsFull /\ WorkIsShown /\ SourcesTyped
  BY DEF EInv
<1>3. CASE folderHeld \/ ~build.scoped
  <2> DEFINE todo == IF folderHeld THEN build.todo ELSE {}
  <2>1. build' = [build EXCEPT !.pc = "next", !.todo = todo] /\ UNCHANGED <<jobRow, scanned>>
    BY <1>3 DEF ListSources
  <2>2. /\ DOMAIN build' = DOMAIN build /\ build'.pc = "next" /\ build'.scoped = build.scoped
        /\ build'.todo = todo /\ build'.before = build.before /\ build'.run = build.run
        /\ build'.cancel = build.cancel /\ build'.failed = build.failed
    BY <1>2, <2>1 DEF BuildTyped
  <2>3. BuildTyped' /\ StartsFull' /\ WorkIsShown' /\ InHand' /\ FullPass'
    BY <1>1, <1>2, <2>1, <2>2 DEF BuildTyped, StartsFull, WorkIsShown, InHand, FullPass, Working
  <2>4. SourcesTyped' /\ InOrder'
    BY <1>1, <2>1, <2>2 DEF EInv, SourcesTyped, InOrder, Steady, Working
  <2>5. NothingUnreadIsCertified'
    BY <1>1, <2>1, SteadyStands DEF EInv, NothingUnreadIsCertified, Steady
  <2> QED  BY <1>1, <2>3, <2>4, <2>5, SteadyStands DEF EInv
<1>4. CASE ~(folderHeld \/ ~build.scoped)
  <2>1. build' = NoJob /\ Reconcile("failed")
    BY <1>4 DEF ListSources
  <2>2. scanned' = FALSE
    BY <2>1, ReconcileIsHonest
  <2>3. SourcesTyped' /\ InOrder'
    BY <1>1, <2>1, <2>2 DEF EInv, SourcesTyped, InOrder, Steady, NoJob, Working
  <2>4. BuildTyped' /\ WorkIsShown' /\ StartsFull' /\ InHand' /\ FullPass'
    BY <2>1 DEF BuildTyped, WorkIsShown, StartsFull, InHand, FullPass, NoJob, Working
  <2> QED  BY <1>1, <2>2, <2>3, <2>4, SteadyStands DEF EInv, NothingUnreadIsCertified
<1> QED  BY <1>3, <1>4

\* The analysis of the access logs ends, or is no longer waited for.
LEMMA StopWaitingKeeps ==
    ASSUME EInv, IndexAccess \/ StopWaiting
    PROVE  EInv'
<1>1. /\ UNCHANGED <<Steady, folderHeld, jobRow, legacy, retiredOver>>
      /\ scanned' = FALSE \/ scanned' = scanned
      /\ \/ build' = build
         \/ build.pc = "inventory" /\ build' = [build EXCEPT !.pc = "end"]
  BY DEF IndexAccess, StopWaiting, At, Goto, fileVars, runVars, indexVars, work, past, Steady
<1>2. BuildTyped /\ WorkIsShown /\ SourcesTyped
  BY DEF EInv
<1>3. CASE build' = build
  <2>1. SourcesTyped' /\ InOrder' /\ BuildTyped' /\ WorkIsShown' /\ StartsFull' /\ FullPass'
    <3>1. SourcesTyped'
      BY <1>1, <1>2 DEF SourcesTyped, Steady
    <3>2. BuildTyped' /\ WorkIsShown'
      BY <1>1, <1>2, <1>3 DEF BuildTyped, WorkIsShown
    <3>3. InOrder'
      BY <1>1, <1>3 DEF EInv, InOrder, Steady
    <3>4. StartsFull' /\ FullPass'
      BY <1>1, <1>3 DEF EInv, StartsFull, FullPass, Steady
    <3> QED  BY <3>1, <3>2, <3>3, <3>4
  <2>2. InHand'
    BY <1>1, <1>3 DEF EInv, InHand, Fingerprint, Steady
  <2> QED  BY <1>1, <2>1, <2>2, SteadyStands DEF EInv, NothingUnreadIsCertified, Steady
<1>4. CASE build.pc = "inventory" /\ build' = [build EXCEPT !.pc = "end"]
  <2>1. /\ DOMAIN build' = DOMAIN build /\ build'.pc = "end" /\ build'.scoped = build.scoped
        /\ build'.todo = build.todo /\ build'.before = build.before /\ build'.run = build.run
        /\ build'.cancel = build.cancel /\ build'.failed = build.failed
    BY <1>2, <1>4 DEF BuildTyped
  <2>2. BuildTyped' /\ WorkIsShown' /\ StartsFull' /\ InHand' /\ FullPass'
    BY <1>1, <1>2, <1>4, <2>1 DEF BuildTyped, WorkIsShown, StartsFull, InHand, FullPass, Working
  <2>3. SourcesTyped' /\ InOrder'
    BY <1>1, <2>1 DEF EInv, SourcesTyped, InOrder, Steady, Working
  <2> QED  BY <1>1, <2>2, <2>3, SteadyStands DEF EInv, NothingUnreadIsCertified, Steady
<1> QED  BY <1>1, <1>3, <1>4

LEMMA PassAccessKeeps ==
    ASSUME EInv, NEW s \in Sources, PassAccess(s)
    PROVE  EInv'
<1>1. /\ build.pc = "next" /\ s \notin OtherSources
      /\ src' = [src EXCEPT ![s].state = "ready", ![s].stored = "access",
                            ![s].marker = logs[s].mark, ![s].warning = Unset]
      /\ build' = [build EXCEPT !.todo = @ \ {s}]
      /\ UNCHANGED <<logs, folderHeld, scanned, legacy, seq, done, findings, indexed, served,
                     jobRow, retiredOver, removed>>
  BY DEF PassAccess, At, fileVars, runVars, indexVars, past
<1>2. BuildTyped /\ SourcesTyped
  BY DEF EInv
<1>3. /\ DOMAIN src' = Sources /\ DOMAIN src'[s] = DOMAIN src[s]
      /\ src'[s].state = "ready" /\ src'[s].marker = logs[s].mark
      /\ src'[s].format = src[s].format
      /\ \A x \in Sources \ {s} : src'[x] = src[x]
  BY <1>1, <1>2 DEF SourcesTyped
<1>4. /\ DOMAIN build' = DOMAIN build /\ build'.pc = "next" /\ build'.scoped = build.scoped
      /\ build'.todo = build.todo \ {s} /\ build'.before = build.before /\ build'.run = build.run
      /\ build'.cancel = build.cancel /\ build'.failed = build.failed
  BY <1>1, <1>2 DEF BuildTyped
<1>5. OtherSources' = OtherSources
  BY <1>3 DEF OtherSources
<1>6. SourcesTyped'
  BY <1>1, <1>2, <1>3 DEF SourcesTyped
<1>7. BuildTyped' /\ StartsFull' /\ WorkIsShown' /\ InHand' /\ EntriesAreRead'
  BY <1>1, <1>2, <1>4 DEF EInv, BuildTyped, StartsFull, WorkIsShown, InHand, EntriesAreRead, Working
<1>8. FullPass'
  BY <1>1, <1>3, <1>4 DEF EInv, FullPass, Working
<1>9. InOrder'
  BY <1>1, <1>2, <1>3, <1>4 DEF EInv, InOrder, Working, SourcesTyped
<1>10. ReadyIsRead'
  BY <1>1, <1>3, <1>5 DEF EInv, ReadyIsRead, Unchanged, Live, OtherSources
<1>11. NothingUnreadIsCertified'
  BY <1>1 DEF EInv, NothingUnreadIsCertified, WorkIsShown
<1> QED  BY <1>6, <1>7, <1>8, <1>9, <1>10, <1>11 DEF EInv

LEMMA BeginSourceKeeps ==
    ASSUME EInv, NEW s \in Sources, BeginSource(s)
    PROVE  EInv'
<1>1. /\ build.pc = "next" /\ seq' = seq + 1
      /\ src' = [src EXCEPT ![s].state = "indexing"]
      /\ build' = [build EXCEPT !.pc = "hash", !.s = s, !.todo = @ \ {s}, !.run = seq',
                                !.before = logs[s].mark]
      /\ UNCHANGED <<logs, folderHeld, scanned, legacy, done, findings, indexed, served,
                     jobRow, retiredOver, removed>>
  BY DEF BeginSource, At, fileVars, indexVars, past
<1>2. BuildTyped /\ SourcesTyped
  BY DEF EInv
<1>3. /\ DOMAIN src' = Sources /\ DOMAIN src'[s] = DOMAIN src[s] /\ src'[s].state = "indexing"
      /\ src'[s].marker = src[s].marker /\ src'[s].format = src[s].format
      /\ \A x \in Sources \ {s} : src'[x] = src[x]
  BY <1>1, <1>2 DEF SourcesTyped
<1>4. /\ DOMAIN build' = DOMAIN build /\ build'.pc = "hash" /\ build'.scoped = build.scoped
      /\ build'.todo = build.todo \ {s} /\ build'.s = s /\ build'.before = logs[s].mark
      /\ build'.run = seq' /\ build'.cancel = build.cancel /\ build'.failed = build.failed
  BY <1>1, <1>2 DEF BuildTyped
<1>5. OtherSources' = OtherSources
  BY <1>3 DEF OtherSources
<1>6. seq \in Nat /\ seq' \in Nat /\ seq < seq' /\ logs[s].mark \in Nat
  BY <1>1, <1>2 DEF SourcesTyped
<1>7. SourcesTyped'
  BY <1>1, <1>2, <1>3, <1>6 DEF SourcesTyped
<1>8. BuildTyped' /\ StartsFull' /\ WorkIsShown' /\ InHand' /\ EntriesAreRead'
  BY <1>1, <1>2, <1>4, <1>6 DEF EInv, BuildTyped, StartsFull, WorkIsShown, InHand, EntriesAreRead,
                                Working
<1>9. FullPass'
  BY <1>1, <1>3, <1>4 DEF EInv, FullPass, Working
<1>10. InOrder'
  <2>1. \A x \in Sources : /\ src'[x].marker <= logs'[x].mark /\ done'[x] <= seq'
                           /\ \A l \in Lines : findings'[x][l] <= done'[x]
    BY <1>1, <1>2, <1>3, <1>6 DEF EInv, InOrder, SourcesTyped
  <2>2. \A l \in Lines : findings[s][l] < seq'
    BY <1>2, <1>6 DEF EInv, InOrder, SourcesTyped
  <2> QED  BY <1>1, <1>4, <1>6, <2>1, <2>2 DEF InOrder
<1>11. ReadyIsRead'
  BY <1>1, <1>3, <1>5 DEF EInv, ReadyIsRead, Unchanged, Live, OtherSources
<1>12. NothingUnreadIsCertified'
  BY <1>1 DEF EInv, NothingUnreadIsCertified, WorkIsShown
<1> QED  BY <1>7, <1>8, <1>9, <1>10, <1>11, <1>12 DEF EInv

LEMMA HashKeeps ==
    ASSUME EInv, Hash
    PROVE  EInv'
<1>1. /\ build.pc = "hash" /\ UNCHANGED <<Steady, folderHeld, scanned, jobRow, legacy, retiredOver>>
  BY DEF Hash, At, fileVars, runVars, indexVars, past, Steady
<1> DEFINE fp == Fingerprint(build.s)
<1>2. build' = [build EXCEPT !.pc = "read", !.fp = fp]
  BY DEF Hash
<1>3. BuildTyped
  BY DEF EInv
<1> HIDE DEF fp
<1>5. /\ DOMAIN build' = DOMAIN build /\ build'.pc = "read" /\ build'.scoped = build.scoped
      /\ build'.todo = build.todo /\ build'.s = build.s /\ build'.before = build.before
      /\ build'.fp = fp /\ build'.run = build.run
      /\ build'.cancel = build.cancel /\ build'.failed = build.failed
  BY <1>2, <1>3 DEF BuildTyped
<1>6. SourcesTyped' /\ InOrder' /\ BuildTyped' /\ WorkIsShown' /\ StartsFull' /\ FullPass'
  BY <1>1, <1>3, <1>5 DEF EInv, SourcesTyped, InOrder, BuildTyped, WorkIsShown, StartsFull,
                          FullPass, Steady, Working
<1>7. InHand'
  BY <1>1, <1>5 DEF InHand, Fingerprint, Steady, fp
<1>8. NothingUnreadIsCertified'
  BY <1>1, SteadyStands DEF EInv, NothingUnreadIsCertified, Steady
<1> QED  BY <1>1, <1>6, <1>7, <1>8, SteadyStands DEF EInv

LEMMA ReadKeeps ==
    ASSUME EInv, Read
    PROVE  EInv'
<1>1. /\ build.pc = "read" /\ UNCHANGED <<Steady, folderHeld, scanned, jobRow, legacy, retiredOver>>
  BY DEF Read, At, fileVars, runVars, indexVars, past, Steady
<1>2. build' = [build EXCEPT !.pc = "recheck", !.lines = logs[build.s].text]
  BY DEF Read
<1>3. BuildTyped
  BY DEF EInv
<1>4. /\ DOMAIN build' = DOMAIN build /\ build'.pc = "recheck" /\ build'.scoped = build.scoped
      /\ build'.todo = build.todo /\ build'.s = build.s /\ build'.before = build.before
      /\ build'.fp = build.fp /\ build'.lines = logs[build.s].text /\ build'.run = build.run
      /\ build'.cancel = build.cancel /\ build'.failed = build.failed
  BY <1>2, <1>3 DEF BuildTyped
<1>5. SourcesTyped' /\ InOrder' /\ BuildTyped' /\ WorkIsShown' /\ StartsFull' /\ FullPass'
  BY <1>1, <1>3, <1>4 DEF EInv, SourcesTyped, InOrder, BuildTyped, WorkIsShown, StartsFull,
                          FullPass, Steady, Working
<1>6. InHand'
  BY <1>1, <1>4 DEF EInv, InHand, Fingerprint, Steady
<1>7. NothingUnreadIsCertified'
  BY <1>1, SteadyStands DEF EInv, NothingUnreadIsCertified, Steady
<1> QED  BY <1>1, <1>5, <1>6, <1>7, SteadyStands DEF EInv

\* What is committed was read from the file that was hashed.
LEMMA RecheckKeeps ==
    ASSUME EInv, Recheck
    PROVE  EInv'
<1> DEFINE s == build.s
           entry == [fp |-> build.fp, lines |-> build.lines]
<1>1. /\ build.pc = "recheck" /\ logs[s].mark = build.before /\ Fingerprint(s) = build.fp
      /\ indexed' = [indexed EXCEPT ![s] = {e \in @ : e.fp # build.fp} \cup {entry}]
      /\ build' = [build EXCEPT !.pc = "publish"]
      /\ UNCHANGED <<logs, src, seq, done, findings, served, removed, folderHeld, scanned,
                     jobRow, legacy, retiredOver>>
  BY DEF Recheck, At, Goto, fileVars, runVars, past
<1>2. BuildTyped /\ SourcesTyped /\ s \in Sources
  BY <1>1 DEF EInv, BuildTyped, Working
<1>3. /\ DOMAIN build' = DOMAIN build /\ build'.pc = "publish" /\ build'.scoped = build.scoped
      /\ build'.todo = build.todo /\ build'.s = build.s /\ build'.before = build.before
      /\ build'.fp = build.fp /\ build'.lines = build.lines /\ build'.run = build.run
      /\ build'.cancel = build.cancel /\ build'.failed = build.failed
  BY <1>1, <1>2 DEF BuildTyped
<1>4. build.lines = logs[s].text
  BY <1>1 DEF EInv, InHand
<1>5. build.fp = [text |-> build.lines, format |-> src[s].format]
  BY <1>1, <1>4 DEF Fingerprint
<1>6. build.fp.text = build.lines
  BY <1>5
<1>7. entry = ReadEntry(build.fp) /\ entry.fp = build.fp
  BY <1>6 DEF ReadEntry
<1> HIDE DEF entry
<1>8. /\ DOMAIN indexed' = Sources /\ indexed'[s] = {e \in indexed[s] : e.fp # build.fp} \cup {entry}
      /\ \A x \in Sources \ {s} : indexed'[x] = indexed[x]
  BY <1>1, <1>2 DEF SourcesTyped
<1>9. EntriesAreRead'
  <2> SUFFICES ASSUME NEW x \in Sources
               PROVE  /\ \A e \in indexed'[x] : e = ReadEntry(e.fp)
                      /\ served[x] # NoFp => ReadEntry(served[x]) \in indexed'[x]
    BY <1>1 DEF EntriesAreRead, ReadEntry
  <2>1. /\ \A e \in indexed[x] : e = ReadEntry(e.fp)
        /\ served[x] # NoFp => ReadEntry(served[x]) \in indexed[x]
    BY DEF EInv, EntriesAreRead
  <2>2. CASE x # s
    BY <1>8, <2>1, <2>2
  <2>3. CASE x = s
    <3>1. \A e \in indexed'[x] : e = ReadEntry(e.fp)
      BY <1>7, <1>8, <2>1, <2>3
    <3>2. ASSUME served[x] # NoFp PROVE ReadEntry(served[x]) \in indexed'[x]
      <4>1. CASE served[x] = build.fp
        BY <1>7, <1>8, <2>3, <4>1
      <4>2. CASE served[x] # build.fp
        <5>1. ReadEntry(served[x]).fp = served[x]
          BY DEF ReadEntry
        <5> QED  BY <1>8, <2>1, <2>3, <3>2, <4>2, <5>1
      <4> QED  BY <4>1, <4>2
    <3> QED  BY <3>1, <3>2
  <2> QED  BY <2>2, <2>3
<1>10. SourcesTyped' /\ InOrder' /\ BuildTyped' /\ WorkIsShown' /\ StartsFull' /\ FullPass'
  BY <1>1, <1>2, <1>3, <1>8 DEF EInv, SourcesTyped, InOrder, BuildTyped, WorkIsShown, StartsFull,
                                FullPass, Working
<1>11. InHand'
  BY <1>1, <1>3, <1>4, <1>5, <1>7, <1>8 DEF InHand, ReadEntry
<1>12. ReadyIsRead'
  BY <1>1 DEF EInv, ReadyIsRead, OtherSources, Unchanged, Live
<1>13. NothingUnreadIsCertified'
  BY <1>1 DEF EInv, NothingUnreadIsCertified, StoredAsOther
<1> QED  BY <1>9, <1>10, <1>11, <1>12, <1>13 DEF EInv
\* Findings, completion and state of the source in one commit.
LEMMA PublishSourceKeeps ==
    ASSUME EInv, PublishSource
    PROVE  EInv'
<1> DEFINE s == build.s
           hits == Detected(build.lines, src[s].format)
           warning == WarningOf(build.lines, src[s].format)
           format == src[s].format
<1>1. /\ build.pc = "publish"
      /\ findings' = [findings EXCEPT ![s] = Saved(@, hits)]
      /\ done' = [done EXCEPT ![s] = build.run]
      /\ src' = [src EXCEPT ![s] = [@ EXCEPT !.state = "ready", !.stored = format,
                                             !.fp = build.fp, !.marker = MarkerRead, !.warning = warning]]
      /\ removed' = removed \ {s}
      /\ build' = [build EXCEPT !.pc = "switch"]
      /\ UNCHANGED <<logs, seq, indexed, served, folderHeld, scanned, jobRow, legacy, retiredOver>>
  BY DEF PublishSource, At, Goto, fileVars, indexVars
<1>2. BuildTyped /\ SourcesTyped /\ s \in Sources /\ InOrder
  BY <1>1 DEF EInv, BuildTyped, Working
<1>3. build.fp = [text |-> build.lines, format |-> src[s].format]
      /\ ReadEntry(build.fp) \in indexed[s]
      /\ (build.before = logs[s].mark => build.lines = logs[s].text)
  BY <1>1 DEF EInv, InHand
<1>4. hits \subseteq Lines /\ hits = Detected(build.lines, src[s].format)
  BY DEF Detected, Lines
<1>5. build.fp.text = build.lines
  BY <1>3
<1> HIDE DEF hits, warning, format
<1>6. /\ DOMAIN src' = Sources /\ DOMAIN src'[s] = DOMAIN src[s] /\ src'[s].state = "ready"
      /\ src'[s].fp = build.fp /\ src'[s].marker = build.before /\ src'[s].format = src[s].format
      /\ \A x \in Sources \ {s} : src'[x] = src[x]
  BY <1>1, <1>2 DEF SourcesTyped, MarkerRead
<1>7. /\ DOMAIN build' = DOMAIN build /\ build'.pc = "switch" /\ build'.scoped = build.scoped
      /\ build'.todo = build.todo /\ build'.s = s /\ build'.before = build.before
      /\ build'.fp = build.fp /\ build'.lines = build.lines /\ build'.run = build.run
      /\ build'.cancel = build.cancel /\ build'.failed = build.failed
  BY <1>1, <1>2 DEF BuildTyped
<1>8. /\ DOMAIN done' = Sources /\ done'[s] = build.run
      /\ \A x \in Sources \ {s} : done'[x] = done[x]
  BY <1>1, <1>2 DEF SourcesTyped
<1>9. /\ DOMAIN findings' = Sources /\ DOMAIN findings'[s] = Lines
      /\ \A l \in Lines : findings'[s][l] = IF l \in hits THEN build.run ELSE findings[s][l]
      /\ \A x \in Sources \ {s} : findings'[x] = findings[x]
  BY <1>1, <1>2 DEF SourcesTyped, Saved
<1>10. /\ build.run \in Nat /\ build.before \in Nat /\ build.run <= seq
       /\ build.before <= logs[s].mark
       /\ \A l \in Lines : findings[s][l] \in Nat /\ findings[s][l] < build.run
  BY <1>1, <1>2 DEF BuildTyped, SourcesTyped, InOrder, Working
<1>11. OtherSources' = OtherSources
  BY <1>6 DEF OtherSources
<1>12. SourcesTyped'
  BY <1>1, <1>2, <1>6, <1>8, <1>9, <1>10 DEF SourcesTyped
<1>13. BuildTyped' /\ StartsFull' /\ WorkIsShown' /\ EntriesAreRead'
  BY <1>1, <1>2, <1>7 DEF EInv, BuildTyped, StartsFull, WorkIsShown, EntriesAreRead, Working
<1>14. FullPass'
  BY <1>1, <1>6, <1>7 DEF EInv, FullPass, Working
<1>15. InOrder'
  <2>1. \A x \in Sources : /\ src'[x].marker <= logs'[x].mark /\ done'[x] <= seq'
                           /\ \A l \in Lines : findings'[x][l] <= done'[x]
    <3> TAKE x \in Sources
    <3>1. CASE x = s
      BY <1>1, <1>6, <1>8, <1>9, <1>10, <3>1
    <3>2. CASE x # s
      BY <1>1, <1>2, <1>6, <1>8, <1>9, <3>2 DEF InOrder
    <3> QED  BY <3>1, <3>2
  <2> QED  BY <1>1, <1>7, <1>10, <2>1 DEF InOrder
<1>16. InHand'
  BY <1>1, <1>3, <1>6, <1>7 DEF InHand
<1>17. {l \in Lines : findings'[s][l] > 0 /\ findings'[s][l] >= done'[s]} = hits
  <2>1. ASSUME NEW l \in Lines
        PROVE  (findings'[s][l] > 0 /\ findings'[s][l] >= done'[s]) <=> l \in hits
    <3>1. findings[s][l] \in Nat /\ findings[s][l] < build.run /\ build.run \in Nat
          /\ done'[s] = build.run
      BY <1>8, <1>10
    <3>2. CASE l \in hits
      <4>1. findings'[s][l] = build.run
        BY <1>9, <3>2
      <4> QED  BY <3>1, <3>2, <4>1
    <3>3. CASE l \notin hits
      <4>1. findings'[s][l] = findings[s][l]
        BY <1>9, <3>3
      <4> QED  BY <3>1, <3>3, <4>1
    <3> QED  BY <3>2, <3>3
  <2> HIDE DEF s
  <2> QED  BY <1>4, <2>1
<1>18. ReadyIsRead'
  <2> SUFFICES ASSUME NEW x \in OtherSources, src'[x].state = "ready"
               PROVE  /\ src'[x].fp = [text |-> src'[x].fp.text, format |-> src'[x].format]
                      /\ Unchanged(x)' => src'[x].fp.text = logs'[x].text
                      /\ Live(x)' \subseteq Detected(src'[x].fp.text, src'[x].format)
                      /\ x \notin removed' => Live(x)' = Detected(src'[x].fp.text, src'[x].format)
    BY <1>11 DEF ReadyIsRead
  <2>1. CASE x = s
    <3>1. Live(x)' = hits
      BY <1>17, <2>1 DEF Live
    <3> QED  BY <1>1, <1>3, <1>4, <1>5, <1>6, <2>1, <3>1 DEF Unchanged
  <2>2. CASE x # s
    <3>1. x \in Sources /\ src'[x] = src[x] /\ done'[x] = done[x] /\ findings'[x] = findings[x]
      BY <1>6, <1>8, <1>9, <2>2 DEF OtherSources
    <3>2. Live(x)' = Live(x) /\ (Unchanged(x)' <=> Unchanged(x)) /\ (x \notin removed' => x \notin removed)
      BY <1>1, <2>2, <3>1 DEF Live, Unchanged
    <3> QED  BY <1>1, <3>1, <3>2 DEF EInv, ReadyIsRead
  <2> QED  BY <2>1, <2>2
<1>19. NothingUnreadIsCertified'
  BY <1>1 DEF EInv, NothingUnreadIsCertified, WorkIsShown
<1> QED  BY <1>12, <1>13, <1>14, <1>15, <1>16, <1>18, <1>19 DEF EInv

LEMMA SwitchKeeps ==
    ASSUME EInv, Switch
    PROVE  EInv'
<1> DEFINE s == build.s
<1>1. /\ build.pc = "switch"
      /\ served' = [served EXCEPT ![s] = build.fp]
      /\ indexed' = [indexed EXCEPT ![s] = {e \in @ : e.fp = build.fp}]
      /\ build' = [build EXCEPT !.pc = "next"]
      /\ UNCHANGED <<logs, src, seq, done, findings, removed, folderHeld, scanned, jobRow, legacy,
                     retiredOver>>
  BY DEF Switch, At, Goto, fileVars, runVars, past
<1>2. BuildTyped /\ SourcesTyped /\ s \in Sources
  BY <1>1 DEF EInv, BuildTyped, Working
<1>3. /\ DOMAIN build' = DOMAIN build /\ build'.pc = "next" /\ build'.scoped = build.scoped
      /\ build'.todo = build.todo /\ build'.before = build.before /\ build'.run = build.run
      /\ build'.cancel = build.cancel /\ build'.failed = build.failed
  BY <1>1, <1>2 DEF BuildTyped
<1>4. /\ DOMAIN served' = Sources /\ DOMAIN indexed' = Sources
      /\ served'[s] = build.fp /\ indexed'[s] = {e \in indexed[s] : e.fp = build.fp}
      /\ \A x \in Sources \ {s} : served'[x] = served[x] /\ indexed'[x] = indexed[x]
  BY <1>1, <1>2 DEF SourcesTyped
<1>5. ReadEntry(build.fp) \in indexed[s] /\ ReadEntry(build.fp).fp = build.fp
  BY <1>1 DEF EInv, InHand, ReadEntry
<1>6. EntriesAreRead'
  <2> SUFFICES ASSUME NEW x \in Sources
               PROVE  /\ \A e \in indexed'[x] : e = ReadEntry(e.fp)
                      /\ served'[x] # NoFp => ReadEntry(served'[x]) \in indexed'[x]
    BY DEF EntriesAreRead, ReadEntry
  <2>1. /\ \A e \in indexed[x] : e = ReadEntry(e.fp)
        /\ served[x] # NoFp => ReadEntry(served[x]) \in indexed[x]
    BY DEF EInv, EntriesAreRead
  <2> QED  BY <1>4, <1>5, <2>1
<1>7. SourcesTyped' /\ InOrder' /\ BuildTyped' /\ WorkIsShown' /\ StartsFull' /\ InHand'
  BY <1>1, <1>2, <1>3, <1>4 DEF EInv, SourcesTyped, InOrder, BuildTyped, WorkIsShown, StartsFull,
                                InHand, Working
<1>8. FullPass'
  BY <1>1, <1>3 DEF EInv, FullPass, Working
<1>9. ReadyIsRead'
  BY <1>1 DEF EInv, ReadyIsRead, OtherSources, Unchanged, Live
<1>10. NothingUnreadIsCertified'
  BY <1>1 DEF EInv, NothingUnreadIsCertified, StoredAsOther
<1> QED  BY <1>6, <1>7, <1>8, <1>9, <1>10 DEF EInv

LEMMA FailKeeps ==
    ASSUME EInv, Fail
    PROVE  EInv'
<1> DEFINE s == build.s
           state == IF build.cancel THEN "cancelled" ELSE "failed"
<1>1. /\ build.pc \in Working
      /\ src' = [src EXCEPT ![s].state = state, ![s].warning = "failure", ![s].accepted = <<>>]
      /\ build' = [build EXCEPT !.pc = "next", !.failed = TRUE]
      /\ UNCHANGED <<logs, seq, done, findings, indexed, served, removed, folderHeld, scanned,
                     jobRow, legacy, retiredOver>>
  BY DEF Fail, At, fileVars, runVars, indexVars, past, Working
<1>2. BuildTyped /\ SourcesTyped /\ s \in Sources /\ state # "ready"
  BY <1>1 DEF EInv, BuildTyped
<1> HIDE DEF state
<1>3. /\ DOMAIN src' = Sources /\ DOMAIN src'[s] = DOMAIN src[s] /\ src'[s].state = state
      /\ src'[s].marker = src[s].marker /\ src'[s].format = src[s].format
      /\ \A x \in Sources \ {s} : src'[x] = src[x]
  BY <1>1, <1>2 DEF SourcesTyped
<1>4. /\ DOMAIN build' = DOMAIN build /\ build'.pc = "next" /\ build'.scoped = build.scoped
      /\ build'.todo = build.todo /\ build'.before = build.before /\ build'.run = build.run
      /\ build'.cancel = build.cancel /\ build'.failed = TRUE
  BY <1>1, <1>2 DEF BuildTyped
<1>5. OtherSources' = OtherSources
  BY <1>3 DEF OtherSources
<1>6. SourcesTyped'
  BY <1>1, <1>2, <1>3 DEF SourcesTyped
<1>7. BuildTyped' /\ StartsFull' /\ WorkIsShown' /\ EntriesAreRead' /\ FullPass' /\ InHand'
  BY <1>1, <1>2, <1>4 DEF EInv, BuildTyped, StartsFull, WorkIsShown, EntriesAreRead, Working,
                          FullPass, InHand
<1>8. InOrder'
  BY <1>1, <1>3, <1>4 DEF EInv, InOrder, Working
<1>9. ReadyIsRead'
  <2>1. ASSUME NEW x \in Sources, src'[x].state = "ready"
        PROVE  x # s /\ src'[x] = src[x]
    BY <1>2, <1>3, <2>1
  <2>2. \A x \in Sources : Live(x)' = Live(x)
    BY <1>1 DEF Live
  <2>3. OtherSources \subseteq Sources
    BY DEF OtherSources
  <2>4. ASSUME NEW x \in OtherSources, src'[x].state = "ready"
        PROVE  /\ src'[x].fp = [text |-> src'[x].fp.text, format |-> src'[x].format]
               /\ Unchanged(x)' => src'[x].fp.text = logs'[x].text
               /\ Live(x)' \subseteq Detected(src'[x].fp.text, src'[x].format)
               /\ x \notin removed' => Live(x)' = Detected(src'[x].fp.text, src'[x].format)
    <3>1. src'[x] = src[x] /\ Live(x)' = Live(x) /\ logs' = logs /\ removed' = removed
      BY <1>1, <2>1, <2>2, <2>3, <2>4
    <3>2. Unchanged(x)' <=> Unchanged(x)
      BY <3>1 DEF Unchanged
    <3> QED  BY <2>4, <3>1, <3>2 DEF EInv, ReadyIsRead
  <2> QED  BY <1>5, <2>4 DEF ReadyIsRead
<1>10. NothingUnreadIsCertified'
  BY <1>1 DEF EInv, NothingUnreadIsCertified, WorkIsShown, Working
<1> QED  BY <1>6, <1>7, <1>8, <1>9, <1>10 DEF EInv

\* The old engine is retired by a pass that finished every source.
LEMMA FinishBuildKeeps ==
    ASSUME EInv, FinishBuild
    PROVE  EInv'
<1>1. /\ build.pc = "next" /\ (build.todo = {} \/ build.cancel)
      /\ legacy' = (legacy /\ ~ReplacesLegacy)
      /\ retiredOver' = IF legacy /\ ~legacy' THEN {s \in Sources : src[s].state # "ready"}
                        ELSE retiredOver
      /\ scanned' = (scanned \/ AnalysisComplete)
      /\ build' = [build EXCEPT !.pc = "end"]
      /\ UNCHANGED <<Steady, folderHeld, jobRow>>
  BY DEF FinishBuild, At, Goto, fileVars, runVars, indexVars, Steady
<1>2. BuildTyped /\ WorkIsShown
  BY DEF EInv
<1>3. retiredOver' = {}
  <2>1. CASE legacy /\ ~legacy'
    <3>1. ~build.scoped /\ ~build.failed /\ ~build.cancel /\ folderHeld
      BY <1>1, <2>1 DEF ReplacesLegacy
    <3>2. \A s \in Sources : src[s].state = "ready"
      BY <1>1, <3>1 DEF EInv, FullPass, Working
    <3> QED  BY <1>1, <2>1, <3>2
  <2>2. CASE ~(legacy /\ ~legacy')
    BY <1>1, <2>2 DEF EInv, NothingUnreadIsCertified
  <2> QED  BY <2>1, <2>2
<1>4. legacy' \in BOOLEAN /\ scanned' \in BOOLEAN
  BY <1>1 DEF EInv, SourcesTyped
<1>5. /\ DOMAIN build' = DOMAIN build /\ build'.pc = "end" /\ build'.scoped = build.scoped
      /\ build'.todo = build.todo /\ build'.before = build.before /\ build'.run = build.run
      /\ build'.cancel = build.cancel /\ build'.failed = build.failed
  BY <1>1, <1>2 DEF BuildTyped
<1>6. SourcesTyped' /\ InOrder'
  BY <1>1, <1>4, <1>5 DEF EInv, SourcesTyped, InOrder, Steady, Working
<1>7. BuildTyped' /\ WorkIsShown' /\ StartsFull' /\ InHand' /\ FullPass'
  BY <1>1, <1>2, <1>5 DEF BuildTyped, WorkIsShown, StartsFull, InHand, FullPass, Working
<1>8. NothingUnreadIsCertified'
  BY <1>1, <1>2, <1>3 DEF NothingUnreadIsCertified, WorkIsShown
<1> QED  BY <1>1, <1>6, <1>7, <1>8, SteadyStands DEF EInv

\* The receipt is weighed anew with the end of the job.
LEMMA EndLogJobKeeps ==
    ASSUME EInv, EndLogJob
    PROVE  EInv'
<1>1. /\ build' = NoJob /\ Reconcile(jobRow')
      /\ UNCHANGED <<Steady, folderHeld, legacy, retiredOver>>
  BY DEF EndLogJob, At, fileVars, runVars, indexVars, past, Steady
<1>2. scanned' \in BOOLEAN
      /\ (scanned' => \A s \in StoredAsOther : src[s].state \in {"ready", "failed"})
  BY <1>1, ReconcileIsHonest
<1>3. SourcesTyped' /\ InOrder'
  BY <1>1, <1>2 DEF EInv, SourcesTyped, InOrder, Steady, NoJob, Working
<1>4. BuildTyped' /\ WorkIsShown' /\ StartsFull' /\ InHand' /\ FullPass'
  BY <1>1 DEF BuildTyped, WorkIsShown, StartsFull, InHand, FullPass, NoJob, Working
<1>5. NothingUnreadIsCertified'
  BY <1>1, <1>2, SteadyStands DEF EInv, NothingUnreadIsCertified, Steady
<1> QED  BY <1>1, <1>3, <1>4, <1>5, SteadyStands DEF EInv

----------------------------------------------------------------------------
LEMMA LogEvidenceInvariant == ESpec => []EInv
<1>1. EInv /\ ENext => EInv'
  BY RewriteKeeps, FolderKeeps, RemovedKeeps, ConfigureKeeps, AcceptKeeps, SelectKeeps,
     AnalyzeKeeps, CancelKeeps, RefreshKeeps, CrashKeeps, ListSourcesKeeps, PassAccessKeeps,
     BeginSourceKeeps, HashKeeps, ReadKeeps, RecheckKeeps, PublishSourceKeeps, SwitchKeeps,
     FailKeeps, FinishBuildKeeps, EndLogJobKeeps, StopWaitingKeeps DEF ENext
<1>2. EInv /\ UNCHANGED evars => EInv'
  <2> SUFFICES ASSUME EInv, UNCHANGED evars PROVE EInv'
    OBVIOUS
  <2>1. UNCHANGED <<Steady, folderHeld, scanned, legacy, build, jobRow, retiredOver>>
    BY DEF evars, fileVars, case, runVars, indexVars, work, past, Steady
  <2>2. SourcesTyped' /\ InOrder' /\ BuildTyped' /\ WorkIsShown' /\ StartsFull' /\ FullPass'
    BY <2>1 DEF EInv, SourcesTyped, InOrder, BuildTyped, WorkIsShown, StartsFull, FullPass, Steady
  <2>3. InHand'
    BY <2>1 DEF EInv, InHand, Fingerprint, Steady
  <2>4. NothingUnreadIsCertified'
    BY <2>1, SteadyStands DEF EInv, NothingUnreadIsCertified, Steady
  <2> QED  BY <2>1, <2>2, <2>3, <2>4, SteadyStands DEF EInv
<1> QED  BY <1>1, <1>2, EInitInv, PTL DEF ESpec

\* Of NothingUnreadIsCertified: whatever is cancelled, fails or dies, a pass over the
\* sources of other logs (log_evidence.py) vouches for none that it did not finish, neither
\* by retiring the old engine nor, once no job is at work, in the receipt of the folder,
\* as far as the source is stored as one of other logs. (One that is stored as access log
\* and was set to another format since is not seen, as the README describes.)
THEOREM NothingUnreadCertified == ESpec => []NothingUnreadIsCertified
BY LogEvidenceInvariant, PTL DEF EInv

\* Of FreshTellsTheTruth: for any number of sources, builds and changes of files at any
\* moment, a source that is shown as fresh serves exactly the entries of its file as it is
\* now, and its live findings are the detections among them (log_evidence.py).
THEOREM FreshIsTrue == ESpec => []FreshTellsTheTruth
<1>1. EInv => FreshTellsTheTruth
  <2> SUFFICES ASSUME EInv, NEW s \in Sources, FreshSource(s)
               PROVE  /\ Served(s) = logs[s].text /\ served[s] = Fingerprint(s)
                      /\ Live(s) \subseteq Detected(logs[s].text, src[s].format)
                      /\ s \notin removed => Live(s) = Detected(logs[s].text, src[s].format)
    BY DEF FreshTellsTheTruth
  <2>1. s \in OtherSources /\ src[s].state = "ready" /\ Unchanged(s) /\ served[s] = src[s].fp
    BY DEF FreshSource
  <2>2. /\ src[s].fp = [text |-> src[s].fp.text, format |-> src[s].format]
        /\ src[s].fp.text = logs[s].text
        /\ Live(s) \subseteq Detected(src[s].fp.text, src[s].format)
        /\ s \notin removed => Live(s) = Detected(src[s].fp.text, src[s].format)
    BY <2>1 DEF EInv, ReadyIsRead
  <2>3. served[s] = Fingerprint(s)
    BY <2>1, <2>2 DEF Fingerprint
  <2>4. Fingerprint(s).format # NoFp.format /\ Fingerprint(s).text = logs[s].text
    BY DEF Fingerprint, NoFp, EInv, SourcesTyped
  <2>5. ReadEntry(served[s]) \in indexed[s] /\ \A e \in indexed[s] : e = ReadEntry(e.fp)
    BY <2>3, <2>4 DEF EInv, EntriesAreRead
  <2>6. ReadEntry(served[s]).fp = served[s] /\ ReadEntry(served[s]).lines = served[s].text
    BY DEF ReadEntry
  <2>7. {e \in indexed[s] : e.fp = served[s]} = {ReadEntry(served[s])}
    BY <2>5, <2>6
  <2>8. Served(s) = ReadEntry(served[s]).lines
    BY <2>7 DEF Served
  <2> QED  BY <2>2, <2>3, <2>4, <2>6, <2>8
<1> QED  BY <1>1, LogEvidenceInvariant, PTL

(***************************************************************************)
(* Backups: the generations of the backups and content identity.           *)
(*                                                                         *)
(* The argument: a path that was there all through a walk is, until its    *)
(* discovery fails, still to be taken or has a row (NothingSkipped), and   *)
(* only a walk without failures is published, so a published generation    *)
(* lists every such path (PublishedIsComplete). A receipt without a hit    *)
(* stands for a scan that reported nothing of that content                 *)
(* (ReceiptsAreTrue), whatever is edited, registered again, retried or     *)
(* crashes in between.                                                     *)
(***************************************************************************)

ListedRows(rows) == DOMAIN rows \subseteq Paths /\ \A p \in DOMAIN rows : rows[p] # Absent

\* What the tables of backups hold, and what a walk holds of them.
TablesTyped ==
    /\ Sequence(snaps) /\ Sequence(generations) /\ Sequence(saw)
    /\ Len(saw) = Len(generations)
    /\ \A s \in DOMAIN snaps : /\ DOMAIN snaps[s] = {"root", "gen", "state"}
                               /\ snaps[s].root \in Sites /\ snaps[s].gen \in 0 .. Len(generations)
    /\ \A g \in DOMAIN generations : /\ DOMAIN generations[g] = {"state", "files"}
                                     /\ ListedRows(generations[g].files)
WalkTyped ==
    /\ DOMAIN walk = {"todo", "gen", "left", "rows", "errors"}
    /\ walk.todo \subseteq DOMAIN snaps /\ walk.gen \in 0 .. Len(generations) /\ ListedRows(walk.rows)
    /\ walk.gen # NoGen => Building

\* A path that was there all through the walk is there now, and until the
\* discovery fails it is still to be taken or has a row.
NothingSkipped ==
    walk.gen # NoGen => /\ saw[walk.gen] \subseteq Present(Root)
                        /\ walk.errors = FALSE => saw[walk.gen] \subseteq walk.left \cup DOMAIN walk.rows

\* A published generation lists every path that was there all through its walk.
PublishedIsComplete ==
    \A s \in DOMAIN snaps :
        snaps[s].gen # NoGen => saw[snaps[s].gen] \subseteq DOMAIN generations[snaps[s].gen].files

TablesInv == TablesTyped /\ WalkTyped /\ NothingSkipped /\ PublishedIsComplete

RunsTyped ==
    /\ analysisRuns \in Nat
    /\ DOMAIN attempt = {"run", "engines"} /\ attempt.run \in 0 .. analysisRuns
    /\ DOMAIN attempt.engines \subseteq Engines
    /\ DOMAIN receipts = Engines
    /\ \A e \in Engines : DOMAIN receipts[e] = BackupFiles

\* A receipt without a hit stands for a scan that reported nothing.
Vouched(e, f) ==
    \/ receipts[e][f].file = Absent
    \/ /\ receipts[e][f].run \in 0 .. analysisRuns
       /\ \/ receipts[e][f].hit
          \/ <<e, f, receipts[e][f].file, receipts[e][f].run>> \in examined
ReceiptsAreTrue == \A e \in Engines : \A f \in BackupFiles : Vouched(e, f)

ScansInv == RunsTyped /\ ReceiptsAreTrue

BackupsInv == TablesInv /\ ScansInv

----------------------------------------------------------------------------
(* Sequences                                                               *)

\* The first of the backups still to be prepared.
LEMMA FirstOfMany ==
    ASSUME NEW T \in SUBSET Nat, T # {}
    PROVE  (CHOOSE s \in T : \A t \in T : s <= t) \in T
<1>1. PICK x \in T : \A y \in T : ~(<<y, x>> \in OpToRel(<, Nat))
  BY WFMin, NatLessThanWellFounded
<1>2. \A y \in T : x <= y
  <2> TAKE y \in T
  <2>1. ~(y < x)
    BY <1>1, LessThan, Zenon
  <2> QED  BY <2>1
<1> QED  BY <1>2

LEMMA CurrentListed ==
    ASSUME TablesInv, Building
    PROVE  /\ Current \in DOMAIN snaps /\ Current \in walk.todo /\ Root \in Sites
           /\ DOMAIN snaps = 1 .. Len(snaps) /\ Len(snaps) \in Nat
<1>1. Len(snaps) \in Nat /\ DOMAIN snaps = 1 .. Len(snaps)
  BY Sized DEF TablesInv, TablesTyped
<1>2. walk.todo \in SUBSET Nat /\ walk.todo # {} /\ walk.todo \subseteq DOMAIN snaps
  BY <1>1 DEF TablesInv, WalkTyped, Building
<1>3. Current \in walk.todo
  BY <1>2, FirstOfMany DEF Current
<1> QED  BY <1>1, <1>2, <1>3 DEF Root, TablesInv, TablesTyped

----------------------------------------------------------------------------
(* The tables of the backups                                               *)

LEMMA TablesStart == BInit => TablesInv
<1> SUFFICES ASSUME BInit PROVE TablesInv
  OBVIOUS
<1>1. snaps = <<>> /\ generations = <<>> /\ saw = <<>> /\ walk = NoBuild
  BY DEF BInit
<1>2. Sequence(<<>>) /\ Len(<<>>) = 0 /\ DOMAIN <<>> = {}
  BY DEF Sequence
<1>3. ListedRows(<<>>)
  BY <1>2 DEF ListedRows
<1>4. TablesTyped /\ PublishedIsComplete
  BY <1>1, <1>2 DEF TablesTyped, PublishedIsComplete
<1>5. WalkTyped /\ NothingSkipped
  BY <1>1, <1>2, <1>3 DEF WalkTyped, NothingSkipped, NoBuild, NoGen
<1> QED  BY <1>4, <1>5 DEF TablesInv

LEMMA TablesStand ==
    ASSUME TablesInv, UNCHANGED <<preserved, folder, backup>>
    PROVE  TablesInv'
<1>1. Present(Root)' = Present(Root)
  BY DEF Present, There, Root, Current, backup
<1>2. NothingSkipped'
  BY <1>1 DEF TablesInv, NothingSkipped, backup
<1> QED  BY <1>2 DEF TablesInv, TablesTyped, WalkTyped, PublishedIsComplete, Building, backup

LEMMA WorldTables ==
    ASSUME TablesInv, World
    PROVE  TablesInv'
<1>1. /\ UNCHANGED <<snaps, generations, comparing, walk>>
      /\ saw' = [g \in DOMAIN saw |-> IF walk.gen = g THEN saw[g] \cap Present(Root)' ELSE saw[g]]
  BY DEF World
<1>2. saw' = [g \in DOMAIN saw |-> saw'[g]]
  BY <1>1, Zenon
<1>3. Sequence(saw') /\ Len(saw') = Len(saw) /\ DOMAIN saw' = DOMAIN saw
  BY <1>2, Reindexed DEF TablesInv, TablesTyped
<1>4. \A g \in DOMAIN saw : saw'[g] \subseteq saw[g] /\ (walk.gen = g => saw'[g] \subseteq Present(Root)')
  BY <1>1
<1>5. TablesTyped' /\ WalkTyped'
  BY <1>1, <1>3 DEF TablesInv, TablesTyped, WalkTyped, Building
<1>6. /\ Len(generations) \in Nat /\ Len(saw) = Len(generations) /\ DOMAIN saw = 1 .. Len(saw)
  BY Sized DEF TablesInv, TablesTyped
<1>7. \A g \in 0 .. Len(generations) : g # NoGen => saw'[g] \subseteq saw[g]
  BY <1>4, <1>6 DEF NoGen
<1>8. PublishedIsComplete'
  BY <1>1, <1>7 DEF TablesInv, TablesTyped, PublishedIsComplete
<1>9. NothingSkipped'
  <2>1. walk.gen # NoGen => walk.gen \in DOMAIN saw
    BY <1>6 DEF TablesInv, WalkTyped, NoGen
  <2> QED  BY <1>1, <1>4, <2>1 DEF TablesInv, NothingSkipped
<1> QED  BY <1>5, <1>8, <1>9 DEF TablesInv

\* While no walk holds a generation, the backups may change as the request asks.
LEMMA NoWalk ==
    ASSUME TablesInv, comparing = "idle"
    PROVE  walk.gen = NoGen
BY DEF TablesInv, WalkTyped, Building

LEMMA AddSnapshotTables ==
    ASSUME TablesInv, NEW r \in Sites, AddSnapshot(r)
    PROVE  TablesInv'
<1>1. /\ comparing = "idle" /\ UNCHANGED <<generations, comparing, walk, saw>>
      /\ snaps' = Append(snaps, [root |-> r, gen |-> NoGen, state |-> "new"])
  BY DEF AddSnapshot, Idle
<1>2. walk.gen = NoGen
  BY <1>1, NoWalk
<1> DEFINE e == [root |-> r, gen |-> NoGen, state |-> "new"]
<1>3. DOMAIN e = {"root", "gen", "state"} /\ e.root = r /\ e.gen = NoGen
  OBVIOUS
<1>4. Len(snaps) \in Nat /\ DOMAIN snaps = 1 .. Len(snaps) /\ Len(generations) \in Nat
  BY Sized DEF TablesInv, TablesTyped
<1> HIDE DEF e
<1>5. /\ Sequence(snaps') /\ DOMAIN snaps' = 1 .. (Len(snaps) + 1) /\ snaps'[Len(snaps) + 1] = e
      /\ \A i \in DOMAIN snaps : snaps'[i] = snaps[i]
  BY <1>1, Appended DEF TablesInv, TablesTyped, e
<1>6. \A s \in DOMAIN snaps' : s \in DOMAIN snaps \/ snaps'[s] = e
  BY <1>4, <1>5
<1>7. TablesTyped'
  BY <1>1, <1>3, <1>4, <1>5, <1>6 DEF TablesInv, TablesTyped, NoGen
<1>8. WalkTyped' /\ NothingSkipped'
  BY <1>1, <1>2, <1>4, <1>5 DEF TablesInv, WalkTyped, NothingSkipped
<1>9. PublishedIsComplete'
  <2> SUFFICES ASSUME NEW s \in DOMAIN snaps', snaps'[s].gen # NoGen
               PROVE  saw[snaps'[s].gen] \subseteq DOMAIN generations[snaps'[s].gen].files
    BY <1>1 DEF PublishedIsComplete
  <2>1. s \in DOMAIN snaps /\ snaps'[s] = snaps[s]
    BY <1>3, <1>5, <1>6
  <2> QED  BY <2>1 DEF TablesInv, PublishedIsComplete
<1> QED  BY <1>7, <1>8, <1>9 DEF TablesInv

LEMMA MoveSnapshotTables ==
    ASSUME TablesInv, NEW r \in Sites, NEW s \in DOMAIN snaps, MoveSnapshot(s, r)
    PROVE  TablesInv'
<1>1. /\ comparing = "idle" /\ UNCHANGED <<generations, comparing, walk, saw>>
      /\ snaps[s].root # r /\ snaps' = [snaps EXCEPT ![s] = Moved(@, r)]
  BY DEF MoveSnapshot, Idle
<1>2. walk.gen = NoGen
  BY <1>1, NoWalk
<1>3. /\ DOMAIN snaps'[s] = {"root", "gen", "state"} /\ snaps'[s].root = r /\ snaps'[s].gen = NoGen
      /\ \A x \in DOMAIN snaps \ {s} : snaps'[x] = snaps[x]
      /\ snaps' = [x \in DOMAIN snaps |-> snaps'[x]]
  BY <1>1 DEF Moved
<1>4. Sequence(snaps') /\ DOMAIN snaps' = DOMAIN snaps
  BY <1>3, Reindexed DEF TablesInv, TablesTyped
<1>5. Len(generations) \in Nat
  BY Sized DEF TablesInv, TablesTyped
<1>6. TablesTyped'
  BY <1>1, <1>3, <1>4, <1>5 DEF TablesInv, TablesTyped, NoGen
<1>7. WalkTyped' /\ NothingSkipped'
  BY <1>1, <1>2, <1>4 DEF TablesInv, WalkTyped, NothingSkipped
<1>8. PublishedIsComplete'
  BY <1>1, <1>3, <1>4 DEF TablesInv, PublishedIsComplete
<1> QED  BY <1>6, <1>7, <1>8 DEF TablesInv

\* A walk without a generation has nothing to account for.
Bare(w) ==
    /\ DOMAIN w = {"todo", "gen", "left", "rows", "errors"}
    /\ w.todo \subseteq DOMAIN snaps /\ w.gen = NoGen /\ w.rows = <<>>

LEMMA BareWalks ==
    /\ Bare(NoBuild)
    /\ \A todo \in SUBSET DOMAIN snaps : Bare([NoBuild EXCEPT !.todo = todo])
BY DEF Bare, NoBuild

LEMMA BareWalk ==
    ASSUME TablesInv, Bare(walk'), UNCHANGED <<snaps, generations, saw>>
    PROVE  TablesInv'
<1>1. /\ DOMAIN walk' = {"todo", "gen", "left", "rows", "errors"} /\ walk'.todo \subseteq DOMAIN snaps
      /\ walk'.gen = NoGen /\ walk'.rows = <<>>
  BY DEF Bare
<1>2. ListedRows(<<>>)
  <2>1. DOMAIN <<>> = {}
    OBVIOUS
  <2> QED  BY <2>1 DEF ListedRows
<1>3. Len(generations) \in Nat
  BY Sized DEF TablesInv, TablesTyped
<1>4. WalkTyped' /\ NothingSkipped'
  BY <1>1, <1>2, <1>3 DEF WalkTyped, NothingSkipped, NoGen
<1> QED  BY <1>4 DEF TablesInv, TablesTyped, PublishedIsComplete

LEMMA PrepareTables ==
    ASSUME TablesInv, NEW ids \in SUBSET DOMAIN snaps, PrepareSnapshots(ids)
    PROVE  TablesInv'
<1> DEFINE there == {s \in ids : Available(s)}
<1>1. there \in SUBSET DOMAIN snaps
  OBVIOUS
<1>2. walk' = [NoBuild EXCEPT !.todo = there] /\ UNCHANGED <<snaps, generations, saw>>
  BY DEF PrepareSnapshots
<1> HIDE DEF there
<1>3. Bare(walk')
  BY <1>1, <1>2, BareWalks
<1> QED  BY <1>2, <1>3, BareWalk

LEMMA JobEndsTables ==
    ASSUME TablesInv, JobEnds
    PROVE  TablesInv'
<1>1. Bare(walk') /\ UNCHANGED <<snaps, generations, saw>>
  BY BareWalks DEF JobEnds
<1> QED  BY <1>1, BareWalk

LEMMA OpenGenerationTables ==
    ASSUME TablesInv, OpenGeneration
    PROVE  TablesInv'
<1> DEFINE opened == [state |-> "building", files |-> <<>>]
           n == Len(generations) + 1
           c == Current
           seen == Present(Root)
<1>1. /\ Building /\ walk.gen = NoGen /\ UNCHANGED <<preserved, folder, comparing>>
      /\ generations' = Append(generations, opened)
      /\ snaps' = [snaps EXCEPT ![c].state = "indexing"]
      /\ walk' = [walk EXCEPT !.gen = Len(generations'), !.left = Paths]
      /\ saw' = Append(saw, seen)
  BY DEF OpenGeneration, world
<1>2. /\ Len(generations) \in Nat /\ DOMAIN generations = 1 .. Len(generations)
      /\ DOMAIN saw = 1 .. Len(generations) /\ Len(saw) = Len(generations)
  BY Sized DEF TablesInv, TablesTyped
<1>3. c \in DOMAIN snaps /\ c \in walk.todo
  BY <1>1, CurrentListed
<1>4. /\ \A s \in DOMAIN snaps : /\ DOMAIN snaps'[s] = {"root", "gen", "state"}
                                 /\ snaps'[s].root = snaps[s].root /\ snaps'[s].gen = snaps[s].gen
      /\ snaps' = [s \in DOMAIN snaps |-> snaps'[s]]
  BY <1>1, <1>3 DEF TablesInv, TablesTyped
<1>5. Sequence(snaps') /\ DOMAIN snaps' = DOMAIN snaps
  BY <1>4, Reindexed DEF TablesInv, TablesTyped
<1>6. DOMAIN opened = {"state", "files"} /\ ListedRows(opened.files)
  <2>1. DOMAIN <<>> = {}
    OBVIOUS
  <2> QED  BY <2>1 DEF ListedRows
<1> HIDE DEF opened, seen
<1>7. /\ Sequence(generations') /\ Len(generations') = n /\ DOMAIN generations' = 1 .. n
      /\ generations'[n] = opened /\ \A g \in DOMAIN generations : generations'[g] = generations[g]
  BY <1>1, Appended DEF TablesInv, TablesTyped
<1>8. /\ Sequence(saw') /\ Len(saw') = n /\ saw'[n] = seen
      /\ \A g \in DOMAIN generations : saw'[g] = saw[g]
  BY <1>1, <1>2, Appended DEF TablesInv, TablesTyped
<1>9. /\ DOMAIN walk' = DOMAIN walk /\ walk'.todo = walk.todo /\ walk'.gen = n
      /\ walk'.left = Paths /\ walk'.rows = walk.rows /\ walk'.errors = walk.errors
  BY <1>1, <1>7 DEF TablesInv, WalkTyped
<1>10. n \in Nat /\ n # NoGen /\ \A g \in DOMAIN generations' : g \in DOMAIN generations \/ g = n
  BY <1>2, <1>7 DEF NoGen
<1>11. TablesTyped'
  <2>1. \A s \in DOMAIN snaps' : /\ DOMAIN snaps'[s] = {"root", "gen", "state"}
                                 /\ snaps'[s].root \in Sites /\ snaps'[s].gen \in 0 .. Len(generations')
    BY <1>2, <1>4, <1>5, <1>7 DEF TablesInv, TablesTyped
  <2>2. \A g \in DOMAIN generations' : /\ DOMAIN generations'[g] = {"state", "files"}
                                       /\ ListedRows(generations'[g].files)
    BY <1>6, <1>7, <1>10 DEF TablesInv, TablesTyped
  <2> QED  BY <1>5, <1>7, <1>8, <2>1, <2>2 DEF TablesTyped
<1>12. WalkTyped'
  BY <1>1, <1>2, <1>5, <1>7, <1>9, <1>10 DEF TablesInv, WalkTyped, Building
<1>13. NothingSkipped'
  <2>1. Present(Root)' = seen
    BY <1>1, <1>3, <1>4, <1>9 DEF seen, Present, There, Root, Current
  <2>2. seen \subseteq Paths
    BY DEF seen, Present
  <2> QED  BY <1>8, <1>9, <2>1, <2>2 DEF NothingSkipped
<1>14. PublishedIsComplete'
  <2> SUFFICES ASSUME NEW s \in DOMAIN snaps, snaps[s].gen # NoGen
               PROVE  saw'[snaps[s].gen] \subseteq DOMAIN generations'[snaps[s].gen].files
    BY <1>4, <1>5 DEF PublishedIsComplete
  <2>1. snaps[s].gen \in DOMAIN generations
    BY <1>2 DEF TablesInv, TablesTyped, NoGen
  <2> QED  BY <1>7, <1>8, <2>1 DEF TablesInv, PublishedIsComplete
<1> QED  BY <1>11, <1>12, <1>13, <1>14 DEF TablesInv

LEMMA ListFailsTables ==
    ASSUME TablesInv, ListFails
    PROVE  TablesInv'
<1>1. /\ walk' = [walk EXCEPT !.left = {}, !.errors = TRUE]
      /\ UNCHANGED <<preserved, folder, snaps, generations, comparing, saw>>
  BY DEF ListFails, world
<1>2. /\ DOMAIN walk' = DOMAIN walk /\ walk'.todo = walk.todo /\ walk'.gen = walk.gen
      /\ walk'.rows = walk.rows /\ walk'.errors # FALSE
  BY <1>1 DEF TablesInv, WalkTyped
<1>3. Present(Root)' = Present(Root)
  BY <1>1, <1>2 DEF Present, There, Root, Current
<1>4. NothingSkipped'
  BY <1>1, <1>2, <1>3 DEF TablesInv, NothingSkipped
<1> QED  BY <1>1, <1>2, <1>4 DEF TablesInv, TablesTyped, WalkTyped, PublishedIsComplete, Building

LEMMA IndexFileTables ==
    ASSUME TablesInv, NEW p \in Paths, IndexFile(p)
    PROVE  TablesInv'
<1> DEFINE f == <<Root, p>>
           added(row) == [q \in DOMAIN walk.rows \cup {p} |-> IF q = p THEN row ELSE walk.rows[q]]
<1>1. UNCHANGED <<preserved, folder, snaps, generations, comparing, saw>>
  BY DEF IndexFile, world
<1>2. PICK row \in {OnDisk(f), [c |-> Unhashed, v |-> 0]} :
          walk' = [walk EXCEPT !.left = @ \ {p}, !.rows = IF There(f) THEN added(row) ELSE @]
  BY DEF IndexFile
<1>3. /\ DOMAIN walk' = DOMAIN walk /\ walk'.todo = walk.todo /\ walk'.gen = walk.gen
      /\ walk'.left = walk.left \ {p} /\ walk'.errors = walk.errors
      /\ walk'.rows = IF There(f) THEN added(row) ELSE walk.rows
  BY <1>2 DEF TablesInv, WalkTyped
<1>4. ListedRows(walk'.rows) /\ DOMAIN walk.rows \subseteq DOMAIN walk'.rows
      /\ (There(f) => p \in DOMAIN walk'.rows)
  <2>1. ListedRows(walk.rows)
    BY DEF TablesInv, WalkTyped
  <2>2. CASE ~There(f)
    BY <1>3, <2>1, <2>2
  <2>3. CASE There(f)
    <3>1. row # Absent
      <4>1. CASE row = OnDisk(f)
        <5>1. row = preserved[Root][p] /\ preserved[Root][p] # Absent
          BY <2>3, <4>1 DEF OnDisk, There
        <5> QED  BY <5>1
      <4>2. CASE row = [c |-> Unhashed, v |-> 0]
        BY <4>2 DEF Absent, Unhashed
      <4> QED  BY <1>2, <4>1, <4>2
    <3>2. walk'.rows = added(row)
      BY <1>3, <2>3
    <3> QED  BY <2>1, <3>1, <3>2 DEF ListedRows
  <2> QED  BY <2>2, <2>3
<1>5. Present(Root)' = Present(Root)
  BY <1>1, <1>3 DEF Present, There, Root, Current
<1>6. There(f) <=> p \in Present(Root)
  BY DEF Present
<1>7. NothingSkipped'
  <2> SUFFICES ASSUME walk.gen # NoGen
               PROVE  /\ saw[walk.gen] \subseteq Present(Root)
                      /\ walk.errors = FALSE => saw[walk.gen] \subseteq walk'.left \cup DOMAIN walk'.rows
    BY <1>1, <1>3, <1>5 DEF NothingSkipped
  <2>1. /\ saw[walk.gen] \subseteq Present(Root)
        /\ walk.errors = FALSE => saw[walk.gen] \subseteq walk.left \cup DOMAIN walk.rows
    BY DEF TablesInv, NothingSkipped
  <2> HIDE DEF f, added
  <2> QED  BY <1>3, <1>4, <1>6, <2>1
<1> HIDE DEF f, added
<1> QED  BY <1>1, <1>3, <1>4, <1>7 DEF TablesInv, TablesTyped, WalkTyped, PublishedIsComplete, Building

LEMMA PublishGenerationTables ==
    ASSUME TablesInv, PublishGeneration
    PROVE  TablesInv'
<1> DEFINE c == Current
           g == walk.gen
           rows == walk.rows
           todo == walk.todo \ {c}
<1>1. /\ Building /\ g # NoGen /\ walk.left = {} /\ ~walk.errors
      /\ UNCHANGED <<preserved, folder, comparing, saw>> /\ walk' = [NoBuild EXCEPT !.todo = todo]
  BY DEF PublishGeneration, Complete, Done, world
<1>2. PICK state : /\ generations' = [generations EXCEPT ![g] = [state |-> state, files |-> rows]]
                   /\ snaps' = [snaps EXCEPT ![c] = [@ EXCEPT !.gen = g, !.state = state]]
  BY DEF PublishGeneration
<1>3. c \in DOMAIN snaps
  BY <1>1, CurrentListed
<1>4. Len(generations) \in Nat /\ DOMAIN generations = 1 .. Len(generations) /\ g \in DOMAIN generations
  BY <1>1, Sized DEF TablesInv, TablesTyped, WalkTyped, NoGen
<1>5. /\ generations' = [x \in DOMAIN generations |-> generations'[x]]
      /\ generations'[g] = [state |-> state, files |-> rows]
      /\ \A x \in DOMAIN generations \ {g} : generations'[x] = generations[x]
  BY <1>2, <1>4
<1>6. Sequence(generations') /\ Len(generations') = Len(generations) /\ DOMAIN generations' = DOMAIN generations
  BY <1>5, Reindexed DEF TablesInv, TablesTyped
<1>7. /\ snaps' = [s \in DOMAIN snaps |-> snaps'[s]]
      /\ DOMAIN snaps'[c] = {"root", "gen", "state"} /\ snaps'[c].root = snaps[c].root /\ snaps'[c].gen = g
      /\ \A s \in DOMAIN snaps \ {c} : snaps'[s] = snaps[s]
  BY <1>2, <1>3 DEF TablesInv, TablesTyped
<1>8. Sequence(snaps') /\ DOMAIN snaps' = DOMAIN snaps
  BY <1>7, Reindexed DEF TablesInv, TablesTyped
<1>9. ListedRows(rows) /\ saw[g] \subseteq DOMAIN rows
  <2>1. walk.errors = FALSE => saw[g] \subseteq walk.left \cup DOMAIN rows
    BY <1>1 DEF TablesInv, NothingSkipped
  <2>2. saw[g] \subseteq DOMAIN rows
    BY <1>1, <2>1
  <2> QED  BY <2>2 DEF TablesInv, WalkTyped
<1>10. /\ DOMAIN walk' = {"todo", "gen", "left", "rows", "errors"} /\ walk'.todo = todo
       /\ walk'.gen = NoGen /\ walk'.rows = <<>>
  BY <1>1 DEF NoBuild
<1>11. TablesTyped'
  <2>1. \A x \in DOMAIN generations' : /\ DOMAIN generations'[x] = {"state", "files"}
                                       /\ ListedRows(generations'[x].files)
    <3> TAKE x \in DOMAIN generations'
    <3>1. CASE x = g
      BY <1>5, <1>9, <3>1
    <3>2. CASE x # g
      BY <1>5, <1>6, <3>2 DEF TablesInv, TablesTyped
    <3> QED  BY <3>1, <3>2
  <2>2. \A s \in DOMAIN snaps' : /\ DOMAIN snaps'[s] = {"root", "gen", "state"}
                                 /\ snaps'[s].root \in Sites /\ snaps'[s].gen \in 0 .. Len(generations')
    <3> TAKE s \in DOMAIN snaps'
    <3>1. CASE s = c
      BY <1>3, <1>4, <1>6, <1>7, <3>1 DEF TablesInv, TablesTyped
    <3>2. CASE s # c
      BY <1>6, <1>7, <1>8, <3>2 DEF TablesInv, TablesTyped
    <3> QED  BY <3>1, <3>2
  <2> HIDE DEF g, c, rows, todo
  <2> QED  BY <1>1, <1>6, <1>8, <2>1, <2>2 DEF TablesInv, TablesTyped
<1>12. WalkTyped' /\ NothingSkipped'
  <2>1. ListedRows(<<>>)
    <3>1. DOMAIN <<>> = {}
      OBVIOUS
    <3> QED  BY <3>1 DEF ListedRows
  <2>2. NoGen \in 0 .. Len(generations')
    BY <1>4, <1>6 DEF NoGen
  <2> QED  BY <1>8, <1>10, <2>1, <2>2 DEF TablesInv, WalkTyped, NothingSkipped
<1>13. PublishedIsComplete'
  <2> SUFFICES ASSUME NEW s \in DOMAIN snaps, snaps'[s].gen # NoGen
               PROVE  saw[snaps'[s].gen] \subseteq DOMAIN generations'[snaps'[s].gen].files
    BY <1>1, <1>8 DEF PublishedIsComplete
  <2>1. CASE snaps'[s].gen = g
    BY <1>5, <1>9, <2>1
  <2>2. CASE snaps'[s].gen # g
    <3>1. snaps'[s] = snaps[s] /\ snaps[s].gen \in DOMAIN generations
      BY <1>4, <1>7, <2>2 DEF TablesInv, TablesTyped, NoGen
    <3> QED  BY <1>5, <2>2, <3>1 DEF TablesInv, PublishedIsComplete
  <2> QED  BY <2>1, <2>2
<1> QED  BY <1>11, <1>12, <1>13 DEF TablesInv

\* The states of the tables change, and the walk goes on without a generation.
LEMMA Restated ==
    ASSUME TablesInv, UNCHANGED saw, Bare(walk'),
           snaps' = [s \in DOMAIN snaps |-> snaps'[s]],
           \A s \in DOMAIN snaps : /\ DOMAIN snaps'[s] = {"root", "gen", "state"}
                                   /\ snaps'[s].root = snaps[s].root /\ snaps'[s].gen = snaps[s].gen,
           generations' = [g \in DOMAIN generations |-> generations'[g]],
           \A g \in DOMAIN generations : /\ DOMAIN generations'[g] = {"state", "files"}
                                         /\ generations'[g].files = generations[g].files
    PROVE  TablesInv'
<1>1. Len(generations) \in Nat /\ DOMAIN generations = 1 .. Len(generations)
  BY Sized DEF TablesInv, TablesTyped
<1>2. /\ Sequence(generations') /\ Len(generations') = Len(generations) /\ DOMAIN generations' = DOMAIN generations
      /\ Sequence(snaps') /\ DOMAIN snaps' = DOMAIN snaps
  BY Reindexed DEF TablesInv, TablesTyped
<1>3. TablesTyped'
  BY <1>2 DEF TablesInv, TablesTyped
<1>4. /\ DOMAIN walk' = {"todo", "gen", "left", "rows", "errors"} /\ walk'.todo \subseteq DOMAIN snaps
      /\ walk'.gen = NoGen /\ walk'.rows = <<>>
  BY DEF Bare
<1>5. ListedRows(<<>>)
  <2>1. DOMAIN <<>> = {}
    OBVIOUS
  <2> QED  BY <2>1 DEF ListedRows
<1>6. WalkTyped' /\ NothingSkipped'
  BY <1>1, <1>2, <1>4, <1>5 DEF WalkTyped, NothingSkipped, NoGen
<1>7. PublishedIsComplete'
  <2> SUFFICES ASSUME NEW s \in DOMAIN snaps, snaps[s].gen # NoGen
               PROVE  saw[snaps[s].gen] \subseteq DOMAIN generations'[snaps[s].gen].files
    BY <1>2 DEF PublishedIsComplete
  <2>1. snaps[s].gen \in DOMAIN generations
    BY <1>1 DEF TablesInv, TablesTyped, NoGen
  <2> QED  BY <2>1 DEF TablesInv, PublishedIsComplete
<1> QED  BY <1>3, <1>6, <1>7 DEF TablesInv

LEMMA GiveUpTables ==
    ASSUME TablesInv, GiveUp
    PROVE  TablesInv'
<1>1. /\ Building /\ walk.gen # NoGen /\ UNCHANGED saw
      /\ snaps' = [snaps EXCEPT ![Current].state = "stale"]
      /\ generations' = [generations EXCEPT ![walk.gen].state = "failed"]
  BY DEF GiveUp, Failed
<1>2. Bare(walk')
  <2>1. walk' = [NoBuild EXCEPT !.todo = walk.todo \ {Current}] \/ walk' = NoBuild
    BY DEF GiveUp, Done
  <2>2. walk.todo \ {Current} \in SUBSET DOMAIN snaps
    BY DEF TablesInv, WalkTyped
  <2> QED  BY <2>1, <2>2, BareWalks
<1>3. Current \in DOMAIN snaps
  BY <1>1, CurrentListed
<1>4. walk.gen \in DOMAIN generations
  BY <1>1, Sized DEF TablesInv, TablesTyped, WalkTyped, NoGen
<1>5. /\ snaps' = [s \in DOMAIN snaps |-> snaps'[s]]
      /\ \A s \in DOMAIN snaps : /\ DOMAIN snaps'[s] = {"root", "gen", "state"}
                                 /\ snaps'[s].root = snaps[s].root /\ snaps'[s].gen = snaps[s].gen
  BY <1>1, <1>3 DEF TablesInv, TablesTyped
<1>6. /\ generations' = [g \in DOMAIN generations |-> generations'[g]]
      /\ \A g \in DOMAIN generations : /\ DOMAIN generations'[g] = {"state", "files"}
                                       /\ generations'[g].files = generations[g].files
  BY <1>1, <1>4 DEF TablesInv, TablesTyped
<1> QED  BY <1>1, <1>2, <1>5, <1>6, Restated

LEMMA CrashTables ==
    ASSUME TablesInv, CrashAndRecover
    PROVE  TablesInv'
<1>1. /\ UNCHANGED saw /\ walk' = NoBuild
      /\ snaps' = [s \in DOMAIN snaps |->
                     IF snaps[s].state = "indexing"
                     THEN [snaps[s] EXCEPT !.state = "stale"] ELSE snaps[s]]
      /\ generations' = [g \in DOMAIN generations |->
                     IF generations[g].state = "building"
                     THEN [generations[g] EXCEPT !.state = "failed"] ELSE generations[g]]
  BY DEF CrashAndRecover
<1>2. /\ snaps' = [s \in DOMAIN snaps |-> snaps'[s]]
      /\ \A s \in DOMAIN snaps : /\ DOMAIN snaps'[s] = {"root", "gen", "state"}
                                 /\ snaps'[s].root = snaps[s].root /\ snaps'[s].gen = snaps[s].gen
  BY <1>1 DEF TablesInv, TablesTyped
<1>3. /\ generations' = [g \in DOMAIN generations |-> generations'[g]]
      /\ \A g \in DOMAIN generations : /\ DOMAIN generations'[g] = {"state", "files"}
                                       /\ generations'[g].files = generations[g].files
  BY <1>1 DEF TablesInv, TablesTyped
<1>4. Bare(walk')
  BY <1>1, BareWalks
<1> QED  BY <1>1, <1>2, <1>3, <1>4, Restated

----------------------------------------------------------------------------
(* The receipts                                                            *)

LEMMA ScansStart == BInit => ScansInv
<1> SUFFICES ASSUME BInit PROVE ScansInv
  OBVIOUS
<1>1. DOMAIN <<>> = {}
  OBVIOUS
<1>2. /\ analysisRuns = 0 /\ attempt = [run |-> 0, engines |-> <<>>]
      /\ receipts = [e \in Engines |-> [f \in BackupFiles |-> NoReceipt]]
  BY DEF BInit
<1>3. \A e \in Engines : \A f \in BackupFiles : receipts[e][f].file = Absent
  BY <1>2 DEF NoReceipt
<1> QED  BY <1>1, <1>2, <1>3 DEF ScansInv, RunsTyped, ReceiptsAreTrue, Vouched

LEMMA ScansStand ==
    ASSUME ScansInv, UNCHANGED scan
    PROVE  ScansInv'
BY DEF ScansInv, RunsTyped, ReceiptsAreTrue, Vouched, scan

LEMMA ReregisterScans ==
    ASSUME ScansInv, Reregister
    PROVE  ScansInv'
<1>1. /\ attempt' = [run |-> 0, engines |-> <<>>] /\ UNCHANGED <<analysisRuns, receipts, examined>>
  BY DEF Reregister
<1>2. DOMAIN <<>> = {}
  OBVIOUS
<1>3. RunsTyped'
  BY <1>1, <1>2 DEF ScansInv, RunsTyped
<1> QED  BY <1>1, <1>3 DEF ScansInv, ReceiptsAreTrue, Vouched

LEMMA RunScans ==
    ASSUME ScansInv, Run
    PROVE  ScansInv'
<1>1. /\ analysisRuns' = analysisRuns + 1 /\ UNCHANGED <<receipts, examined>>
      /\ attempt' = [run |-> analysisRuns + 1, engines |-> [e \in Engines |-> "running"]]
  BY DEF Run
<1>2. RunsTyped'
  BY <1>1 DEF ScansInv, RunsTyped
<1>3. analysisRuns \in Nat
  BY DEF ScansInv, RunsTyped
<1>4. 0 .. analysisRuns \subseteq 0 .. analysisRuns'
  BY <1>1, <1>3
<1>5. ReceiptsAreTrue'
  BY <1>1, <1>4 DEF ScansInv, ReceiptsAreTrue, Vouched
<1> QED  BY <1>2, <1>5 DEF ScansInv

\* The receipt of one file is replaced; no other receipt, and no look it stands
\* for, is lost.
LEMMA OneReceipt ==
    ASSUME ScansInv, NEW e \in Engines, NEW f \in BackupFiles, NEW r,
           receipts' = [receipts EXCEPT ![e][f] = r],
           \A x \in examined : x \in examined' \/ (x[1] = e /\ x[2] = f),
           \/ r.file = Absent
           \/ /\ r.run \in 0 .. analysisRuns
              /\ r.hit \/ <<e, f, r.file, r.run>> \in examined',
           UNCHANGED <<analysisRuns, attempt>>
    PROVE  ScansInv'
<1>1. /\ DOMAIN receipts' = Engines /\ receipts'[e][f] = r
      /\ \A e2 \in Engines : DOMAIN receipts'[e2] = BackupFiles
      /\ \A e2 \in Engines, f2 \in BackupFiles : e2 # e \/ f2 # f => receipts'[e2][f2] = receipts[e2][f2]
  BY DEF ScansInv, RunsTyped
<1>2. RunsTyped'
  BY <1>1 DEF ScansInv, RunsTyped
<1>3. ASSUME NEW e2 \in Engines, NEW f2 \in BackupFiles
      PROVE  Vouched(e2, f2)'
  <2>1. CASE e2 = e /\ f2 = f
    BY <1>1, <2>1 DEF Vouched
  <2>2. CASE e2 # e \/ f2 # f
    <3> DEFINE q == receipts[e2][f2]
               x == <<e2, f2, q.file, q.run>>
    <3>1. receipts'[e2][f2] = q /\ Vouched(e2, f2)
      BY <1>1, <2>2 DEF ScansInv, ReceiptsAreTrue
    <3>2. x \in examined => x \in examined'
      <4>1. x[1] = e2 /\ x[2] = f2
        OBVIOUS
      <4> QED  BY <2>2, <4>1
    <3> QED  BY <3>1, <3>2 DEF Vouched
  <2> QED  BY <2>1, <2>2
<1> QED  BY <1>2, <1>3 DEF ScansInv, ReceiptsAreTrue

LEMMA VerdictScans ==
    ASSUME ScansInv, NEW e \in Engines, NEW f \in BackupFiles, ScanVerdict(e, f),
           UNCHANGED <<analysisRuns, attempt>>
    PROVE  ScansInv'
<1> DEFINE look == <<e, f, OnDisk(f), attempt.run>>
           r == [file |-> OnDisk(f), run |-> attempt.run, hit |-> <<e, OnDisk(f).c>> \in Detects]
<1>1. receipts' = [receipts EXCEPT ![e][f] = r]
  BY DEF ScanVerdict
<1>2. r.file = OnDisk(f) /\ r.run = attempt.run /\ (r.hit <=> <<e, OnDisk(f).c>> \in Detects)
  OBVIOUS
<1>3. attempt.run \in 0 .. analysisRuns
  BY DEF ScansInv, RunsTyped
<1>4. CASE <<e, OnDisk(f).c>> \in Detects
  <2>1. examined' = {x \in examined : x[1] # e \/ x[2] # f}
    BY <1>4 DEF ScanVerdict
  <2> HIDE DEF r
  <2> QED  BY <1>1, <1>2, <1>3, <1>4, <2>1, OneReceipt
<1>5. CASE <<e, OnDisk(f).c>> \notin Detects
  <2>1. examined' = examined \cup {look}
    BY <1>5 DEF ScanVerdict
  <2>2. <<e, f, r.file, r.run>> \in examined'
    BY <1>2, <2>1
  <2> HIDE DEF r
  <2> QED  BY <1>1, <1>2, <1>3, <2>1, <2>2, OneReceipt
<1> QED  BY <1>4, <1>5

LEMMA ScanFileScans ==
    ASSUME ScansInv, NEW e \in Engines, NEW f \in BackupFiles, ScanFile(e, f)
    PROVE  ScansInv'
<1>1. UNCHANGED <<analysisRuns, attempt>>
  BY DEF ScanFile
<1>2. CASE ScanVerdict(e, f)
  BY <1>1, <1>2, VerdictScans
<1>3. CASE receipts' = [receipts EXCEPT ![e][f] = NoReceipt] /\ UNCHANGED examined
  <2>1. NoReceipt.file = Absent
    BY DEF NoReceipt
  <2> QED  BY <1>1, <1>3, <2>1, OneReceipt
<1> QED  BY <1>2, <1>3 DEF ScanFile

LEMMA EndScanScans ==
    ASSUME ScansInv, NEW e \in Engines, EndScan(e)
    PROVE  ScansInv'
<1>1. UNCHANGED <<analysisRuns, receipts, examined>>
  BY DEF EndScan
<1>2. PICK o : attempt' = [attempt EXCEPT !.engines[e] = o]
  BY DEF EndScan
<1>3. DOMAIN attempt' = DOMAIN attempt /\ attempt'.run = attempt.run
      /\ DOMAIN attempt'.engines = DOMAIN attempt.engines
  BY <1>2 DEF ScansInv, RunsTyped
<1> QED  BY <1>1, <1>3 DEF ScansInv, RunsTyped, ReceiptsAreTrue, Vouched

LEMMA RetryScans ==
    ASSUME ScansInv, NEW e \in Engines, NEW f \in BackupFiles, Retry(e, f)
    PROVE  ScansInv'
BY VerdictScans DEF Retry

----------------------------------------------------------------------------
(* What the invariant says                                                 *)

LEMMA AbsentWasGone == TablesInv => AbsenceIsHonest
<1> SUFFICES ASSUME TablesInv, NEW s \in DOMAIN snaps, NEW p \in Paths, Status(s, p) = "not_present"
             PROVE  p \notin saw[snaps[s].gen]
  BY DEF AbsenceIsHonest
<1>1. p \notin DOMAIN FilesOf(s) /\ snaps[s].gen # NoGen
  BY DEF Status
<1>2. FilesOf(s) = generations[snaps[s].gen].files
  BY <1>1 DEF FilesOf
<1> QED  BY <1>1, <1>2 DEF TablesInv, PublishedIsComplete

LEMMA CleanWasExamined == BackupsInv => CleanMeansExamined
<1> SUFFICES ASSUME BackupsInv, NEW s \in DOMAIN snaps, NEW p \in DOMAIN FilesOf(s),
                    ScanState(s, p) = "no_detections", NEW e \in Required
             PROVE  \E n \in 0 .. analysisRuns :
                       /\ <<e, <<snaps[s].root, p>>, OnDisk(<<snaps[s].root, p>>), n>> \in examined
                       /\ attempt.run \in {0, n}
  BY DEF CleanMeansExamined
<1> DEFINE f == <<snaps[s].root, p>>
           r == receipts[e][f]
<1>1. /\ ~Stale(s, p) /\ e \in Required /\ Bound(e, f, FilesOf(s)[p]) /\ ~r.hit
  BY DEF ScanState
<1>2. /\ DOMAIN generations[snaps[s].gen] = {"state", "files"} /\ FilesOf(s) = generations[snaps[s].gen].files
      /\ ListedRows(FilesOf(s)) /\ snaps[s].root \in Sites
  <2>1. DOMAIN <<>> = {}
    OBVIOUS
  <2>2. FilesOf(s) = generations[snaps[s].gen].files /\ snaps[s].gen # NoGen
    BY <2>1 DEF FilesOf
  <2>3. snaps[s].gen \in DOMAIN generations /\ snaps[s].root \in Sites
    BY <2>2, Sized DEF BackupsInv, TablesInv, TablesTyped, NoGen
  <2> QED  BY <2>2, <2>3 DEF BackupsInv, TablesInv, TablesTyped
<1>3. f \in BackupFiles /\ FilesOf(s)[p] # Absent
  BY <1>2 DEF ListedRows, BackupFiles
<1>4. OnDisk(f) = FilesOf(s)[p]
  BY <1>1 DEF Stale
<1>5. r.file = OnDisk(f) /\ (attempt.run = 0 \/ r.run = attempt.run)
  BY <1>1, <1>4 DEF Bound
<1>6. e \in Engines
  BY DEF Required, BackupsInv, ScansInv, RunsTyped
<1>7. r.run \in 0 .. analysisRuns /\ <<e, f, r.file, r.run>> \in examined
  BY <1>1, <1>3, <1>4, <1>5, <1>6 DEF BackupsInv, ScansInv, ReceiptsAreTrue, Vouched
<1> HIDE DEF f, r
<1> QED  BY <1>5, <1>7 DEF f

----------------------------------------------------------------------------
LEMMA BackupsStep == BackupsInv /\ [BNext]_bvars => BackupsInv'
<1> SUFFICES ASSUME TablesInv, ScansInv, [BNext]_bvars
             PROVE  TablesInv' /\ ScansInv'
  BY DEF BackupsInv
<1>1. CASE UNCHANGED bvars
  BY <1>1, TablesStand, ScansStand DEF bvars, backup, world
<1>2. CASE World
  BY <1>2, WorldTables, ScansStand DEF World
<1>3. ASSUME NEW r \in Sites, AddSnapshot(r) PROVE TablesInv' /\ ScansInv'
  BY <1>3, AddSnapshotTables, ScansStand DEF AddSnapshot
<1>4. ASSUME NEW r \in Sites, NEW s \in DOMAIN snaps, MoveSnapshot(s, r)
      PROVE  TablesInv' /\ ScansInv'
  BY <1>4, MoveSnapshotTables, ScansStand DEF MoveSnapshot
<1>5. CASE Reregister
  <2>1. UNCHANGED <<preserved, folder, backup>>
    BY <1>5 DEF Reregister
  <2> QED  BY <1>5, <2>1, TablesStand, ReregisterScans
<1>6. ASSUME NEW ids \in SUBSET DOMAIN snaps, PrepareSnapshots(ids) PROVE TablesInv' /\ ScansInv'
  BY <1>6, PrepareTables, ScansStand DEF PrepareSnapshots
<1>7. CASE OpenGeneration
  BY <1>7, OpenGenerationTables, ScansStand DEF OpenGeneration
<1>8. CASE ListFails
  BY <1>8, ListFailsTables, ScansStand DEF ListFails
<1>9. CASE PublishGeneration
  BY <1>9, PublishGenerationTables, ScansStand DEF PublishGeneration
<1>10. CASE GiveUp
  BY <1>10, GiveUpTables, ScansStand DEF GiveUp
<1>11. CASE JobEnds
  BY <1>11, JobEndsTables, ScansStand DEF JobEnds
<1>12. ASSUME NEW p \in Paths, IndexFile(p) PROVE TablesInv' /\ ScansInv'
  BY <1>12, IndexFileTables, ScansStand DEF IndexFile
<1>13. CASE CrashAndRecover
  BY <1>13, CrashTables, ScansStand DEF CrashAndRecover
<1>14. CASE Run
  <2>1. UNCHANGED <<preserved, folder, backup>>
    BY <1>14 DEF Run, world
  <2> QED  BY <1>14, <2>1, TablesStand, RunScans
<1>15. ASSUME NEW e \in Engines, EndScan(e) PROVE TablesInv' /\ ScansInv'
  <2>1. UNCHANGED <<preserved, folder, backup>>
    BY <1>15 DEF EndScan, world
  <2> QED  BY <1>15, <2>1, TablesStand, EndScanScans
<1>16. ASSUME NEW e \in Engines, NEW f \in BackupFiles, ScanFile(e, f) \/ Retry(e, f)
       PROVE  TablesInv' /\ ScansInv'
  <2>1. UNCHANGED <<preserved, folder, backup>>
    BY <1>16 DEF ScanFile, Retry, world
  <2> QED  BY <1>16, <2>1, TablesStand, ScanFileScans, RetryScans
<1>17. ASSUME NEW l \in DOMAIN snaps, NEW r \in DOMAIN snaps, NEW p \in Paths, OpenDiff(l, r, p)
       PROVE  TablesInv' /\ ScansInv'
  BY <1>17, TablesStand, ScansStand DEF OpenDiff, world
<1>18. CASE DiffHash \/ DiffLines
  BY <1>18, TablesStand, ScansStand DEF DiffHash, DiffLines, world
<1> QED
  BY <1>1, <1>2, <1>3, <1>4, <1>5, <1>6, <1>7, <1>8, <1>9, <1>10, <1>11, <1>12, <1>13, <1>14,
     <1>15, <1>16, <1>17, <1>18 DEF BNext

THEOREM BackupsInvariant == BSpec => []BackupsInv
<1>1. BInit => BackupsInv
  BY TablesStart, ScansStart DEF BackupsInv
<1> QED  BY <1>1, BackupsStep, PTL DEF BSpec

THEOREM AbsenceHonest == BSpec => []AbsenceIsHonest
<1>1. BackupsInv => AbsenceIsHonest
  BY AbsentWasGone DEF BackupsInv
<1> QED  BY <1>1, BackupsInvariant, PTL

THEOREM CleanExamined == BSpec => []CleanMeansExamined
BY BackupsInvariant, CleanWasExamined, PTL

(***************************************************************************)
(* Chronology: the events of the case and what may be selected of them.    *)
(*                                                                         *)
(* The argument: between its removal and the next one the index is the     *)
(* last that was built (IndexIsLast), so what a reader has seen of an      *)
(* index is what the index of that number still holds (ReadsOneIndex), and *)
(* a match that was applied to it is a request in it (MatchesAreRequests). *)
(* While the analyst chooses, the case is locked, so the decisions stay as *)
(* they were read (ChoiceHolds), and what is offered was measured from     *)
(* those rows or is a file of the case (Supported).                        *)
(***************************************************************************)

\* The rows of an index, and an index that is there or was removed.
Rows == LogContents \cup {{}}
ChIndex == [gen : Nat, rows : Rows, stamp : Int]
Match == [client : ClientArtifacts, at : Nat, gen : Nat]

ReadTyped ==
    /\ DOMAIN read = {"pc", "for", "confirmed", "live", "roots", "matches", "indexing",
                      "fresh", "gen", "rows", "shown", "undated", "beyond", "last"}
    /\ read.pc \in {"idle", "case", "status", "identity", "facts", "files", "done"}
    /\ read.for \in {"report", "choice"}
    /\ read.confirmed \subseteq ChronArtifacts /\ read.live \subseteq ChronArtifacts
    /\ read.matches \subseteq Match
    /\ read.roots \in BOOLEAN /\ read.indexing \in BOOLEAN /\ read.fresh \in BOOLEAN
    /\ read.gen \in Nat /\ read.rows \in Rows

ChTyped ==
    /\ requestLogs \in [lines : LogContents, stamp : Nat]
    /\ logIndex \in ChIndex
    /\ rebuild \in [row : {"done", "queued", "running"},
                    at : {"idle", "remove", "load", "end"}, gen : Nat]
    /\ decided \in [ChronArtifacts -> [triage : {"new", "confirmed"}, live : BOOLEAN]]
    /\ applied \subseteq Match
    /\ roots \in BOOLEAN /\ locked \in BOOLEAN
    /\ ReadTyped

\* Between its removal and the next one the index is the last that was built.
IndexIsLast ==
    /\ rebuild.at # "idle" => rebuild.row = "running"
    /\ rebuild.gen # 0
    /\ rebuild.at # "load" => logIndex.gen = rebuild.gen
    /\ rebuild.at = "load" => logIndex = RemovedIndex

\* A match that was applied to the index that is there is a request in it.
MatchesAreRequests ==
    \A m \in applied :
        /\ m.gen \in 1 .. rebuild.gen
        /\ m.gen = logIndex.gen =>
              \E r \in logIndex.rows : r.ip = m.client /\ r.at = m.at

\* What a reader has seen belongs to the builds it saw: the index of its generation
\* still holds the rows that it read.
ReadsOneIndex ==
    /\ read.gen \in 0 .. rebuild.gen /\ read.matches \subseteq applied
    /\ read.gen # 0 => read.fresh
    /\ read.pc \in {"files", "done"} /\ read.gen # 0 /\ read.gen = logIndex.gen =>
          read.rows = logIndex.rows

Past(pcs) == read.pc \notin pcs

\* While the analyst chooses, the decisions and the index stay as they were read.
ChoiceHolds ==
    /\ locked <=> (read.pc # "idle" /\ read.for = "choice")
    /\ read.pc \in {"idle", "case", "status"} => ~read.fresh
    /\ locked /\ Past({"case"}) =>
          /\ read.confirmed = {a \in ChronArtifacts : decided[a].triage = "confirmed"}
          /\ read.live = {a \in ChronArtifacts : decided[a].live}
          /\ read.roots = roots
          /\ ~read.indexing => rebuild.row = "done"
    /\ locked /\ read.fresh =>
          /\ ~read.indexing
          /\ read.pc # "identity" => read.gen = logIndex.gen
          /\ read.pc = "done" => read.last = logIndex

\* What may be chosen was supported when the files were looked at.
Supported(e) ==
    /\ e.source = "log" => read.fresh
    /\ e.source = "log" /\ read.gen # 0 => Measured(e, read.last.rows)
    /\ e.artifact \in read.confirmed \cap read.live
    /\ e.artifact \in FileArtifacts => read.roots

ChInv ==
    /\ ChTyped /\ IndexIsLast /\ MatchesAreRequests /\ ReadsOneIndex /\ ChoiceHolds
    /\ read.pc = "done" => \A e \in {x \in read.shown : x.selectable} : Supported(e)

----------------------------------------------------------------------------
(* Least and greatest times                                                *)

\* A set of numbers that is not empty has a least element, and Min is it.
LEMMA MinOfSet ==
    ASSUME NEW T \in SUBSET Nat, T # {}
    PROVE  Min(T) \in T /\ \A y \in T : Min(T) <= y
<1>1. PICK t : t \in T
  OBVIOUS
<1>2. PICK x \in T : \A y \in T : ~(<<y, x>> \in OpToRel(<, Nat))
  BY <1>1, WFMin, NatLessThanWellFounded
<1>3. \A y \in T : ~(y < x)
  BY <1>2, LessThan, Zenon
<1>4. \A y \in T : x <= y
  BY <1>3
<1> QED BY <1>4 DEF Min

\* Requests whose times lie below a bound.
Timed(rows, n) == n \in Nat /\ \A r \in rows : r.at \in 0 .. n

\* Any number of times has a bound.
Below(f, k, n) == n \in Nat /\ \A i \in 1 .. k : f[i] <= n

LEMMA OneMoreBelow ==
    ASSUME NEW f, NEW k \in Nat \ {0}, \A i \in 1 .. k : f[i] \in Nat, NEW n, Below(f, k - 1, n)
    PROVE  Below(f, k, n + f[k])
<1>1. f[k] \in Nat /\ n \in Nat
  BY DEF Below
<1>2. ASSUME NEW i \in 1 .. k PROVE f[i] <= n + f[k]
  <2>1. CASE i = k
    BY <1>1, <2>1
  <2>2. CASE i # k
    <3>1. f[i] \in Nat /\ i \in 1 .. (k - 1)
      BY <2>2
    <3>2. f[i] <= n
      BY <3>1 DEF Below
    <3> QED  BY <1>1, <3>1, <3>2
  <2> QED  BY <2>1, <2>2
<1> QED  BY <1>1, <1>2 DEF Below

LEMMA AllBelow ==
    ASSUME NEW k \in Nat, NEW f, \A i \in 1 .. k : f[i] \in Nat
    PROVE  \E n : Below(f, k, n)
<1> DEFINE wrong == {j \in 0 .. k : \A n : ~Below(f, j, n)}
<1>1. wrong \subseteq Nat /\ \A j : j \in wrong <=> j \in 0 .. k /\ \A n : ~Below(f, j, n)
  OBVIOUS
<1> HIDE DEF wrong
<1>2. ASSUME wrong # {} PROVE FALSE
  <2>1. PICK j \in wrong : \A i \in wrong : ~(<<i, j>> \in OpToRel(<, Nat))
    BY <1>1, <1>2, WFMin, NatLessThanWellFounded
  <2>2. j \in 0 .. k
    BY <1>1
  <2>3. j # 0
    <3>1. Below(f, 0, 0)
      BY DEF Below
    <3> QED  BY <1>1, <3>1
  <2>4. j - 1 \in 0 .. k /\ <<j - 1, j>> \in OpToRel(<, Nat)
    <3>1. j - 1 \in 0 .. k /\ j - 1 \in Nat /\ j \in Nat /\ j - 1 < j
      BY <2>2, <2>3
    <3> QED  BY <3>1, LessThan, Zenon
  <2>5. PICK n : Below(f, j - 1, n)
    BY <1>1, <2>1, <2>4
  <2>6. Below(f, j, n + f[j])
    BY <2>2, <2>3, <2>5, OneMoreBelow
  <2> QED  BY <1>1, <2>6
<1> QED  BY <1>1, <1>2

LEMMA RowsAreTimed ==
    ASSUME NEW rows \in Rows
    PROVE  \E n : Timed(rows, n)
<1>1. rows \subseteq Logged /\ IsFiniteSet(rows)
  BY ChronologyConstants, FS_EmptySet DEF Rows
<1>2. PICK k \in Nat : ExistsSurjection(1 .. k, rows)
  BY <1>1, FS_NatSurjection
<1>3. PICK f \in [1 .. k -> rows] : \A r \in rows : \E i \in 1 .. k : f[i] = r
  BY <1>2 DEF ExistsSurjection, Surjection
<1> DEFINE times == [i \in 1 .. k |-> f[i].at]
<1>4. \A i \in 1 .. k : times[i] \in Nat
  BY <1>1 DEF Logged
<1>5. PICK n : Below(times, k, n)
  <2> HIDE DEF times
  <2> QED  BY <1>4, AllBelow
<1>6. \A r \in rows : r.at \in Nat /\ r.at <= n
  BY <1>1, <1>3, <1>5 DEF Logged, Below
<1>7. n \in Nat
  BY <1>5 DEF Below
<1> HIDE DEF times
<1>8. \A r \in rows : r.at \in 0 .. n
  BY <1>6, <1>7
<1> QED  BY <1>7, <1>8 DEF Timed

\* The lowest time of some requests, unless there is none, and the highest are of one.
LEMMA LowestIsOfOne ==
    ASSUME NEW rows, NEW n, Timed(rows, n)
    PROVE  Lowest(rows) \in Nat /\ (Lowest(rows) # 0 => \E r \in rows : r.at = Lowest(rows))
<1>1. CASE rows = {}
  BY <1>1 DEF Lowest
<1>2. CASE rows # {}
  <2>1. Times(rows) \in SUBSET Nat /\ Times(rows) # {}
    BY <1>2 DEF Times, Timed
  <2>2. Min(Times(rows)) \in Times(rows)
    BY <2>1, MinOfSet
  <2> QED  BY <1>2, <2>1, <2>2 DEF Lowest, Times
<1> QED  BY <1>1, <1>2

LEMMA HighestIsOfOne ==
    ASSUME NEW rows, NEW n, Timed(rows, n)
    PROVE  /\ Highest(rows) \in 0 .. n
           /\ rows # {} => \E r \in rows : r.at = Highest(rows)
<1>1. CASE rows = {}
  BY <1>1 DEF Highest, Timed
<1>2. CASE rows # {}
  <2>1. Times(rows) \in SUBSET (0 .. n) /\ Times(rows) # {} /\ n \in Nat
    BY <1>2 DEF Times, Timed
  <2>2. Max(Times(rows)) \in Times(rows)
    BY <2>1, MaxOfSet
  <2> QED  BY <1>2, <2>1, <2>2 DEF Highest, Times
<1> QED  BY <1>1, <1>2
----------------------------------------------------------------------------
(* Every event of the log is a request                                     *)

\* Events of an artifact, each at the time of a request of it.
OfRequests(events, a, rows) ==
    \A e \in events : \E kind, r :
        r \in rows /\ a \in {r.file, r.ip} /\ e = Event(kind, a, r.at, "log")

LEMMA RequestedAreRequests ==
    ASSUME NEW rows, NEW n, Timed(rows, n), NEW f
    PROVE  OfRequests(Requested(f, rows), f, rows)
<1> DEFINE hits == Hits(f, rows)
           firsts == {Lowest(h) : h \in hits} \ {0}
           oks == {Lowest(Ok(h)) : h \in hits} \ {0}
           highs == {Highest(h) : h \in hits}
           last == Max(highs)
           first == IF oks # {} THEN Min(oks) ELSE Min(firsts)
           later == {first} \cup {t \in {Highest(Ok(h)) : h \in hits} : first <= t /\ t <= last}
           lastOk == IF oks = {} THEN first ELSE Max(later)
           asked == {r \in rows : r.file = f}
           AskedAt(t) == \E r \in asked : r.at = t
<1>1. CASE firsts = {}
  <2>1. Requested(f, rows) = {}
    BY <1>1 DEF Requested
  <2> QED  BY <2>1 DEF OfRequests
<1>2. CASE firsts # {}
  <2>1. \A h \in hits : h # {} /\ h \subseteq asked
    BY DEF Hits
  <2>2. \A h \in hits : Timed(h, n) /\ Timed(Ok(h), n) /\ Ok(h) \subseteq asked
    BY <2>1 DEF Timed, Ok
  <2> HIDE DEF hits
  <2>3. \A h \in hits : /\ Lowest(h) \in Nat /\ (Lowest(h) # 0 => AskedAt(Lowest(h)))
                        /\ Lowest(Ok(h)) \in Nat /\ (Lowest(Ok(h)) # 0 => AskedAt(Lowest(Ok(h))))
    BY <2>1, <2>2, LowestIsOfOne
  <2>4. \A h \in hits : /\ Highest(h) \in 0 .. n /\ AskedAt(Highest(h))
                        /\ Highest(Ok(h)) \in 0 .. n
                        /\ Highest(Ok(h)) # 0 => AskedAt(Highest(Ok(h)))
    <3> TAKE h \in hits
    <3>1. Highest(h) \in 0 .. n /\ AskedAt(Highest(h))
      BY <2>1, <2>2, HighestIsOfOne
    <3>2. Highest(Ok(h)) \in 0 .. n /\ (Ok(h) # {} => AskedAt(Highest(Ok(h))))
      BY <2>2, HighestIsOfOne
    <3>3. Ok(h) = {} => Highest(Ok(h)) = 0
      BY DEF Highest
    <3> QED  BY <3>1, <3>2, <3>3
  <2>5. firsts \in SUBSET (Nat \ {0}) /\ oks \in SUBSET (Nat \ {0})
        /\ (\A t \in firsts \cup oks : AskedAt(t))
    BY <2>3
  <2>6. highs \in SUBSET (0 .. n) /\ highs # {} /\ (\A t \in highs : AskedAt(t)) /\ n \in Nat
    BY <1>2, <2>4 DEF Timed
  <2> HIDE DEF firsts, oks, highs, AskedAt
  <2>7. first \in Nat \ {0} /\ AskedAt(first)
    <3>1. CASE oks # {}
      <4>1. Min(oks) \in oks
        BY <2>5, <3>1, MinOfSet
      <4> QED  BY <2>5, <3>1, <4>1
    <3>2. CASE oks = {}
      <4>1. Min(firsts) \in firsts
        BY <1>2, <2>5, MinOfSet
      <4> QED  BY <2>5, <3>2, <4>1
    <3> QED  BY <3>1, <3>2
  <2>8. AskedAt(last)
    BY <2>6, MaxOfSet
  <2>9. lastOk \in Nat /\ AskedAt(lastOk)
    <3>1. CASE oks = {}
      BY <2>7, <3>1
    <3>2. CASE oks # {}
      <4> HIDE DEF first
      <4>1. first \in Nat \ {0} /\ AskedAt(first)
        BY <2>7
      <4>2. \A t \in later : t \in Nat /\ AskedAt(t)
        BY <2>4, <4>1
      <4>3. later \in SUBSET (0 .. (n + first)) /\ later # {} /\ n + first \in Nat
        BY <2>4, <2>6, <4>1
      <4>4. Max(later) \in later
        <5> HIDE DEF later
        <5> QED  BY <4>3, MaxOfSet
      <4> QED  BY <3>2, <4>2, <4>4
    <3> QED  BY <3>1, <3>2
  <2>10. \A e \in Requested(f, rows) : \E kind, t : AskedAt(t) /\ e = Event(kind, f, t, "log")
    <3>1. Requested(f, rows) =
              {Event(IF oks # {} THEN "success" ELSE "attempt", f, first, "log")}
              \cup {Event("last success", f, t, "log") : t \in {lastOk} \ {first}}
              \cup {Event("last", f, t, "log") : t \in {last} \ {first, lastOk}}
      BY <1>2 DEF Requested, firsts, oks, highs, hits
    <3> HIDE DEF first, last, lastOk
    <3> QED  BY <2>7, <2>8, <2>9, <3>1
  <2> QED  BY <2>10 DEF OfRequests, AskedAt
<1> QED  BY <1>1, <1>2

LEMMA ContactsAreRequests ==
    ASSUME NEW rows, NEW n, Timed(rows, n), NEW c
    PROVE  OfRequests(Contacts(c, rows), c, rows)
<1> DEFINE of == {r \in rows : r.ip = c}
           times == Times(of) \ {0}
<1>1. CASE times = {}
  <2>1. Contacts(c, rows) = {}
    BY <1>1 DEF Contacts
  <2> QED  BY <2>1 DEF OfRequests
<1>2. CASE times # {}
  <2>1. times \in SUBSET (0 .. n) /\ n \in Nat /\ (\A t \in times : \E r \in of : r.at = t)
    BY DEF Times, Timed
  <2>2. Contacts(c, rows) = {Event("first contact", c, Min(times), "log"),
                             Event("last", c, Max(times), "log")}
    BY <1>2 DEF Contacts
  <2> HIDE DEF times
  <2>3. times \in SUBSET Nat
    BY <2>1
  <2>4. Min(times) \in times /\ Max(times) \in times
    BY <1>2, <2>1, <2>3, MinOfSet, MaxOfSet
  <2>5. \A e \in Contacts(c, rows) : \E kind, r : r \in of /\ e = Event(kind, c, r.at, "log")
    BY <2>1, <2>2, <2>4
  <2> QED  BY <2>5 DEF OfRequests
<1> QED  BY <1>1, <1>2
----------------------------------------------------------------------------
(* The steps of the reader                                                 *)

LEMMA ChInitInv == ChInit => ChInv
<1> SUFFICES ASSUME ChInit PROVE ChInv
  OBVIOUS
<1>1. PICK c \in LogContents : requestLogs = [lines |-> c, stamp |-> 0]
                             /\ logIndex = [gen |-> 1, rows |-> c, stamp |-> 0]
  BY DEF ChInit
<1>2. rebuild = [row |-> "done", at |-> "idle", gen |-> 1] /\ applied = {} /\ roots = TRUE
      /\ locked = FALSE /\ read = Nothing
  BY DEF ChInit
<1>3. decided \in [ChronArtifacts -> [triage : {"new", "confirmed"}, live : BOOLEAN]]
  BY DEF ChInit
<1>4. ReadTyped
  BY <1>2 DEF ReadTyped, Nothing, Rows
<1>5. ChTyped
  <2>1. requestLogs \in [lines : LogContents, stamp : Nat] /\ logIndex \in ChIndex
    BY <1>1 DEF ChIndex, Rows
  <2>2. rebuild \in [row : {"done", "queued", "running"},
                    at : {"idle", "remove", "load", "end"}, gen : Nat]
        /\ applied \subseteq Match /\ roots \in BOOLEAN /\ locked \in BOOLEAN
    BY <1>2
  <2> QED  BY <1>3, <1>4, <2>1, <2>2 DEF ChTyped
<1>6. IndexIsLast /\ MatchesAreRequests
  BY <1>1, <1>2 DEF IndexIsLast, MatchesAreRequests
<1>7. ReadsOneIndex /\ ChoiceHolds
  BY <1>2 DEF ReadsOneIndex, ChoiceHolds, Nothing, Past
<1> QED  BY <1>2, <1>5, <1>6, <1>7 DEF ChInv, Nothing

\* Reading leaves what it reads alone.
Untouched == UNCHANGED <<requestLogs, logIndex, rebuild, decided, applied, roots>>
Keeps == IndexIsLast' /\ MatchesAreRequests'

LEMMA ReadingKeeps ==
    ASSUME ChInv, Untouched
    PROVE  Keeps
BY DEF Untouched, Keeps, ChInv, IndexIsLast, MatchesAreRequests

LEMMA TypedWhenRead ==
    ASSUME ChInv, Untouched, ReadTyped', locked' \in BOOLEAN
    PROVE  ChTyped'
BY DEF Untouched, ChInv, ChTyped

LEMMA BeginKeeps ==
    ASSUME ChInv, NEW for \in {"report", "choice"}, Begin(for)
    PROVE  ChInv'
<1>1. Untouched /\ read.pc = "idle" /\ locked' = (for = "choice")
  BY DEF Begin, Rest, Untouched
<1> DEFINE r == [Nothing EXCEPT !.pc = "case", !.for = for]
<1>2. read' = r
  BY DEF Begin
<1>3. r.pc = "case" /\ r.for = for /\ r.gen = 0 /\ r.fresh = FALSE /\ r.matches = {}
  BY DEF Nothing
<1>4. ReadTyped'
  BY <1>2 DEF ReadTyped, Nothing, Rows
<1> HIDE DEF r
<1>5. ReadsOneIndex'
  BY <1>1, <1>2, <1>3 DEF ReadsOneIndex, Untouched, ChInv, ChTyped
<1>6. ChoiceHolds'
  BY <1>1, <1>2, <1>3 DEF ChoiceHolds, Past
<1> QED  BY <1>1, <1>2, <1>3, <1>4, <1>5, <1>6, ReadingKeeps, TypedWhenRead DEF ChInv, Keeps

LEMMA ReadCaseKeeps ==
    ASSUME ChInv, ReadCase
    PROVE  ChInv'
<1> DEFINE confirmed == {a \in ChronArtifacts : decided[a].triage = "confirmed"}
           live == {a \in ChronArtifacts : decided[a].live}
           indexing == rebuild.row \in {"queued", "running"}
           matches == {m \in applied : m.client \in confirmed \cap live}
<1>1. Untouched /\ read.pc = "case" /\ locked' = locked
  BY DEF ReadCase, Rest, Untouched
<1>2. read' = [read EXCEPT !.pc = "status", !.confirmed = confirmed, !.live = live,
                           !.roots = roots, !.indexing = indexing, !.matches = matches]
  BY DEF ReadCase
<1>3. ReadTyped /\ ChTyped
  BY DEF ChInv, ChTyped
<1>4. /\ DOMAIN read' = DOMAIN read
      /\ read'.pc = "status" /\ read'.confirmed = confirmed /\ read'.live = live
      /\ read'.roots = roots /\ read'.indexing = indexing /\ read'.matches = matches
      /\ read'.for = read.for /\ read'.fresh = read.fresh /\ read'.gen = read.gen
      /\ read'.rows = read.rows
  BY <1>2, <1>3 DEF ReadTyped
<1>5. confirmed \subseteq ChronArtifacts /\ live \subseteq ChronArtifacts
      /\ indexing \in BOOLEAN /\ matches \subseteq applied
      /\ (~indexing => rebuild.row = "done") /\ roots \in BOOLEAN /\ applied \subseteq Match
  BY <1>3 DEF ChTyped
<1> HIDE DEF confirmed, live, indexing, matches
<1>6. ReadTyped'
  BY <1>3, <1>4, <1>5 DEF ReadTyped
<1>7. ReadsOneIndex'
  BY <1>1, <1>4, <1>5 DEF ReadsOneIndex, Untouched, ChInv
<1>8. ChoiceHolds'
  <2>1. ~read'.fresh
    BY <1>1, <1>4 DEF ChInv, ChoiceHolds
  <2>2. locked' <=> (read'.pc # "idle" /\ read'.for = "choice")
    BY <1>1, <1>4 DEF ChInv, ChoiceHolds
  <2>3. read'.confirmed = confirmed' /\ read'.live = live' /\ read'.roots = roots'
        /\ (~read'.indexing => rebuild'.row = "done")
    BY <1>1, <1>4, <1>5 DEF Untouched, confirmed, live
  <2> QED  BY <1>4, <2>1, <2>2, <2>3 DEF ChoiceHolds, confirmed, live
<1>9. ChTyped' /\ Keeps
  BY <1>1, <1>3, <1>6, ReadingKeeps, TypedWhenRead DEF ChTyped
<1> QED  BY <1>4, <1>7, <1>8, <1>9 DEF ChInv, Keeps
LEMMA ReadStatusKeeps ==
    ASSUME ChInv, ReadStatus
    PROVE  ChInv'
<1> DEFINE fresh == ~read.indexing /\ logIndex.stamp = requestLogs.stamp
<1>1. Untouched /\ read.pc = "status" /\ locked' = locked
  BY DEF ReadStatus, Rest, Untouched
<1>2. read' = [read EXCEPT !.pc = "identity", !.fresh = fresh]
  BY DEF ReadStatus
<1>3. ReadTyped /\ ChTyped
  BY DEF ChInv, ChTyped
<1>4. /\ DOMAIN read' = DOMAIN read
      /\ read'.pc = "identity" /\ read'.fresh = fresh
      /\ read'.confirmed = read.confirmed /\ read'.live = read.live
      /\ read'.roots = read.roots /\ read'.indexing = read.indexing
      /\ read'.matches = read.matches /\ read'.for = read.for /\ read'.gen = read.gen
      /\ read'.rows = read.rows
  BY <1>2, <1>3 DEF ReadTyped
<1>5. fresh \in BOOLEAN /\ (fresh => ~read.indexing)
  OBVIOUS
<1> HIDE DEF fresh
<1>6. ReadTyped'
  BY <1>3, <1>4, <1>5 DEF ReadTyped
<1>7. read.gen = 0
  BY <1>1 DEF ChInv, ReadsOneIndex, ChoiceHolds
<1>8. ReadsOneIndex'
  BY <1>1, <1>4, <1>7 DEF ReadsOneIndex, Untouched, ChInv
<1>9. ChoiceHolds'
  BY <1>1, <1>4, <1>5 DEF ChoiceHolds, Untouched, ChInv, Past
<1>10. ChTyped' /\ Keeps
  BY <1>1, <1>3, <1>6, ReadingKeeps, TypedWhenRead DEF ChTyped
<1> QED  BY <1>4, <1>8, <1>9, <1>10 DEF ChInv, Keeps

LEMMA ReadIdentityKeeps ==
    ASSUME ChInv, ReadIdentity
    PROVE  ChInv'
<1> DEFINE gen == IF read.fresh THEN logIndex.gen ELSE 0
<1>1. Untouched /\ read.pc = "identity" /\ locked' = locked
  BY DEF ReadIdentity, Rest, Untouched
<1>2. read' = [read EXCEPT !.pc = "facts", !.gen = gen]
  BY DEF ReadIdentity
<1>3. ReadTyped /\ ChTyped /\ IndexIsLast
  BY DEF ChInv, ChTyped
<1>4. /\ DOMAIN read' = DOMAIN read
      /\ read'.pc = "facts" /\ read'.gen = gen /\ read'.fresh = read.fresh
      /\ read'.confirmed = read.confirmed /\ read'.live = read.live
      /\ read'.roots = read.roots /\ read'.indexing = read.indexing
      /\ read'.matches = read.matches /\ read'.for = read.for /\ read'.rows = read.rows
  BY <1>2, <1>3 DEF ReadTyped
<1>5. gen \in 0 .. rebuild.gen /\ gen \in Nat
  BY <1>3 DEF ChTyped, ChIndex, IndexIsLast, RemovedIndex
<1>6. (gen # 0 => read.fresh) /\ (read.fresh => gen = logIndex.gen)
  OBVIOUS
<1> HIDE DEF gen
<1>7. ReadTyped'
  BY <1>3, <1>4, <1>5 DEF ReadTyped
<1>8. ReadsOneIndex'
  BY <1>1, <1>4, <1>5, <1>6 DEF ReadsOneIndex, Untouched, ChInv
<1>9. ChoiceHolds'
  BY <1>1, <1>4, <1>6 DEF ChoiceHolds, Untouched, ChInv, Past
<1>10. ChTyped' /\ Keeps
  BY <1>1, <1>3, <1>7, ReadingKeeps, TypedWhenRead DEF ChTyped
<1> QED  BY <1>4, <1>8, <1>9, <1>10 DEF ChInv, Keeps

LEMMA ReadFactsKeeps ==
    ASSUME ChInv, ReadFacts
    PROVE  ChInv'
<1>1. Untouched /\ read.pc = "facts" /\ locked' = locked
  BY DEF ReadFacts, Rest, Untouched
<1>2. read' = [read EXCEPT !.pc = "files", !.rows = logIndex.rows]
  BY DEF ReadFacts
<1>3. ReadTyped /\ ChTyped
  BY DEF ChInv, ChTyped
<1>4. /\ DOMAIN read' = DOMAIN read
      /\ read'.pc = "files" /\ read'.rows = logIndex.rows /\ read'.fresh = read.fresh
      /\ read'.confirmed = read.confirmed /\ read'.live = read.live
      /\ read'.roots = read.roots /\ read'.indexing = read.indexing
      /\ read'.matches = read.matches /\ read'.for = read.for /\ read'.gen = read.gen
  BY <1>2, <1>3 DEF ReadTyped
<1>5. logIndex.rows \in Rows
  BY <1>3 DEF ChTyped, ChIndex
<1>6. ReadTyped'
  BY <1>3, <1>4, <1>5 DEF ReadTyped
<1>7. ReadsOneIndex'
  BY <1>1, <1>4 DEF ReadsOneIndex, Untouched, ChInv
<1>8. ChoiceHolds'
  BY <1>1, <1>4 DEF ChoiceHolds, Untouched, ChInv, Past
<1>9. ChTyped' /\ Keeps
  BY <1>1, <1>3, <1>6, ReadingKeeps, TypedWhenRead DEF ChTyped
<1> QED  BY <1>4, <1>7, <1>8, <1>9 DEF ChInv, Keeps

\* An answer ends the reading, and so does a choice.
LEMMA EndingKeeps ==
    ASSUME ChInv, Untouched, read' = Nothing, locked' = FALSE
    PROVE  ChInv'
<1>1. Nothing.pc = "idle" /\ Nothing.fresh = FALSE /\ Nothing.gen = 0 /\ Nothing.matches = {}
  BY DEF Nothing
<1>2. ReadTyped'
  BY DEF ReadTyped, Nothing, Rows
<1>3. ReadsOneIndex'
  BY <1>1 DEF ReadsOneIndex, ChInv, ChTyped, Untouched
<1>4. ChoiceHolds'
  BY <1>1 DEF ChoiceHolds
<1> QED  BY <1>1, <1>2, <1>3, <1>4, ReadingKeeps, TypedWhenRead DEF ChInv, Keeps

LEMMA AnswerKeeps ==
    ASSUME ChInv, Answer
    PROVE  ChInv'
<1>1. Untouched /\ read' = Nothing /\ locked' = locked /\ read.for = "report"
  BY DEF Answer, Rest, Untouched
<1>2. locked = FALSE
  BY <1>1 DEF ChInv, ChoiceHolds, ChTyped
<1> QED  BY <1>1, <1>2, EndingKeeps

LEMMA ChooseKeeps ==
    ASSUME ChInv, Choose
    PROVE  ChInv'
BY EndingKeeps DEF Choose, Rest, Untouched
----------------------------------------------------------------------------
(* What may be chosen                                                      *)

\* What an event is made of; only its mark is added.
Sourced(e) == \E kind, a, t, source : e = Event(kind, a, t, source)

LEMMA MarkAdds ==
    ASSUME NEW e, Sourced(e), NEW mark, NEW x, x = [e EXCEPT !.selectable = mark]
    PROVE  /\ x.artifact = e.artifact /\ x.source = e.source /\ x.at = e.at
           /\ x.selectable = mark
BY DEF Sourced, Event

LEMMA EventFields ==
    ASSUME NEW kind, NEW a, NEW t, NEW source, NEW e, e = Event(kind, a, t, source)
    PROVE  /\ Sourced(e) /\ e.kind = kind /\ e.artifact = a /\ e.at = t /\ e.source = source
BY DEF Sourced, Event

\* An event of a confirmed artifact is a request that was read, a match that was read,
\* or the time of a copy.
LEMMA EventsAreEvidence ==
    ASSUME ChInv, NEW e \in Events
    PROVE  /\ Sourced(e) /\ e.artifact \in read.confirmed
           /\ \/ e.source = "filesystem"
              \/ e.source = "log" /\ Measured(e, read.rows)
              \/ /\ e.source = "log" /\ e.kind = "hunt"
                 /\ \E m \in read.matches : m.client = e.artifact /\ m.at = e.at
<1>1. read.rows \in Rows
  BY DEF ChInv, ChTyped, ReadTyped
<1>2. PICK n : Timed(read.rows, n)
  BY <1>1, RowsAreTimed
<1>3. ASSUME NEW events, NEW a \in read.confirmed, OfRequests(events, a, read.rows), e \in events
      PROVE  Sourced(e) /\ e.artifact \in read.confirmed /\ e.source = "log" /\ Measured(e, read.rows)
  <2>1. PICK kind, r : r \in read.rows /\ a \in {r.file, r.ip} /\ e = Event(kind, a, r.at, "log")
    BY <1>3 DEF OfRequests
  <2>2. Sourced(e) /\ e.artifact = a /\ e.at = r.at /\ e.source = "log"
    BY <2>1, EventFields
  <2> QED  BY <1>3, <2>1, <2>2 DEF Measured
<1>4. ASSUME NEW f \in read.confirmed, e \in Copied(f)
      PROVE  Sourced(e) /\ e.artifact \in read.confirmed /\ e.source = "filesystem"
  <2>1. e = Event("modified", f, copies[f], "filesystem")
    BY <1>4 DEF Copied
  <2> QED  BY <1>4, <2>1, EventFields
<1>5. ASSUME NEW f \in read.confirmed, e \in Requested(f, read.rows)
      PROVE  Sourced(e) /\ e.artifact \in read.confirmed /\ e.source = "log" /\ Measured(e, read.rows)
  BY <1>2, <1>3, <1>5, RequestedAreRequests
<1>6. ASSUME NEW c \in read.confirmed, e \in Contacts(c, read.rows)
      PROVE  Sourced(e) /\ e.artifact \in read.confirmed /\ e.source = "log" /\ Measured(e, read.rows)
  BY <1>2, <1>3, <1>6, ContactsAreRequests
<1>7. ASSUME NEW c \in read.confirmed, e \in Matches(c)
      PROVE  /\ Sourced(e) /\ e.artifact \in read.confirmed /\ e.source = "log" /\ e.kind = "hunt"
             /\ \E m \in read.matches : m.client = e.artifact /\ m.at = e.at
  <2>1. PICK m \in read.matches : m.client = c /\ e = Event("hunt", c, m.at, "log")
    BY <1>7 DEF Matches
  <2>2. Sourced(e) /\ e.artifact = c /\ e.at = m.at /\ e.source = "log" /\ e.kind = "hunt"
    BY <2>1, EventFields
  <2> QED  BY <1>7, <2>1, <2>2
<1>8. CASE \E f \in read.confirmed \cap FileArtifacts : e \in Copied(f) \cup Requested(f, read.rows)
  BY <1>4, <1>5, <1>8
<1>9. CASE \E c \in read.confirmed \cap ClientArtifacts : e \in Contacts(c, read.rows) \cup Matches(c)
  BY <1>6, <1>7, <1>9
<1>10. (\E f \in read.confirmed \cap FileArtifacts : e \in Copied(f) \cup Requested(f, read.rows))
       \/ \E c \in read.confirmed \cap ClientArtifacts : e \in Contacts(c, read.rows) \cup Matches(c)
  <2>1. CASE e \in UNION {Copied(f) \cup Requested(f, read.rows) : f \in read.confirmed \cap FileArtifacts}
    BY <2>1
  <2>2. CASE e \in UNION {Contacts(c, read.rows) \cup Matches(c) : c \in read.confirmed \cap ClientArtifacts}
    BY <2>2
  <2> QED  BY <2>1, <2>2 DEF Events
<1> QED  BY <1>8, <1>9, <1>10

\* An event that is marked is in the index that is there.
LEMMA MarkedIsSupported ==
    ASSUME ChInv, read.pc = "files", NEW e \in Events, Selectable(e)
    PROVE  /\ e.artifact \in read.confirmed \cap read.live
           /\ e.source = "log" => read.fresh
           /\ e.source = "log" /\ read.gen # 0 => Measured(e, logIndex.rows)
           /\ e.artifact \in FileArtifacts => read.roots
<1>1. e.artifact \in read.live /\ (e.source = "log" => read.fresh /\ logIndex.gen = read.gen)
      /\ (e.kind = "hunt" => CurrentMatch(e.artifact, e.at))
      /\ (e.artifact \in FileArtifacts => read.roots)
  BY DEF Selectable
<1>2. ASSUME e.source = "log", read.gen # 0 PROVE Measured(e, logIndex.rows)
  <2>1. read.rows = logIndex.rows
    BY <1>1, <1>2 DEF ChInv, ReadsOneIndex
  <2>2. CASE e.kind = "hunt"
    <3> DEFINE m == [client |-> e.artifact, at |-> e.at, gen |-> read.gen]
    <3>1. m \in applied /\ m.gen = logIndex.gen
      BY <1>1, <1>2, <2>2 DEF CurrentMatch, ChInv, ReadsOneIndex
    <3>2. PICK r \in logIndex.rows : r.ip = e.artifact /\ r.at = e.at
      BY <3>1 DEF ChInv, MatchesAreRequests
    <3> QED  BY <3>2 DEF Measured
  <2>3. CASE e.kind # "hunt"
    <3>1. Measured(e, read.rows)
      BY <1>2, <2>3, EventsAreEvidence
    <3> QED  BY <2>1, <3>1
  <2> QED  BY <2>2, <2>3
<1> QED  BY <1>1, <1>2, EventsAreEvidence

LEMMA FinishReadingKeeps ==
    ASSUME ChInv, FinishReading
    PROVE  ChInv'
<1>1. Untouched /\ read.pc = "files" /\ locked' = locked
  BY DEF FinishReading, Rest, Untouched
<1>2. PICK shown, beyond, undated :
          /\ shown \in SUBSET Marked(Events)
          /\ read' = [read EXCEPT !.pc = "done", !.shown = shown, !.last = logIndex,
                                  !.beyond = beyond, !.undated = undated]
  BY DEF FinishReading, Earliest
<1>3. ReadTyped /\ ChTyped
  BY DEF ChInv, ChTyped
<1>4. /\ DOMAIN read' = DOMAIN read
      /\ read'.pc = "done" /\ read'.shown = shown /\ read'.last = logIndex
      /\ read'.rows = read.rows /\ read'.fresh = read.fresh
      /\ read'.confirmed = read.confirmed /\ read'.live = read.live
      /\ read'.roots = read.roots /\ read'.indexing = read.indexing
      /\ read'.matches = read.matches /\ read'.for = read.for /\ read'.gen = read.gen
  BY <1>2, <1>3 DEF ReadTyped
<1>5. ReadTyped'
  BY <1>3, <1>4 DEF ReadTyped
<1>6. ReadsOneIndex'
  BY <1>1, <1>4 DEF ReadsOneIndex, Untouched, ChInv
<1>7. ChoiceHolds'
  BY <1>1, <1>4 DEF ChoiceHolds, Untouched, ChInv, Past
<1>8. ChTyped' /\ Keeps
  BY <1>1, <1>3, <1>5, ReadingKeeps, TypedWhenRead DEF ChTyped
<1>9. \A e \in {x \in read'.shown : x.selectable} : Supported(e)'
  <2> TAKE x \in {x \in read'.shown : x.selectable}
  <2>1. x \in Marked(Events) /\ x.selectable
    BY <1>2, <1>4
  <2>2. PICK e \in Events : x = [e EXCEPT !.selectable = Selectable(e)]
    BY <2>1 DEF Marked
  <2>3. x.artifact = e.artifact /\ x.source = e.source /\ x.at = e.at /\ x.selectable = Selectable(e)
    BY <2>2, MarkAdds, EventsAreEvidence
  <2>4. Selectable(e)
    BY <2>1, <2>3
  <2>5. /\ x.artifact \in read.confirmed \cap read.live
        /\ x.source = "log" => read.fresh
        /\ x.source = "log" /\ read.gen # 0 => Measured(x, logIndex.rows)
        /\ x.artifact \in FileArtifacts => read.roots
    BY <1>1, <2>3, <2>4, MarkedIsSupported DEF Measured
  <2> QED  BY <1>4, <2>5 DEF Supported, Measured
<1> QED  BY <1>4, <1>6, <1>7, <1>8, <1>9 DEF ChInv, Keeps
----------------------------------------------------------------------------
(* Meanwhile                                                               *)

LEMMA DecisionsKeep ==
    ASSUME ChInv, Retriage \/ Rescan \/ RegisterRoots
    PROVE  ChInv'
<1>1. /\ ~locked /\ UNCHANGED <<requestLogs, logIndex, rebuild, applied, locked, read>>
      /\ roots' \in BOOLEAN
      /\ decided' \in [ChronArtifacts -> [triage : {"new", "confirmed"}, live : BOOLEAN]]
  <2>1. CASE Retriage
    BY <2>1 DEF Retriage, Unlocked, Unaffected, ChInv, ChTyped
  <2>2. CASE Rescan
    <3>1. PICK a \in ChronArtifacts : decided' = [decided EXCEPT ![a].live = ~@]
      BY <2>2 DEF Rescan
    <3>2. decided \in [ChronArtifacts -> [triage : {"new", "confirmed"}, live : BOOLEAN]]
      BY DEF ChInv, ChTyped
    <3>3. (~decided[a].live) \in BOOLEAN
      OBVIOUS
    <3>4. decided' \in [ChronArtifacts -> [triage : {"new", "confirmed"}, live : BOOLEAN]]
      BY <3>1, <3>2, <3>3
    <3> QED  BY <2>2, <3>4 DEF Rescan, Unlocked, Unaffected, ChInv, ChTyped
  <2>3. CASE RegisterRoots
    BY <2>3 DEF RegisterRoots, Unlocked, Unaffected, ChInv, ChTyped
  <2> QED  BY <2>1, <2>2, <2>3
<1>2. ChTyped'
  BY <1>1 DEF ChInv, ChTyped, ReadTyped
<1>3. IndexIsLast' /\ MatchesAreRequests' /\ ReadsOneIndex'
  BY <1>1 DEF ChInv, IndexIsLast, MatchesAreRequests, ReadsOneIndex
<1>4. ChoiceHolds'
  BY <1>1 DEF ChInv, ChoiceHolds
<1>5. read.pc = "done" => \A e \in {x \in read.shown : x.selectable} : Supported(e)'
  BY <1>1 DEF ChInv, Supported, Measured
<1> QED  BY <1>1, <1>2, <1>3, <1>4, <1>5 DEF ChInv

LEMMA ApplyHuntKeeps ==
    ASSUME ChInv, ApplyHunt
    PROVE  ChInv'
<1>1. PICK r \in logIndex.rows :
          /\ r.at # 0
          /\ applied' = applied \cup {[client |-> r.ip, at |-> r.at, gen |-> logIndex.gen]}
          /\ decided' = [decided EXCEPT ![r.ip].live = TRUE]
  BY DEF ApplyHunt
<1>2. /\ ~locked /\ UNCHANGED <<requestLogs, logIndex, rebuild, roots, locked, read>>
      /\ logIndex.stamp = requestLogs.stamp
  BY DEF ApplyHunt, Unlocked, Unaffected
<1>3. ChTyped
  BY DEF ChInv
<1>4. logIndex.gen \in 1 .. rebuild.gen
  BY <1>2, <1>3 DEF ChTyped, ChIndex, ChInv, IndexIsLast, RemovedIndex
<1>5. r \in Logged /\ r.ip \in ClientArtifacts /\ r.at \in Nat
  BY <1>3, ChronologyConstants DEF ChTyped, ChIndex, Rows, Logged
<1> DEFINE m == [client |-> r.ip, at |-> r.at, gen |-> logIndex.gen]
<1>6. m \in Match /\ m.gen \in 1 .. rebuild.gen /\ m.client = r.ip /\ m.at = r.at
  BY <1>4, <1>5 DEF Match
<1> HIDE DEF m
<1>7. decided' \in [ChronArtifacts -> [triage : {"new", "confirmed"}, live : BOOLEAN]]
  BY <1>1, <1>3, <1>5 DEF ChTyped, ChronArtifacts
<1>8. ChTyped'
  BY <1>1, <1>2, <1>3, <1>6, <1>7 DEF ChTyped, ReadTyped, m
<1>9. IndexIsLast' /\ ReadsOneIndex'
  BY <1>1, <1>2 DEF ChInv, IndexIsLast, ReadsOneIndex
<1>10. MatchesAreRequests'
  BY <1>1, <1>2, <1>6 DEF ChInv, MatchesAreRequests, m
<1>11. ChoiceHolds'
  BY <1>2 DEF ChInv, ChoiceHolds
<1>12. read.pc = "done" => \A e \in {x \in read.shown : x.selectable} : Supported(e)'
  BY <1>2 DEF ChInv, Supported, Measured
<1> QED  BY <1>2, <1>8, <1>9, <1>10, <1>11, <1>12 DEF ChInv

LEMMA FilesKeep ==
    ASSUME ChInv, RewriteLog \/ Move
    PROVE  ChInv'
<1>1. /\ UNCHANGED <<logIndex, rebuild, decided, applied, roots, locked, read>>
      /\ requestLogs' \in [lines : LogContents, stamp : Nat]
  BY DEF RewriteLog, Move, Unaffected, ChInv, ChTyped
<1>2. ChTyped'
  BY <1>1 DEF ChInv, ChTyped, ReadTyped
<1>3. IndexIsLast' /\ MatchesAreRequests' /\ ReadsOneIndex'
  BY <1>1 DEF ChInv, IndexIsLast, MatchesAreRequests, ReadsOneIndex
<1>4. ChoiceHolds'
  BY <1>1 DEF ChInv, ChoiceHolds, Past
<1>5. read.pc = "done" => \A e \in {x \in read.shown : x.selectable} : Supported(e)'
  BY <1>1 DEF ChInv, Supported, Measured
<1> QED  BY <1>1, <1>2, <1>3, <1>4, <1>5 DEF ChInv

\* The row of a job is written while nobody chooses.
LEMMA RowsKeep ==
    ASSUME ChInv, Queue \/ Start \/ End
    PROVE  ChInv'
<1>1. /\ ~locked /\ UNCHANGED <<requestLogs, logIndex, decided, applied, roots, locked, read>>
      /\ rebuild' \in [row : {"done", "queued", "running"},
                       at : {"idle", "remove", "load", "end"}, gen : Nat]
      /\ rebuild'.gen = rebuild.gen
      /\ rebuild'.at # "idle" => rebuild'.row = "running"
      /\ rebuild'.at # "load" /\ rebuild.at # "load"
  <2>1. CASE Queue
    BY <2>1 DEF Queue, Unlocked, Unaffected, ChInv, ChTyped, IndexIsLast
  <2>2. CASE Start
    BY <2>2 DEF Start, Unlocked, Unaffected, ChInv, ChTyped, IndexIsLast
  <2>3. CASE End
    BY <2>3 DEF End, Unlocked, Unaffected, ChInv, ChTyped, IndexIsLast
  <2> QED  BY <2>1, <2>2, <2>3
<1>2. ChTyped'
  BY <1>1 DEF ChInv, ChTyped, ReadTyped
<1>3. IndexIsLast' /\ MatchesAreRequests' /\ ReadsOneIndex'
  BY <1>1 DEF ChInv, IndexIsLast, MatchesAreRequests, ReadsOneIndex
<1>4. ChoiceHolds'
  BY <1>1 DEF ChInv, ChoiceHolds
<1>5. read.pc = "done" => \A e \in {x \in read.shown : x.selectable} : Supported(e)'
  BY <1>1 DEF ChInv, Supported, Measured
<1> QED  BY <1>1, <1>2, <1>3, <1>4, <1>5 DEF ChInv

\* A build at work has its row at running, so a choice that counts on the index does not
\* see it change.
LEMMA BuildsKeep ==
    ASSUME ChInv, RemoveIndex \/ PublishIndex
    PROVE  ChInv'
<1>1. ChTyped /\ IndexIsLast /\ UNCHANGED <<requestLogs, decided, applied, roots, locked, read>>
  BY DEF RemoveIndex, PublishIndex, Unaffected, ChInv
<1>2. /\ rebuild.row = "running"
      /\ rebuild' \in [row : {"done", "queued", "running"},
                       at : {"idle", "remove", "load", "end"}, gen : Nat]
      /\ rebuild'.row = "running"
      /\ \/ /\ logIndex' = RemovedIndex /\ rebuild'.at = "load" /\ rebuild'.gen = rebuild.gen
         \/ /\ logIndex'.gen = rebuild.gen + 1 /\ rebuild'.gen = rebuild.gen + 1
            /\ rebuild'.at = "end"
      /\ logIndex' \in ChIndex /\ logIndex'.gen \in {0, rebuild.gen + 1}
  <2>1. CASE RemoveIndex
    <3>1. logIndex' = RemovedIndex /\ rebuild' = [rebuild EXCEPT !.at = "load"] /\ rebuild.at = "remove"
      BY <2>1 DEF RemoveIndex
    <3>2. RemovedIndex \in ChIndex /\ RemovedIndex.gen = 0
      BY DEF RemovedIndex, ChIndex, Rows
    <3> QED  BY <1>1, <3>1, <3>2 DEF ChTyped, IndexIsLast
  <2>2. CASE PublishIndex
    <3>1. PICK stamp \in {requestLogs.stamp, -1} :
              logIndex' = [gen |-> rebuild.gen + 1, rows |-> requestLogs.lines, stamp |-> stamp]
      BY <2>2 DEF PublishIndex
    <3>2. rebuild' = [rebuild EXCEPT !.at = "end", !.gen = @ + 1] /\ rebuild.at = "load"
      BY <2>2 DEF PublishIndex
    <3>3. stamp \in Int /\ requestLogs.lines \in Rows /\ rebuild.gen + 1 \in Nat
      BY <1>1 DEF ChTyped, Rows
    <3>4. logIndex' \in ChIndex /\ logIndex'.gen = rebuild.gen + 1
      BY <3>1, <3>3 DEF ChIndex
    <3> QED  BY <1>1, <3>2, <3>3, <3>4 DEF ChTyped, IndexIsLast
  <2> QED  BY <2>1, <2>2
<1>3. rebuild.gen \in Nat /\ rebuild.gen # 0 /\ read.gen \in 0 .. rebuild.gen
      /\ \A m \in applied : m.gen \in 1 .. rebuild.gen
  BY <1>1 DEF ChTyped, IndexIsLast, ChInv, ReadsOneIndex, MatchesAreRequests
<1>4. ChTyped'
  BY <1>1, <1>2 DEF ChTyped, ReadTyped
<1>5. IndexIsLast'
  BY <1>2, <1>3 DEF IndexIsLast
<1>6. MatchesAreRequests'
  BY <1>1, <1>2, <1>3 DEF MatchesAreRequests
<1>7. ReadsOneIndex'
  BY <1>1, <1>2, <1>3 DEF ReadsOneIndex, ChInv
<1>8. ChoiceHolds'
  BY <1>1, <1>2 DEF ChInv, ChoiceHolds, Past
<1>9. read.pc = "done" => \A e \in {x \in read.shown : x.selectable} : Supported(e)'
  BY <1>1 DEF ChInv, Supported, Measured
<1> QED  BY <1>1, <1>4, <1>5, <1>6, <1>7, <1>8, <1>9 DEF ChInv

LEMMA ChronologyInvariant == ChSpec => []ChInv
<1>1. ChInv /\ UNCHANGED chvars => ChInv'
  BY DEF chvars, ChInv, ChTyped, ReadTyped, IndexIsLast, MatchesAreRequests, ReadsOneIndex,
         ChoiceHolds, Supported, Measured, Past
<1>2. ChInv /\ ChNext => ChInv'
  BY BeginKeeps, ReadCaseKeeps, ReadStatusKeeps, ReadIdentityKeeps, ReadFactsKeeps,
     FinishReadingKeeps, AnswerKeeps, ChooseKeeps, DecisionsKeep, ApplyHuntKeeps, FilesKeep,
     RowsKeep, BuildsKeep DEF ChNext
<1> QED  BY <1>1, <1>2, ChInitInv, PTL DEF ChSpec

\* Of SelectableIsSupported: whatever decisions, scans, edits and builds come between the
\* reads of a chronology (chain.py), what may be chosen from it as the first known sign
\* (first_sign.py) is a request of the index that was there at its end, and of what is
\* confirmed, current and registered when the choice is saved.
THEOREM SelectableSupported == ChSpec => []SelectableIsSupported
<1>1. ChInv => SelectableIsSupported
  <2> SUFFICES ASSUME ChInv, read.pc = "done", NEW e \in {x \in read.shown : x.selectable}
               PROVE  /\ e.source = "log" /\ read.gen # 0 => Measured(e, read.last.rows)
                      /\ read.for = "choice" =>
                            /\ e.source = "log" => Measured(e, logIndex.rows)
                            /\ decided[e.artifact] = [triage |-> "confirmed", live |-> TRUE]
                            /\ e.artifact \in FileArtifacts => roots
    BY DEF SelectableIsSupported
  <2>1. Supported(e)
    BY DEF ChInv
  <2>2. ASSUME read.for = "choice"
        PROVE  /\ e.source = "log" => Measured(e, logIndex.rows)
               /\ decided[e.artifact] = [triage |-> "confirmed", live |-> TRUE]
               /\ e.artifact \in FileArtifacts => roots
    <3>1. locked
      BY <2>2 DEF ChInv, ChoiceHolds
    <3>2. /\ read.confirmed = {a \in ChronArtifacts : decided[a].triage = "confirmed"}
          /\ read.live = {a \in ChronArtifacts : decided[a].live}
          /\ read.roots = roots
          /\ ~read.indexing => rebuild.row = "done"
      BY <3>1 DEF ChInv, ChoiceHolds, Past
    <3>3. decided[e.artifact] = [triage |-> "confirmed", live |-> TRUE]
      <4>1. e.artifact \in ChronArtifacts /\ decided[e.artifact].triage = "confirmed"
            /\ decided[e.artifact].live
        BY <2>1, <3>2 DEF Supported
      <4>2. decided[e.artifact] \in [triage : {"new", "confirmed"}, live : BOOLEAN]
        BY <4>1 DEF ChInv, ChTyped
      <4> QED  BY <4>1, <4>2
    <3>4. ASSUME e.source = "log" PROVE Measured(e, logIndex.rows)
      <4>1. read.fresh
        BY <2>1, <3>4 DEF Supported
      <4>2. ~read.indexing /\ read.gen = logIndex.gen /\ read.last = logIndex
        BY <3>1, <4>1 DEF ChInv, ChoiceHolds
      <4>3. logIndex.gen = rebuild.gen /\ rebuild.gen # 0
        BY <3>2, <4>2 DEF ChInv, IndexIsLast
      <4> QED  BY <2>1, <3>4, <4>2, <4>3 DEF Supported
    <3> QED  BY <2>1, <3>2, <3>3, <3>4 DEF Supported
  <2> QED  BY <2>1, <2>2 DEF Supported
<1> QED  BY <1>1, ChronologyInvariant, PTL
=============================================================================
