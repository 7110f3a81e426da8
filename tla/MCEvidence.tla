----------------------------- MODULE MCEvidence -----------------------------
(* The components that read evidence and decide about it, in one run. They *)
(* share no state but for the log index, which hunts work on: a behaviour  *)
(* follows one of them, chosen at the start (part), and the others stay as *)
(* they start, so TLC sees the sum of their states and not the product.    *)
(* The log index is followed alone, with its logs edited and its builds    *)
(* broken off, and under the hunts, with logs that stay as they are.       *)
(* one and other are interchangeable, whatever they stand for (sources,    *)
(* files, folders of websites).                                            *)
EXTENDS Hunts, Review, Backups, Inventories, LogEvidence, Chronology, TLC

CONSTANTS one, other, client

VARIABLE part

-----------------------------------------------------------------------------
(* What the access logs hold: of one client, login requests and what is    *)
(* behind the login; after an edit, what looks like an injection.          *)

Line(n, h, k, o) == [n |-> n, ip |-> "i", hit |-> h, ok |-> k, hour |-> o]
Log(lines) == [form |-> "log", lines |-> lines]

FirstLogs == [f |-> Log({Line(1, "login", FALSE, 1), Line(2, "login", FALSE, 3),
                         Line(3, "admin", TRUE, 3)}),
              g |-> Log({Line(8, "login", FALSE, 7)})]
EditedLogs == {Log({Line(4, "login", FALSE, 2), Line(5, "scanner", TRUE, 0),
                    Line(9, "admin", TRUE, 2)}),
               [form |-> "broken", lines |-> {Line(6, "sqli", TRUE, 5)}],
               [form |-> "other", lines |-> {}],
               [form |-> "unreadable", lines |-> {}]}

MCHuntRules == {[all |-> FALSE, steps |-> {{"login"}}]}
MCBundled == [all |-> TRUE, steps |-> {{"admin"}}]

\* The bounds of the hunts: the logs stay as they are, there is one build of the
\* index, one log is taken out and put back after it, and little is edited once
\* tests are stored, less still when one of them is applied.
HuntBounds ==
    /\ accessLogs' = accessLogs /\ "g" \in registered' /\ builder'.gen <= 1
    /\ registered' # registered => builder.gen = 1 /\ builder.at = "idle"
    /\ Weight(library') + Len(tests') <= IF apps' = {} /\ op'.at = "none" THEN 4 ELSE 3

\* The review: two files of the same content at the same path, and a client of theirs.
MCHeld == [f \in {one, other} |-> "A"]
MCRelPath == [f \in {one, other} |-> <<"p">>]
MCRequests == {[ip |-> client, uri |-> <<"p">>, ok |-> TRUE]}
MCSelections == {{one}, {other}, {client}, {one, client}, {other, client}}

ASSUME ReviewConstants

\* The backups: one file on each of two websites, and a content a scanner reports.
MCFirst == [r \in {one, other} |-> [p |-> "x"]]
MCDetects == {<<"webshell", "y">>}

\* The sources of other logs: a file may be empty or hold a detection and a line that
\* nobody understands. Each is registered as other or as access log and configured as
\* the one or the other, so that each of the four starts is there.
MCTexts == {{}, Lines}

\* Three of: two requests, an edit, a stop.
LogBounds == logEdits' + calls' + stops' <= 3

\* The chronology: a file that is asked for twice, or once at a time nobody can read.
Request(t, ok) == [file |-> "f", ip |-> "i", at |-> t, ok |-> ok]
MCLogContents == {{Request(1, FALSE), Request(3, TRUE)}, {Request(0, TRUE), Request(4, TRUE)}}

-----------------------------------------------------------------------------

Resting == {"hunts", "log evidence", "inventories", "review", "backups", "chronology"}

\* How a component starts that the behaviour does not follow.
StartOf(p) ==
    CASE p = "hunts" -> HInit
      [] p = "log evidence" -> EInit /\ \A s \in Sources : logs[s].text = {}
                                     /\ src[s].format = "access" /\ src[s].stored = "access"
      [] p = "inventories" -> InInit
      [] p = "review" -> Init
      [] p = "backups" -> BInit
      [] p = "chronology" -> /\ ChInit /\ requestLogs.lines = {Request(1, FALSE), Request(3, TRUE)}
                             /\ \A a \in ChronArtifacts : decided[a].triage = "new"

AtRest(p) ==
    CASE p = "hunts" -> UNCHANGED <<ixvars, hvars>>
      [] p = "log evidence" -> UNCHANGED evars
      [] p = "inventories" -> UNCHANGED ivars
      [] p = "review" -> UNCHANGED vars
      [] p = "backups" -> UNCHANGED bvars
      [] p = "chronology" -> UNCHANGED chvars

Follows(p, init) ==
    part = p /\ init /\ \A q \in Resting \ {p} : StartOf(q)
Only(p, next) ==
    part = p /\ UNCHANGED part /\ (\A q \in Resting \ {p} : AtRest(q)) /\ next

EvidenceInit ==
    \/ Follows("hunts", HInit)
    \/ part = "logs" /\ HInit /\ \A q \in Resting \ {"hunts"} : StartOf(q)
    \/ Follows("log evidence", EInit)
    \/ Follows("inventories", InInit)
    \/ Follows("review", Init)
    \/ Follows("backups", BInit)
    \/ Follows("chronology", ChInit)

EvidenceNext ==
    \/ Only("hunts", HNext /\ HuntBounds)
    \/ /\ part = "logs" /\ UNCHANGED <<part, hvars>>
       /\ \A q \in Resting \ {"hunts"} : AtRest(q)
       /\ IxNext
    \/ Only("log evidence", ENext /\ LogBounds)
    \/ Only("inventories", InNext)
    \/ Only("review", Next)
    \/ Only("backups", BNext)
    \/ Only("chronology", ChNext)

evidenceVars == <<part, ixvars, hvars, evars, ivars, vars, bvars, chvars>>

EvidenceSpec == EvidenceInit /\ [][EvidenceNext]_evidenceVars

Symmetry == Permutations({one, other})
=============================================================================
