------------------------------- MODULE Review -------------------------------
(***************************************************************************)
(* The review of a case: decisions about artifacts (files and clients),    *)
(* decisions shared between files with identical content, decisions that   *)
(* travel one step along the log index, and the indicators a confirmation  *)
(* collects (app.py _set_triage ff., backups.py, artifacts.py).            *)
(*                                                                         *)
(* The rows of an artifact are its findings.  A triage request, a content  *)
(* preparation and a scan of one file are each one database transaction,   *)
(* and each is one action.  Notes, classifications, times and the audit    *)
(* trail are left out.                                                     *)
(***************************************************************************)
EXTENDS Naturals, FiniteSets, Sequences, SequencesExt

CONSTANTS Files, Clients,   \* what a finding can be about
          Rules,            \* rules of the scanner and the log detectors
          Severe,           \* the rules of severity below 3 (actionable)
          RelPath,          \* [Files -> path segments below the evidence root]
          Requests,         \* {[ip, uri, ok]}: the log index
          Contents,         \* what a file can hold
          Held,             \* [Files -> Contents]: what it holds at first
          Selections,       \* bound: the artifacts one request names
          MaxChanges,       \* bound: edits of files on disk
          MaxScans,         \* bound: scans
          MaxRequests       \* bound: requests of the analyst

Artifacts == Files \cup Clients
States == {"new", "reviewed", "confirmed", "dismissed"}
Final == {"confirmed", "dismissed"}
None == "none"
Gone == "gone"
NoIndex == [c |-> None, v |-> 0]
NoInherit == [content |-> None, state |-> None, origin |-> None, prev |-> None]
NoDecision == [state |-> None, origin |-> None]
Shared == "content_assessment"      \* the row a shared decision adds
Iocs == ({"path"} \X Files) \cup ({"hash"} \X Contents) \cup ({"ip"} \X Clients)

\* What the proofs ask of the constants.
ReviewConstants ==
    /\ Files \cap Clients = {}
    /\ Held \in [Files -> Contents] /\ None \notin Contents

VARIABLES
    art,      \* [Artifacts -> [rows, inherit, except, sources]]
    disk,     \* [Files -> [c, v]]: content and version; c may be Gone
    index,    \* [Files -> [c, v]]: content_files
    prepared, \* [Files -> None or content]: backup_files of the last build
    receipt,  \* [Files -> None or content]: file_scan_receipts
    assess,   \* [Contents -> [state, origin]]: content_assessments
    opinion,  \* [Contents -> None or state]: IOC assessments not seeded yet
    box,      \* the indicators of the case
    own,      \* those the analyst added
    hand,     \* history: the decision the analyst last made about an artifact
    named,    \* history: the artifacts the last request named
    scans, asked

vars == <<art, disk, index, prepared, receipt, assess, opinion, box, own,
          hand, named, scans, asked>>

-----------------------------------------------------------------------------
(* Folding the rows of an artifact into one decision (artifacts.py).       *)

LiveRows(rows) == {r \in DOMAIN rows : rows[r].live}
Judged(rows) == IF LiveRows(rows) = {} THEN DOMAIN rows ELSE LiveRows(rows)

Fold(rows) ==
    LET s == {rows[r].triage : r \in Judged(rows)} IN
    CASE "confirmed" \in s -> "confirmed"
      [] s = {"dismissed"} -> "dismissed"
      [] "reviewed" \in s -> "reviewed"
      [] OTHER -> "new"

Known(a) == DOMAIN art[a].rows # {}
Decision(a) == Fold(art[a].rows)
Open(a) == Known(a) /\ Decision(a) \notin Final

SetAll(x, s) ==
    [x EXCEPT !.rows = [r \in DOMAIN x.rows |-> [x.rows[r] EXCEPT !.triage = s]]]
Retire(x) == [x EXCEPT !.sources = [i \in DOMAIN x.sources |-> FALSE]]
Track(x, I) ==
    [x EXCEPT !.sources = [i \in DOMAIN x.sources \cup I |->
                              i \in I \/ x.sources[i]]]
PutRow(x, r, row) ==
    [x EXCEPT !.rows = [q \in DOMAIN x.rows \cup {r} |->
                           IF q = r THEN row ELSE x.rows[q]]]

-----------------------------------------------------------------------------
(* Content identity and inheritance (backups.py).                          *)

Fresh(f) == index[f] # NoIndex /\ index[f] = disk[f]

\* restore_inheritance: withdraw a hash-bound decision, unless the analyst
\* decided about the file independently or the decision is another by now.
\* Mutant: the exception of an independent decision is ignored.
RestoreAll(x) ==
    LET back == IF DOMAIN x.rows # {} /\ Fold(x.rows) = x.inherit.state
                THEN Retire(SetAll(x, x.inherit.prev)) ELSE x
        shown == IF Shared \in DOMAIN x.rows
                 THEN PutRow(back, Shared, [triage |-> "new", live |-> FALSE])
                 ELSE back
    IN [shown EXCEPT !.inherit = NoInherit]
Restore(x) ==
    LET hit == /\ DOMAIN x.rows # {} /\ x.inherit.content \notin x.except
               /\ Fold(x.rows) = x.inherit.state
        back == IF hit THEN Retire(SetAll(x, x.inherit.prev)) ELSE x
        shown == IF Shared \in DOMAIN x.rows
                 THEN PutRow(back, Shared,
                             [triage |-> IF hit THEN "new" ELSE back.rows[Shared].triage,
                              live |-> FALSE])
                 ELSE back
    IN [shown EXCEPT !.inherit = NoInherit]

\* Mutant: new content keeps the decision inherited by the old one.
RememberOnly(x, c) == x
\* remember: the file's content is known now.
Remember(x, c) ==
    IF x.inherit # NoInherit /\ x.inherit.content # c THEN Restore(x) ELSE x

\* inherit_all for one file of the content index, after remember.  ix is its
\* index entry, as the assessments then.
Undisturbed(f, x, d) ==
    LET cur == Fold(x.rows)
        bound == x.inherit # NoInherit /\ x.inherit.content = d.content
                 /\ x.inherit.state = cur
    IN DOMAIN x.rows # {} /\ cur \in Final
       /\ \/ cur = d.state /\ x.inherit = NoInherit     \* agrees, independently
          \/ cur # d.state /\ ~bound               \* a conflict

Apply(f, x, d) ==
    LET before == Fold(x.rows)
        seen == IF DOMAIN x.rows = {}
                THEN PutRow(x, Shared, [triage |-> "new", live |-> TRUE])
                ELSE IF d.state = "confirmed" /\ Shared \in DOMAIN x.rows
                THEN PutRow(x, Shared, [x.rows[Shared] EXCEPT !.live = TRUE])
                ELSE x
        put == [SetAll(seen, d.state) EXCEPT !.inherit =
                  [content |-> d.content, state |-> d.state, origin |-> d.origin,
                   prev |-> IF x.inherit # NoInherit THEN x.inherit.prev ELSE before]]
    IN CASE before = d.state /\ x.inherit # NoInherit -> seen
         [] d.state = "confirmed" -> Track(put, {<<"path", f>>, <<"hash", d.content>>})
         [] before = "confirmed" /\ d.state # "confirmed" -> Retire(put)
         [] OTHER -> put

Inherit(f, x, ix, as) ==
    IF ix = NoIndex \/ as[ix.c] = NoDecision \/ ix.c \in x.except THEN x
    ELSE LET d == [content |-> ix.c, state |-> as[ix.c].state, origin |-> as[ix.c].origin]
             changed == ix # disk[f] /\ disk[f].c # Gone
             kept == \/ disk[f].c = Gone
                     \/ Undisturbed(f, x, d)
                     \/ d.origin = f
                     \/ DOMAIN x.rows = {} /\ d.state = "dismissed"
         IN IF changed \/ (d.state = "new" /\ ~kept)
            THEN IF x.inherit # NoInherit THEN Restore(x) ELSE x
            ELSE IF kept THEN x ELSE Apply(f, x, d)

\* review_content: the indexed file is the one on disk and the one its live
\* findings were found in.  Without an index the answer is "not ready".
Reviewable(f) ==
    /\ Fresh(f)
    /\ receipt[f] # None => receipt[f] = index[f].c
    /\ LiveRows(art[f].rows) \ {Shared} # {} => receipt[f] # None

-----------------------------------------------------------------------------
(* What the log index proves (app.py _touches, _propagate).                *)

\* uri_targets: one segment must match exactly, a longer path as a suffix.
Targets(uri, rel) ==
    IF Len(rel) = 1 THEN uri = rel ELSE IsSuffix(rel, uri)

Touching(f) == {q \in Requests : Targets(q.uri, RelPath[f])}

\* The clients that loaded a decided file, and the files a decided client
\* loaded (that direction compares tails only), as far as they are open.
Linked(A) ==
    {c \in Clients \ A : Open(c) /\ \E f \in A \cap Files :
                            \E q \in Touching(f) : q.ip = c /\ q.ok}
    \cup {f \in Files \ A : Open(f) /\ \E q \in Requests :
                            q.ip \in A /\ q.ok /\ IsSuffix(RelPath[f], q.uri)}

\* _collect_confirmed: the indicators a confirmation collects.
Collected(a) ==
    IF a \in Clients THEN {<<"ip", a>>}
    ELSE {<<"path", a>>} \cup {<<"ip", q.ip>> : q \in Touching(a)}
         \cup (IF Fresh(a) THEN {<<"hash", index[a].c>>} ELSE {})

Backed(arts) == {i \in Iocs : \E a \in Artifacts :
                    i \in DOMAIN arts[a].sources /\ arts[a].sources[i]}

-----------------------------------------------------------------------------
NewArt == [rows |-> <<>>, inherit |-> NoInherit, except |-> {}, sources |-> <<>>]

Init ==
    /\ art = [a \in Artifacts |-> NewArt]
    /\ disk = [f \in Files |-> [c |-> Held[f], v |-> 0]]
    /\ index = [f \in Files |-> NoIndex] /\ prepared = [f \in Files |-> None]
    /\ receipt = [f \in Files |-> None]
    /\ assess = [c \in Contents |-> NoDecision] /\ opinion = [c \in Contents |-> None]
    /\ box = {} /\ own = {}
    /\ hand = [a \in Artifacts |-> None] /\ named = {}
    /\ scans = 0 /\ asked = 0

\* The history after a step to arts that names the artifacts A with decision s.
\* A decision that has lapsed, or that is inherited by now, is not by hand any more.
Note(A, s, arts) ==
    /\ named' = A
    /\ hand' = [a \in Artifacts |->
                  IF a \in A THEN IF s \in Final THEN s ELSE None
                  ELSE IF /\ hand[a] = Fold(arts[a].rows)
                          /\ arts[a].inherit \in {NoInherit, art[a].inherit}
                       THEN hand[a] ELSE None]

Ask == asked < MaxRequests /\ asked' = asked + 1

\* The findings' row updates and follow-ups of a decision about A, from arts.
Decided(A, s, arts) ==
    LET moved == IF s = "confirmed" THEN Linked(A) ELSE {} IN
    [a \in Artifacts |->
       CASE a \in A /\ s = "confirmed" -> Track(SetAll(arts[a], s), Collected(a))
         [] a \in A /\ s # "confirmed" ->
              IF Decision(a) = "confirmed" THEN Retire(SetAll(arts[a], s))
              ELSE SetAll(arts[a], s)
         [] a \in moved -> SetAll(arts[a], "confirmed")
         [] OTHER -> arts[a]]

\* POST triage without share_content: decide about the artifacts A.  An
\* inherited decision becomes an independent one (content_exceptions).
Triage(A, s) ==
    /\ Ask /\ A # {} /\ \A a \in A : Known(a)
    /\ s = "confirmed" => \A f \in A \cap Files : index[f] = NoIndex \/ Reviewable(f)
    /\ LET own_ == [a \in Artifacts |->
                      IF a \in A /\ art[a].inherit # NoInherit
                      THEN [art[a] EXCEPT !.except = @ \cup {art[a].inherit.content}]
                      ELSE art[a]]
       IN art' = Decided(A, s, own_)
    /\ box' = box \cup (IF s = "confirmed" THEN UNION {Collected(a) : a \in A} ELSE {})
    /\ Note(A, s, art')
    /\ UNCHANGED <<disk, index, prepared, receipt, assess, opinion, own, scans>>

\* POST triage with share_content for one file: the decision is bound to the
\* content and reaches every copy (assess_content, then inherit_all).
Share(f, s) ==
    /\ Ask /\ Known(f) /\ s # "reviewed" /\ Reviewable(f)
    /\ LET c == index[f].c
           prior == art[f].inherit
           bound == [art EXCEPT ![f].except = @ \ {c},
                                ![f].inherit =
                      [content |-> c, state |-> s, origin |-> f,
                       prev |-> IF prior # NoInherit THEN prior.prev ELSE "new"]]
           mid == Decided({f}, s, bound)
           as == [assess EXCEPT ![c] = [state |-> s, origin |-> f]]
       IN /\ assess' = as
          /\ opinion' = [opinion EXCEPT ![c] = None]
          /\ art' = [a \in Artifacts |->
                       IF a \in Files /\ index[a] # NoIndex /\ index[a].c = c
                       THEN Inherit(a, mid[a], index[a], as) ELSE mid[a]]
    /\ box' = box \cup Backed(art')
    /\ Note({f}, None, art')
    /\ UNCHANGED <<disk, index, prepared, receipt, own, scans>>

\* share_content without a content index, or for a state that is not shared.
ShareUnbound(f, s) ==
    /\ Ask /\ Known(f) /\ (s = "reviewed" \/ index[f] = NoIndex)
    /\ art' = Decided({f}, s, art)
    /\ box' = box \cup (IF s = "confirmed" THEN Collected(f) ELSE {})
    /\ Note({f}, s, art')
    /\ UNCHANGED <<disk, index, prepared, receipt, assess, opinion, own, scans>>

\* The analyst adds an indicator, or assesses the hash of one.
AddIoc(i) ==
    /\ Ask /\ i \notin own
    /\ box' = box \cup {i} /\ own' = own \cup {i} /\ named' = {}
    /\ UNCHANGED <<art, disk, index, prepared, receipt, assess, opinion, hand, scans>>

AssessIoc(c, s) ==
    /\ Ask /\ <<"hash", c>> \in box
    /\ opinion' = [opinion EXCEPT ![c] = s] /\ named' = {}
    /\ UNCHANGED <<art, disk, index, prepared, receipt, assess, box, own, hand, scans>>

-----------------------------------------------------------------------------
\* Evidence changes on disk.
Change(f, c) ==
    /\ disk[f].v < MaxChanges /\ c # disk[f].c
    /\ disk' = [disk EXCEPT ![f] = [c |-> c, v |-> @.v + 1]] /\ named' = {}
    /\ UNCHANGED <<art, index, prepared, receipt, assess, opinion, box, own, hand,
                   scans, asked>>

\* A scanner reads f and reports the rules R; its rows are refreshed, those
\* it did not reproduce retire, and the content is remembered with them.
Reported(x, R) ==
    [x EXCEPT !.rows = [r \in DOMAIN x.rows \cup R |->
        CASE r \in R /\ r \in DOMAIN x.rows -> [x.rows[r] EXCEPT !.live = TRUE]
          [] r \in R /\ r \notin DOMAIN x.rows -> [triage |-> "new", live |-> TRUE]
          [] r \notin R /\ r = Shared -> x.rows[r]
          [] OTHER -> [x.rows[r] EXCEPT !.live = FALSE]]]

Scan(a, R) ==
    /\ scans < MaxScans /\ scans' = scans + 1
    /\ a \in Files => disk[a].c # Gone
    /\ art' = [art EXCEPT ![a] = Reported(IF a \in Files THEN Remember(@, disk[a].c)
                                          ELSE @, R)]
    /\ IF a \in Files
       THEN /\ receipt' = [receipt EXCEPT ![a] = disk[a].c]
            /\ index' = [index EXCEPT ![a] = disk[a]]
       ELSE UNCHANGED <<receipt, index>>
    /\ Note({}, None, art')
    /\ UNCHANGED <<disk, prepared, assess, opinion, box, own, asked>>

\* backups.build: IOC assessments are seeded, every file below a webroot is
\* indexed (changed content loses what it inherited), every decision spreads.
Prepare ==
    LET as == [c \in Contents |->
                 IF opinion[c] = None THEN assess[c]
                 ELSE [state |-> opinion[c], origin |-> "ioc"]]
        ix == [f \in Files |-> IF disk[f].c = Gone THEN index[f] ELSE disk[f]]
    IN /\ assess' = as /\ opinion' = [c \in Contents |-> None]
       /\ index' = ix
       /\ prepared' = [f \in Files |-> IF disk[f].c = Gone THEN None ELSE disk[f].c]
       /\ art' = [a \in Artifacts |->
                    IF a \in Clients THEN art[a]
                    ELSE LET x == IF disk[a].c = Gone THEN art[a]
                                  ELSE Remember(art[a], disk[a].c)
                         IN Inherit(a, x, ix[a], as)]
       /\ box' = box \cup Backed(art')
       /\ Note({}, None, art')
       /\ UNCHANGED <<disk, receipt, own, scans, asked>>

\* POST triage/iocs/remove: indicators whose collection was withdrawn.
RemoveIocs(I, A) ==
    /\ Ask
    /\ LET dead == {i \in I \cap box :
                      /\ \E a \in A : i \in DOMAIN art[a].sources /\ ~art[a].sources[i]
                      /\ i \notin Backed(art) /\ i \notin own}
       IN /\ box' = box \ dead
          /\ art' = [a \in Artifacts |->
                       [art[a] EXCEPT !.sources =
                          [i \in DOMAIN art[a].sources \ dead |-> art[a].sources[i]]]]
    /\ named' = {}
    /\ UNCHANGED <<disk, index, prepared, receipt, assess, opinion, own, hand, scans>>

Next ==
    \/ \E A \in Selections, s \in States : Triage(A, s)
    \/ \E f \in Files, s \in States : Share(f, s)
    \/ \E f \in Files, s \in States : ShareUnbound(f, s)
    \/ \E a \in Artifacts : RemoveIocs(Iocs, {a})
    \/ \E c \in Contents : AddIoc(<<"hash", c>>)
    \/ \E c \in Contents, s \in {"confirmed", "dismissed", "new"} : AssessIoc(c, s)
    \/ \E f \in Files, c \in Contents \cup {Gone} : Change(f, c)
    \/ \E a \in Artifacts, R \in SUBSET Rules : Scan(a, R)
    \/ Prepare

Spec == Init /\ [][Next]_vars

-----------------------------------------------------------------------------
(* The work list: copies of a file in several backups are one unit         *)
(* (backups.grouping, group_rows; artifacts.review_progress).              *)

Active(a, muted) == LiveRows(art[a].rows) \ muted
Worst(a) == Judged(art[a].rows) \cap (Severe \cup {Shared}) # {}
Unit(a) ==
    IF a \in Files /\ prepared[a] # None
    THEN {b \in Files : Known(b) /\ prepared[b] = prepared[a] /\ RelPath[b] = RelPath[a]}
    ELSE {a}
Units == {Unit(a) : a \in {b \in Artifacts : Known(b)}}

\* Mutant: contradicting copies count with the decision of the first.
UnitDecisionFirst(U) ==
    LET s == {Decision(a) : a \in U} IN
    CASE "reviewed" \in s -> "reviewed"
      [] s \cap Final # {} -> CHOOSE d \in s \cap Final : TRUE
      [] OTHER -> "new"
UnitDecision(U) ==
    LET s == {Decision(a) : a \in U} IN
    CASE "new" \in s \/ Final \subseteq s -> "new"
      [] "new" \notin s /\ ~(Final \subseteq s) /\ "reviewed" \in s -> "reviewed"
      [] OTHER -> CHOOSE d \in s : TRUE

UnitShown(U, muted) == \E a \in U : Active(a, muted) # {} \/ Decision(a) # "new"
Remaining(muted) ==
    {U \in Units : UnitShown(U, muted) /\ (\E a \in U : Worst(a))
                   /\ UnitDecision(U) \notin Final}
-----------------------------------------------------------------------------
\* A decision inherited through content is only ever recorded for the content
\* the index holds for the file: whichever of a scan, a preparation or a shared
\* decision learns of new content withdraws what the old content inherited.
InheritanceMatchesIndex ==
    \A f \in Files : art[f].inherit # NoInherit =>
        index[f] # NoIndex /\ index[f].c = art[f].inherit.content

\* The rows when the one that a shared decision has added is not live any more.
WithoutShared(rows) ==
    [r \in DOMAIN rows |->
        IF r = Shared THEN [triage |-> rows[r].triage, live |-> FALSE] ELSE rows[r]]

\* This step withdraws what the file has inherited, and with it retires the only
\* row that carried the decision.
LosesItsRow(a) ==
    /\ art[a].inherit # NoInherit /\ art'[a].inherit # art[a].inherit
    /\ Fold(WithoutShared(art[a].rows)) # hand[a]

\* A step rewrites the triage of an artifact decided by hand only if it names it.
OnlyNamedAreRewritten ==
    \A a \in Artifacts \ named' : hand[a] # None /\ ~LosesItsRow(a) =>
        \A r \in DOMAIN art[a].rows :
            art'[a].rows[r].triage = art[a].rows[r].triage

\* What the analyst decided about an artifact is never rewritten by a step
\* that does not name it: not by a decision travelling along the log index,
\* not by a decision shared, withdrawn or seeded for the same content, and
\* not because the file changed ("Independent earlier decisions are preserved",
\* docs/website-backups.md:71).  Only a file whose decision stands in the row of a
\* withdrawn inheritance, beside a newer finding, loses it: restore_inheritance
\* retires that row also where the decision is independent.
HandDecisionsStand == [][OnlyNamedAreRewritten]_vars

\* When the progress shows nothing left to decide, whatever rules are muted,
\* every actionable artifact with an active finding is confirmed or dismissed
\* and the copies counted as one unit do not contradict each other.
NothingLeftMeansDecided ==
    \A muted \in SUBSET Rules : Remaining(muted) = {} =>
        \A a \in Artifacts :
            Known(a) /\ Worst(a) /\ Active(a, muted) # {} =>
                /\ Decision(a) \in Final
                /\ \A b \in Unit(a) : Decision(b) = Decision(a)
=============================================================================
