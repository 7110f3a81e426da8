---------------------------- MODULE ReviewProofs ----------------------------
(***************************************************************************)
(* Proofs about Review for any files, clients, rules, contents and log,    *)
(* and for any number of edits, scans and requests.                        *)
(*                                                                         *)
(* The argument: what a file inherits is bound to the content that the     *)
(* index holds for it, since whoever learns of another content withdraws   *)
(* it first (InheritanceMatchesIndex).  A decision by hand makes an        *)
(* exception of the content the file has inherited from (Independent), so  *)
(* neither withdrawing nor inheriting again is allowed to touch it, and a  *)
(* decision that travels along the log takes open artifacts only.          *)
(***************************************************************************)
EXTENDS Review, TLAPS

-----------------------------------------------------------------------------
(* The inductive invariant.                                                *)

Marks == States \cup {None}
Row == [triage : Marks, live : BOOLEAN]
Stamp == [c : Contents \cup {Gone}, v : Nat]
Entry == [c : Contents, v : Nat]
Verdict == [state : Marks, origin : Files \cup {None, "ioc"}]

\* An artifact with well formed rows; whatever its sources are.
IsArt(x) ==
    /\ x = [rows |-> x.rows, inherit |-> x.inherit, except |-> x.except, sources |-> x.sources]
    /\ x.rows \in [DOMAIN x.rows -> Row]
    /\ x.inherit.prev \in Marks

RTypeOK ==
    /\ art = [a \in Artifacts |-> art[a]] /\ \A a \in Artifacts : IsArt(art[a])
    /\ disk \in [Files -> Stamp] /\ index \in [Files -> Entry \cup {NoIndex}]
    /\ assess \in [Contents -> Verdict] /\ opinion \in [Contents -> Marks]
    /\ hand \in [Artifacts -> Final \cup {None}]

\* A decision by hand is the decision of its artifact, and independent of what the
\* artifact has inherited.
Stands(h, x) ==
    h # None => /\ h = Fold(x.rows)
                /\ x.inherit # NoInherit => x.inherit.content \in x.except
Independent == \A a \in Artifacts : Stands(hand[a], art[a])

RInv == RTypeOK /\ InheritanceMatchesIndex /\ Independent

-----------------------------------------------------------------------------
(* Folding.                                                                *)

\* The decision of an artifact is one of four, and a final one is that of a row.
LEMMA FoldStates ==
    ASSUME NEW rows
    PROVE  /\ Fold(rows) \in States
           /\ Fold(rows) \in Final => DOMAIN rows # {}
BY DEF Fold, States, Final, Judged, LiveRows

\* Rows that all have the same mark.
LEMMA FoldAll ==
    ASSUME NEW x, IsArt(x), DOMAIN x.rows # {}, NEW s \in Final
    PROVE  Fold(SetAll(x, s).rows) = s
<1> DEFINE rows == SetAll(x, s).rows
<1>1. /\ DOMAIN rows = DOMAIN x.rows
      /\ \A r \in DOMAIN rows : rows[r].triage = s
  BY DEF SetAll, IsArt, Row
<1>2. Judged(rows) # {} /\ Judged(rows) \subseteq DOMAIN rows
  BY <1>1 DEF Judged, LiveRows
<1> HIDE DEF rows
<1>3. {rows[r].triage : r \in Judged(rows)} = {s}
  BY <1>1, <1>2
<1> QED BY <1>3 DEF Fold, Final, rows

-----------------------------------------------------------------------------
(* Changes of one artifact.                                                *)

\* Marks, sources and single rows are changed without touching the rest.
LEMMA SetAllFacts ==
    ASSUME NEW x, IsArt(x), NEW s \in Marks
    PROVE  /\ IsArt(SetAll(x, s)) /\ DOMAIN SetAll(x, s).rows = DOMAIN x.rows
           /\ SetAll(x, s).inherit = x.inherit /\ SetAll(x, s).except = x.except
<1> DEFINE new == [r \in DOMAIN x.rows |-> [x.rows[r] EXCEPT !.triage = s]]
<1>1. new \in [DOMAIN x.rows -> Row]
  BY DEF IsArt, Row
<1> HIDE DEF new
<1>2. SetAll(x, s) = [rows |-> new, inherit |-> x.inherit, except |-> x.except,
                      sources |-> x.sources]
  BY DEF SetAll, IsArt, new
<1> QED BY <1>1, <1>2 DEF IsArt

LEMMA SourcesFacts ==
    ASSUME NEW x, IsArt(x), NEW I
    PROVE  /\ IsArt(Retire(x)) /\ Retire(x).rows = x.rows
           /\ Retire(x).inherit = x.inherit /\ Retire(x).except = x.except
           /\ IsArt(Track(x, I)) /\ Track(x, I).rows = x.rows
           /\ Track(x, I).inherit = x.inherit /\ Track(x, I).except = x.except
<1>1. ASSUME NEW sources
      PROVE  /\ IsArt([x EXCEPT !.sources = sources])
             /\ [x EXCEPT !.sources = sources].rows = x.rows
             /\ [x EXCEPT !.sources = sources].inherit = x.inherit
             /\ [x EXCEPT !.sources = sources].except = x.except
  BY DEF IsArt
<1>2. PICK s1 : Retire(x) = [x EXCEPT !.sources = s1]
  BY DEF Retire
<1>3. PICK s2 : Track(x, I) = [x EXCEPT !.sources = s2]
  BY DEF Track
<1> QED BY <1>1, <1>2, <1>3

LEMMA PutRowFacts ==
    ASSUME NEW x, IsArt(x), NEW r, NEW row \in Row
    PROVE  /\ IsArt(PutRow(x, r, row)) /\ DOMAIN PutRow(x, r, row).rows = DOMAIN x.rows \cup {r}
           /\ \A q \in DOMAIN x.rows \cup {r} :
                 PutRow(x, r, row).rows[q] = IF q = r THEN row ELSE x.rows[q]
           /\ PutRow(x, r, row).inherit = x.inherit /\ PutRow(x, r, row).except = x.except
<1> DEFINE new == [q \in DOMAIN x.rows \cup {r} |-> IF q = r THEN row ELSE x.rows[q]]
<1>1. new \in [DOMAIN x.rows \cup {r} -> Row]
  BY DEF IsArt
<1>2. /\ DOMAIN new = DOMAIN x.rows \cup {r}
      /\ \A q \in DOMAIN x.rows \cup {r} : new[q] = IF q = r THEN row ELSE x.rows[q]
  OBVIOUS
<1>3. PutRow(x, r, row) = [x EXCEPT !.rows = new]
  BY DEF PutRow
<1> HIDE DEF new
<1>4. PutRow(x, r, row) = [rows |-> new, inherit |-> x.inherit, except |-> x.except,
                           sources |-> x.sources]
  BY <1>3 DEF IsArt
<1> QED BY <1>1, <1>2, <1>4 DEF IsArt

LEMMA BindFacts ==
    ASSUME NEW x, IsArt(x), NEW i, i.prev \in Marks
    PROVE  /\ IsArt([x EXCEPT !.inherit = i]) /\ [x EXCEPT !.inherit = i].rows = x.rows
           /\ [x EXCEPT !.inherit = i].inherit = i
           /\ [x EXCEPT !.inherit = i].except = x.except
BY DEF IsArt

LEMMA NoInheritMark == NoInherit.prev \in Marks
BY DEF NoInherit, Marks

\* restore_inheritance: nothing is inherited any more, and where the decision is
\* independent the rows keep their marks.
LEMMA RestoreFacts ==
    ASSUME NEW x, IsArt(x)
    PROVE  /\ IsArt(Restore(x)) /\ Restore(x).inherit = NoInherit
           /\ Restore(x).except = x.except
           /\ x.inherit.content \in x.except => Restore(x).rows = WithoutShared(x.rows)
<1> DEFINE hit == /\ DOMAIN x.rows # {} /\ x.inherit.content \notin x.except
                  /\ Fold(x.rows) = x.inherit.state
           back == IF hit THEN Retire(SetAll(x, x.inherit.prev)) ELSE x
           row == [triage |-> IF hit THEN "new" ELSE back.rows[Shared].triage, live |-> FALSE]
           shown == IF Shared \in DOMAIN x.rows THEN PutRow(back, Shared, row) ELSE back
<1>1. IsArt(back) /\ DOMAIN back.rows = DOMAIN x.rows /\ back.except = x.except
      /\ (~hit => back = x)
  <2>1. CASE hit
    <3>1. x.inherit.prev \in Marks
      BY DEF IsArt
    <3>2. PICK y : y = SetAll(x, x.inherit.prev)
      OBVIOUS
    <3>3. IsArt(y) /\ DOMAIN y.rows = DOMAIN x.rows /\ y.except = x.except
      BY <3>1, <3>2, SetAllFacts
    <3>4. back = Retire(y)
      BY <2>1, <3>2
    <3> QED BY <2>1, <3>3, <3>4, SourcesFacts
  <2>2. CASE ~hit
    BY <2>2
  <2> QED BY <2>1, <2>2
<1>2. Shared \in DOMAIN x.rows => row \in Row
  BY <1>1 DEF IsArt, Row, Marks, States
<1>3. Restore(x) = [shown EXCEPT !.inherit = NoInherit]
  BY DEF Restore
<1> HIDE DEF hit, back, row
<1>4. IsArt(shown) /\ shown.except = x.except
  BY <1>1, <1>2, PutRowFacts
<1>5. x.inherit.content \in x.except => shown.rows = WithoutShared(x.rows)
  <2> SUFFICES ASSUME x.inherit.content \in x.except PROVE shown.rows = WithoutShared(x.rows)
    OBVIOUS
  <2>1. ~hit /\ back = x
    BY <1>1 DEF hit
  <2>2. CASE Shared \in DOMAIN x.rows
    <3>1. row = [triage |-> x.rows[Shared].triage, live |-> FALSE]
      BY <2>1, <2>2 DEF row
    <3>2. shown = PutRow(x, Shared, row)
      BY <2>1, <2>2
    <3>3. DOMAIN x.rows \cup {Shared} = DOMAIN x.rows
      BY <2>2
    <3>4. shown.rows = [q \in DOMAIN x.rows |-> IF q = Shared THEN row ELSE x.rows[q]]
      BY <3>2, <3>3 DEF PutRow, IsArt
    <3> QED BY <3>1, <3>4 DEF WithoutShared
  <2>3. CASE Shared \notin DOMAIN x.rows
    <3>1. shown = x
      BY <2>1, <2>3
    <3>2. x.rows = [r \in DOMAIN x.rows |-> x.rows[r]]
      BY DEF IsArt
    <3>3. WithoutShared(x.rows) = [r \in DOMAIN x.rows |-> x.rows[r]]
      BY <2>3 DEF WithoutShared
    <3> QED BY <3>1, <3>2, <3>3
  <2> QED BY <2>2, <2>3
<1> HIDE DEF shown
<1> QED BY <1>3, <1>4, <1>5, BindFacts, NoInheritMark

\* remember: what is still inherited is of this content.
LEMMA RememberFacts ==
    ASSUME NEW x, IsArt(x), NEW c
    PROVE  /\ IsArt(Remember(x, c)) /\ Remember(x, c).except = x.except
           /\ Remember(x, c).inherit # NoInherit => Remember(x, c).inherit.content = c
           /\ \/ Remember(x, c) = x
              \/ x.inherit # NoInherit /\ x.inherit.content # c /\ Remember(x, c) = Restore(x)
BY RestoreFacts DEF Remember

\* inherit_all: rows are only added, and what is inherited is of the indexed content.
LEMMA ApplyFacts ==
    ASSUME NEW f, NEW x, IsArt(x), NEW d, d.state \in Marks
    PROVE  /\ IsArt(Apply(f, x, d)) /\ Apply(f, x, d).except = x.except
           /\ \/ Apply(f, x, d).inherit = x.inherit
              \/ Apply(f, x, d).inherit.content = d.content
<1> DEFINE before == Fold(x.rows)
           new == [triage |-> "new", live |-> TRUE]
           seen == IF DOMAIN x.rows = {} THEN PutRow(x, Shared, new)
                   ELSE IF d.state = "confirmed" /\ Shared \in DOMAIN x.rows
                   THEN PutRow(x, Shared, [x.rows[Shared] EXCEPT !.live = TRUE]) ELSE x
           i == [content |-> d.content, state |-> d.state, origin |-> d.origin,
                 prev |-> IF x.inherit # NoInherit THEN x.inherit.prev ELSE before]
           set == SetAll(seen, d.state)
           put == [set EXCEPT !.inherit = i]
           I == {<<"path", f>>, <<"hash", d.content>>}
<1>1. new \in Row
  BY DEF Row, Marks, States
<1>2. Shared \in DOMAIN x.rows => [x.rows[Shared] EXCEPT !.live = TRUE] \in Row
  BY DEF IsArt, Row
<1>3. i.prev \in Marks /\ i.content = d.content
  BY FoldStates DEF IsArt, Marks
<1>4. Apply(f, x, d) \in {seen, put, Track(put, I), Retire(put)}
  BY DEF Apply
<1> HIDE DEF new, i, before, I
<1>5. IsArt(seen) /\ seen.except = x.except /\ seen.inherit = x.inherit
  BY <1>1, <1>2, PutRowFacts
<1> HIDE DEF seen
<1>6. IsArt(set) /\ set.except = x.except
  BY <1>5, SetAllFacts
<1> HIDE DEF set
<1>7. IsArt(put) /\ put.except = x.except /\ put.inherit = i
  BY <1>3, <1>6, BindFacts
<1> HIDE DEF put
<1>8. /\ IsArt(Track(put, I)) /\ Track(put, I).except = x.except /\ Track(put, I).inherit = i
      /\ IsArt(Retire(put)) /\ Retire(put).except = x.except /\ Retire(put).inherit = i
  BY <1>7, SourcesFacts
<1> QED BY <1>3, <1>4, <1>5, <1>7, <1>8

Inherits(x, y, ix) ==
    /\ IsArt(y) /\ y.except = x.except
    /\ \/ y.inherit \in {x.inherit, NoInherit}
       \/ ix # NoIndex /\ y.inherit.content = ix.c

LEMMA InheritFacts ==
    ASSUME NEW f, NEW x, IsArt(x), NEW ix, NEW as, ix # NoIndex => as[ix.c].state \in Marks
    PROVE  Inherits(x, Inherit(f, x, ix, as), ix)
<1> DEFINE d == [content |-> ix.c, state |-> as[ix.c].state, origin |-> as[ix.c].origin]
<1>1. /\ Inherit(f, x, ix, as) \in {x, Restore(x), Apply(f, x, d)}
      /\ ix = NoIndex => Inherit(f, x, ix, as) = x
  BY DEF Inherit
<1>2. d.content = ix.c /\ (ix # NoIndex => d.state \in Marks)
  OBVIOUS
<1> HIDE DEF d
<1>3. CASE Inherit(f, x, ix, as) = x
  BY <1>3 DEF Inherits
<1>4. CASE Inherit(f, x, ix, as) = Restore(x)
  BY <1>4, RestoreFacts DEF Inherits
<1>5. CASE Inherit(f, x, ix, as) = Apply(f, x, d) /\ ix # NoIndex
  BY <1>2, <1>5, ApplyFacts DEF Inherits
<1> QED BY <1>1, <1>3, <1>4, <1>5

\* A decision that is final, and an exception of what has been inherited: both stay.
LEMMA InheritStands ==
    ASSUME NEW f, NEW x, NEW ix, NEW as, Fold(x.rows) \in Final,
           x.inherit # NoInherit => x.inherit.content \in x.except /\ x.inherit.content = ix.c
    PROVE  Inherit(f, x, ix, as) = x
<1>1. DOMAIN x.rows # {}
  BY FoldStates
<1>2. CASE x.inherit # NoInherit
  BY <1>2 DEF Inherit
<1>3. CASE x.inherit = NoInherit
  <2>1. \A d : Undisturbed(f, x, d)
    BY <1>1, <1>3 DEF Undisturbed
  <2> QED BY <1>3, <2>1 DEF Inherit
<1> QED BY <1>2, <1>3

-----------------------------------------------------------------------------
(* Decisions of the analyst.                                               *)

\* What is decided by hand is not open for a decision that travels.
LEMMA HandIsClosed ==
    ASSUME RInv, NEW a \in Artifacts, hand[a] # None
    PROVE  /\ Decision(a) \in Final /\ Fold(art[a].rows) \in Final /\ ~Open(a)
           /\ art[a].inherit # NoInherit => art[a].inherit.content \in art[a].except
<1>1. hand[a] \in Final /\ hand[a] = Fold(art[a].rows)
  BY DEF RInv, RTypeOK, Independent, Stands
<1> QED BY <1>1 DEF RInv, Independent, Stands, Decision, Open

\* What an artifact has inherited, and what it is an exception of, stay.
SameBinding(x, y) == IsArt(y) /\ y.inherit = x.inherit /\ y.except = x.except

\* A decision marks what it names and what is open.
LEMMA DecidedFacts ==
    ASSUME NEW A, NEW s \in States, NEW arts, \A a \in Artifacts : IsArt(arts[a]),
           NEW a \in Artifacts
    PROVE  /\ SameBinding(arts[a], Decided(A, s, arts)[a])
           /\ a \notin A /\ ~Open(a) => Decided(A, s, arts)[a] = arts[a]
           /\ a \in A /\ s \in Final /\ DOMAIN arts[a].rows # {} =>
                 Fold(Decided(A, s, arts)[a].rows) = s
<1> DEFINE y == Decided(A, s, arts)[a]
           set == SetAll(arts[a], s)
<1>1. /\ IsArt(arts[a]) /\ IsArt(set) /\ set.inherit = arts[a].inherit
      /\ set.except = arts[a].except
      /\ s \in Final /\ DOMAIN arts[a].rows # {} => Fold(set.rows) = s
  BY SetAllFacts, FoldAll DEF Marks
<1>2. CASE a \in A
  <2>1. y \in {Track(set, Collected(a)), Retire(set), set}
    BY <1>2 DEF Decided
  <2> HIDE DEF y, set
  <2> QED BY <1>1, <1>2, <2>1, SourcesFacts DEF y, SameBinding
<1>3. CASE a \notin A
  <2>1. /\ y \in {SetAll(arts[a], "confirmed"), arts[a]}
        /\ ~Open(a) => y = arts[a]
    BY <1>3 DEF Decided, Linked
  <2>2. "confirmed" \in Marks
    BY DEF Marks, States
  <2> HIDE DEF y
  <2> QED BY <1>1, <1>3, <2>1, <2>2, SetAllFacts DEF y, SameBinding
<1> QED BY <1>2, <1>3

\* The history follows.
LEMMA NoteStands ==
    ASSUME RInv, NEW A, NEW s, NEW arts, Note(A, s, arts),
           \A a \in Artifacts \ A : art[a].except \subseteq arts[a].except,
           s \in Final => \A a \in Artifacts \cap A :
               /\ Fold(arts[a].rows) = s
               /\ arts[a].inherit # NoInherit => arts[a].inherit.content \in arts[a].except
    PROVE  /\ hand' \in [Artifacts -> Final \cup {None}]
           /\ \A a \in Artifacts : Stands(hand'[a], arts[a])
<1>1. hand \in [Artifacts -> Final \cup {None}]
  BY DEF RInv, RTypeOK
<1>2. hand' \in [Artifacts -> Final \cup {None}]
  BY <1>1 DEF Note
<1>3. ASSUME NEW a \in Artifacts PROVE Stands(hand'[a], arts[a])
  <2>1. CASE a \in A
    BY <2>1 DEF Note, Stands
  <2>2. CASE a \notin A /\ hand'[a] # None
    <3>1. /\ hand[a] # None /\ hand'[a] = hand[a] /\ hand[a] = Fold(arts[a].rows)
          /\ arts[a].inherit \in {NoInherit, art[a].inherit}
      BY <2>2 DEF Note
    <3>2. art[a].inherit # NoInherit => art[a].inherit.content \in art[a].except
      BY <3>1, HandIsClosed
    <3> QED BY <2>2, <3>1, <3>2 DEF Stands
  <2>3. CASE hand'[a] = None
    BY <2>3 DEF Stands
  <2> QED BY <2>1, <2>2, <2>3
<1> QED BY <1>2, <1>3

\* As long as the index stays, only what is inherited of indexed content is new.
LEMMA SameIndex ==
    ASSUME RInv, UNCHANGED index,
           \A f \in Files : \/ art'[f].inherit \in {NoInherit, art[f].inherit}
                            \/ index[f] # NoIndex /\ art'[f].inherit.content = index[f].c
    PROVE  InheritanceMatchesIndex'
BY DEF RInv, InheritanceMatchesIndex

\* The case, as every step finds it.
LEMMA Facts ==
    ASSUME RInv
    PROVE  /\ art = [a \in Artifacts |-> art[a]]
           /\ \A a \in Artifacts : IsArt(art[a])
           /\ Files \subseteq Artifacts
           /\ \A f \in Files : index[f] \in Entry \cup {NoIndex} /\ disk[f] \in Stamp
           /\ \A f \in Files : art[f].inherit # NoInherit =>
                  index[f] # NoIndex /\ index[f].c = art[f].inherit.content
BY DEF RInv, RTypeOK, InheritanceMatchesIndex, Artifacts

Kept == RInv' /\ OnlyNamedAreRewritten

-----------------------------------------------------------------------------
(* The steps.                                                              *)

\* The artifacts, with exceptions of what those in A have inherited.
Excepted(A, s, arts) ==
    \A a \in Artifacts :
        /\ IsArt(arts[a]) /\ arts[a].inherit = art[a].inherit
        /\ arts[a].rows = art[a].rows
        /\ a \notin A => arts[a] = art[a]
        /\ a \in A /\ s \in Final =>
             /\ DOMAIN art[a].rows # {}
             /\ art[a].inherit # NoInherit => art[a].inherit.content \in arts[a].except

\* A decision about A, where arts makes exceptions of what A has inherited.
LEMMA DecisionKeeps ==
    ASSUME RInv, NEW A, NEW s \in States, NEW arts,
           art' = Decided(A, s, arts), Note(A, s, art'),
           UNCHANGED <<disk, index, assess, opinion>>,
           Excepted(A, s, arts)
    PROVE  Kept
<1>1. ASSUME NEW a \in Artifacts
      PROVE  /\ IsArt(art'[a]) /\ art'[a].inherit = art[a].inherit
             /\ art'[a].except = arts[a].except
             /\ a \notin A /\ ~Open(a) => art'[a] = art[a]
             /\ a \in A /\ s \in Final => Fold(art'[a].rows) = s
  <2>1. \A b \in Artifacts : IsArt(arts[b])
    BY DEF Excepted
  <2>2. /\ SameBinding(arts[a], art'[a])
        /\ a \notin A /\ ~Open(a) => art'[a] = arts[a]
        /\ a \in A /\ s \in Final /\ DOMAIN arts[a].rows # {} => Fold(art'[a].rows) = s
    BY <1>1, <2>1, DecidedFacts
  <2> QED BY <1>1, <2>2 DEF Excepted, SameBinding
<1>2. hand' \in [Artifacts -> Final \cup {None}] /\ Independent'
  <2>1. \A a \in Artifacts \ A : art[a].except \subseteq art'[a].except
    BY <1>1 DEF Excepted
  <2>2. s \in Final => \A a \in Artifacts \cap A :
            /\ Fold(art'[a].rows) = s
            /\ art'[a].inherit # NoInherit => art'[a].inherit.content \in art'[a].except
    BY <1>1 DEF Excepted
  <2> QED BY <2>1, <2>2, NoteStands DEF Independent
<1>3. RTypeOK'
  <2>1. art' = [a \in Artifacts |-> art'[a]]
    BY DEF Decided
  <2> QED BY <1>1, <1>2, <2>1 DEF RInv, RTypeOK
<1>4. InheritanceMatchesIndex'
  BY <1>1, Facts, SameIndex
<1>5. OnlyNamedAreRewritten
  <2>1. named' = A
    BY DEF Note
  <2> QED BY <1>1, <2>1, HandIsClosed DEF OnlyNamedAreRewritten
<1> QED BY <1>2, <1>3, <1>4, <1>5 DEF Kept, RInv

\* POST triage: an inherited decision becomes an independent one.
LEMMA TriageKeeps ==
    ASSUME RInv, NEW A, NEW s \in States, Triage(A, s) PROVE Kept
<1> DEFINE own_ == [a \in Artifacts |->
                      IF a \in A /\ art[a].inherit # NoInherit
                      THEN [art[a] EXCEPT !.except = @ \cup {art[a].inherit.content}]
                      ELSE art[a]]
<1>1. art' = Decided(A, s, own_) /\ Note(A, s, art')
  BY DEF Triage
<1>2. ASSUME NEW a \in Artifacts
      PROVE  /\ IsArt(own_[a]) /\ own_[a].inherit = art[a].inherit
             /\ own_[a].rows = art[a].rows
             /\ a \in A /\ art[a].inherit # NoInherit =>
                   art[a].inherit.content \in own_[a].except
             /\ a \notin A => own_[a] = art[a]
  <2>1. CASE a \in A /\ art[a].inherit # NoInherit
    <3> DEFINE e == art[a].except \cup {art[a].inherit.content}
    <3>1. own_[a] = [art[a] EXCEPT !.except = e]
      BY <1>2, <2>1
    <3>2. IsArt(art[a])
      BY <1>2, Facts
    <3>3. e = art[a].except \cup {art[a].inherit.content}
      OBVIOUS
    <3> HIDE DEF e, own_
    <3>4. own_[a] = [rows |-> art[a].rows, inherit |-> art[a].inherit, except |-> e,
                     sources |-> art[a].sources]
      BY <3>1, <3>2 DEF IsArt
    <3> QED BY <2>1, <3>2, <3>3, <3>4 DEF IsArt
  <2>2. CASE ~(a \in A /\ art[a].inherit # NoInherit)
    <3>1. own_[a] = art[a]
      BY <1>2, <2>2
    <3> HIDE DEF own_
    <3> QED BY <1>2, <2>2, <3>1, Facts
  <2> QED BY <2>1, <2>2
<1> HIDE DEF own_
<1>3. \A a \in A : DOMAIN art[a].rows # {}
  BY DEF Triage, Known
<1>4. UNCHANGED <<disk, index, assess, opinion>>
  BY DEF Triage
<1>5. Excepted(A, s, own_)
  BY <1>2, <1>3 DEF Excepted
<1> QED BY <1>1, <1>4, <1>5, DecisionKeeps

\* share_content where the content is not indexed: there is nothing inherited.
LEMMA ShareUnboundKeeps ==
    ASSUME RInv, NEW f \in Files, NEW s \in States, ShareUnbound(f, s) PROVE Kept
<1>1. art' = Decided({f}, s, art) /\ Note({f}, s, art')
      /\ UNCHANGED <<disk, index, assess, opinion>>
  BY DEF ShareUnbound
<1>2. DOMAIN art[f].rows # {}
  BY DEF ShareUnbound, Known
<1>3. s \in Final => art[f].inherit = NoInherit
  BY Facts DEF ShareUnbound, Final
<1>4. Excepted({f}, s, art)
  BY <1>2, <1>3, Facts DEF Excepted
<1> QED BY <1>1, <1>4, DecisionKeeps

\* What is decided by hand for an artifact keeps it as it is when a decision about its
\* content arrives: it agrees, or it is an exception.
LEMMA HandKeepsOut ==
    ASSUME RInv, NEW f \in Files, hand[f] # None, NEW as
    PROVE  Inherit(f, art[f], index[f], as) = art[f]
<1>1. f \in Artifacts
  BY Facts
<1>2. /\ Fold(art[f].rows) \in Final
      /\ art[f].inherit # NoInherit => art[f].inherit.content \in art[f].except
  BY <1>1, HandIsClosed
<1>3. art[f].inherit # NoInherit => art[f].inherit.content = index[f].c
  BY Facts
<1>4. PICK x : x = art[f]
  OBVIOUS
<1>5. PICK ix : ix = index[f]
  OBVIOUS
<1>6. /\ Fold(x.rows) \in Final
      /\ x.inherit # NoInherit => x.inherit.content \in x.except /\ x.inherit.content = ix.c
  BY <1>2, <1>3, <1>4, <1>5
<1>7. Inherit(f, x, ix, as) = x
  BY <1>6, InheritStands
<1> QED BY <1>4, <1>5, <1>7

\* share_content: bound to the content that the index holds for the file.
LEMMA ShareKeeps ==
    ASSUME ReviewConstants, RInv, NEW f \in Files, NEW s \in States, Share(f, s) PROVE Kept
<1> DEFINE c == index[f].c
           prior == art[f].inherit
           i == [content |-> c, state |-> s, origin |-> f,
                 prev |-> IF prior # NoInherit THEN prior.prev ELSE "new"]
           bound == [art EXCEPT ![f].except = @ \ {c}, ![f].inherit = i]
           mid == Decided({f}, s, bound)
           as == [assess EXCEPT ![c] = [state |-> s, origin |-> f]]
<1>1. index[f] # NoIndex
  BY DEF Share, Reviewable, Fresh
<1>2. c \in Contents /\ i.content = c /\ i.prev \in Marks
  BY <1>1, Facts DEF Entry, IsArt, Marks, States
<1>3. /\ as \in [Contents -> Verdict] /\ as[c].state = s /\ s \in Marks
  BY <1>2 DEF RInv, RTypeOK, Verdict, Marks
<1>4. /\ assess' = as /\ UNCHANGED <<disk, index>> /\ Note({f}, None, art')
      /\ opinion' = [opinion EXCEPT ![c] = None]
      /\ art' = [a \in Artifacts |->
                   IF a \in Files /\ index[a] # NoIndex /\ index[a].c = c
                   THEN Inherit(a, mid[a], index[a], as) ELSE mid[a]]
  BY DEF Share
<1>5. ASSUME NEW a \in Artifacts
      PROVE  /\ IsArt(bound[a])
             /\ a # f => bound[a] = art[a]
             /\ a = f => bound[a].inherit = i
  <2>1. IsArt(art[a])
    BY <1>5, Facts
  <2>2. art = [b \in Artifacts |-> art[b]]
    BY Facts
  <2>3. CASE a = f
    <3> DEFINE e == art[f].except \ {c}
    <3> HIDE DEF i, c
    <3>1. bound[f] = [art[f] EXCEPT !.except = e, !.inherit = i]
      BY <1>5, <2>2, <2>3
    <3> HIDE DEF e, bound
    <3>2. bound[f] = [rows |-> art[f].rows, inherit |-> i, except |-> e,
                      sources |-> art[f].sources]
      BY <2>1, <2>3, <3>1 DEF IsArt
    <3> QED BY <1>2, <2>1, <2>3, <3>2 DEF IsArt
  <2>4. CASE a # f
    <3>1. bound[a] = art[a]
      BY <1>5, <2>2, <2>4
    <3> HIDE DEF bound
    <3> QED BY <2>1, <2>4, <3>1
  <2> QED BY <2>3, <2>4
<1> HIDE DEF bound, i, as
<1>6. ASSUME NEW a \in Artifacts
      PROVE  SameBinding(bound[a], mid[a]) /\ (a # f /\ ~Open(a) => mid[a] = art[a])
  <2>1. \A b \in Artifacts : IsArt(bound[b])
    BY <1>5
  <2>2. PICK A : A = {f}
    OBVIOUS
  <2>3. /\ SameBinding(bound[a], Decided(A, s, bound)[a])
        /\ a \notin A /\ ~Open(a) => Decided(A, s, bound)[a] = bound[a]
    BY <1>6, <2>1, DecidedFacts
  <2> QED BY <1>5, <1>6, <2>2, <2>3
<1> HIDE DEF mid, c
<1>7. ASSUME NEW a \in Artifacts
      PROVE  /\ IsArt(art'[a]) /\ art'[a].except = mid[a].except
             /\ \/ art'[a].inherit \in {mid[a].inherit, NoInherit}
                \/ a \in Files /\ index[a] # NoIndex /\ art'[a].inherit.content = index[a].c
  <2>1. IsArt(mid[a])
    BY <1>6, <1>7 DEF SameBinding
  <2>2. CASE a \in Files /\ index[a] # NoIndex /\ index[a].c = c
    <3>1. index[a] # NoIndex => as[index[a].c].state \in Marks
      BY <1>3, <2>2
    <3>2. art'[a] = Inherit(a, mid[a], index[a], as)
      BY <1>4, <1>7, <2>2
    <3>3. Inherits(mid[a], Inherit(a, mid[a], index[a], as), index[a])
      BY <2>1, <3>1, InheritFacts
    <3> QED BY <2>2, <3>2, <3>3 DEF Inherits
  <2>3. CASE ~(a \in Files /\ index[a] # NoIndex /\ index[a].c = c)
    BY <1>4, <1>7, <2>1, <2>3
  <2> QED BY <2>2, <2>3
<1>8. hand' \in [Artifacts -> Final \cup {None}] /\ Independent'
  <2>1. \A a \in Artifacts \ {f} : art[a].except \subseteq art'[a].except
    BY <1>5, <1>6, <1>7 DEF SameBinding
  <2>2. None \notin Final
    BY DEF None, Final
  <2> QED BY <1>4, <2>1, <2>2, NoteStands DEF Independent
<1>9. RTypeOK'
  <2>1. art' = [a \in Artifacts |-> art'[a]]
    BY <1>4
  <2>2. opinion' \in [Contents -> Marks]
    BY <1>4 DEF RInv, RTypeOK, Marks
  <2> QED BY <1>3, <1>4, <1>7, <1>8, <2>1, <2>2 DEF RInv, RTypeOK
<1>10. InheritanceMatchesIndex'
  <2>1. ASSUME NEW g \in Files
        PROVE  \/ art'[g].inherit \in {NoInherit, art[g].inherit}
               \/ index[g] # NoIndex /\ art'[g].inherit.content = index[g].c
    <3>1. g \in Artifacts
      BY <2>1, Facts
    <3>2. CASE g = f
      BY <1>1, <1>2, <1>5, <1>6, <1>7, <3>1, <3>2 DEF SameBinding, c
    <3>3. CASE g # f
      BY <1>5, <1>6, <1>7, <3>1, <3>3 DEF SameBinding
    <3> QED BY <3>2, <3>3
  <2> QED BY <1>4, <2>1, SameIndex
<1>11. OnlyNamedAreRewritten
  <2>1. ASSUME NEW a \in Artifacts, a # f, hand[a] # None PROVE art'[a] = art[a]
    <3>1. mid[a] = art[a]
      BY <1>6, <2>1, HandIsClosed
    <3>2. a \in Files => Inherit(a, art[a], index[a], as) = art[a]
      BY <2>1, HandKeepsOut
    <3> QED BY <1>4, <2>1, <3>1, <3>2
  <2>2. named' = {f}
    BY <1>4 DEF Note
  <2> QED BY <2>1, <2>2 DEF OnlyNamedAreRewritten
<1> QED BY <1>8, <1>9, <1>10, <1>11 DEF Kept, RInv

\* A step that leaves every row, binding and decision as it is.
LEMMA QuietKeeps ==
    ASSUME RInv, art' = [a \in Artifacts |-> art'[a]],
           \A a \in Artifacts : SameBinding(art[a], art'[a]) /\ art'[a].rows = art[a].rows,
           disk' \in [Files -> Stamp], opinion' \in [Contents -> Marks],
           UNCHANGED <<index, assess, hand>>
    PROVE  Kept
<1>1. RTypeOK'
  BY DEF RInv, RTypeOK, SameBinding
<1>2. InheritanceMatchesIndex' /\ Independent'
  BY Facts DEF RInv, InheritanceMatchesIndex, Independent, Stands, SameBinding
<1>3. OnlyNamedAreRewritten
  BY DEF OnlyNamedAreRewritten
<1> QED BY <1>1, <1>2, <1>3 DEF Kept, RInv

LEMMA SameArt ==
    ASSUME RInv, UNCHANGED art
    PROVE  /\ art' = [a \in Artifacts |-> art'[a]]
           /\ \A a \in Artifacts : SameBinding(art[a], art'[a]) /\ art'[a].rows = art[a].rows
BY Facts DEF SameBinding

LEMMA AddIocKeeps ==
    ASSUME RInv, NEW i, AddIoc(i) PROVE Kept
BY SameArt, QuietKeeps DEF AddIoc, RInv, RTypeOK

LEMMA AssessIocKeeps ==
    ASSUME RInv, NEW c, NEW s \in {"confirmed", "dismissed", "new"}, AssessIoc(c, s)
    PROVE  Kept
<1>1. s \in Marks
  BY DEF Marks, States
<1>2. opinion' \in [Contents -> Marks]
  BY <1>1 DEF AssessIoc, RInv, RTypeOK
<1> QED BY <1>2, SameArt, QuietKeeps DEF AssessIoc, RInv, RTypeOK

\* An edit of a file changes nothing that is decided.
LEMMA ChangeKeeps ==
    ASSUME RInv, NEW f \in Files, NEW c \in Contents \cup {Gone}, Change(f, c) PROVE Kept
<1>1. disk' \in [Files -> Stamp]
  BY DEF Change, RInv, RTypeOK, Stamp
<1> QED BY <1>1, SameArt, QuietKeeps DEF Change, RInv, RTypeOK

\* Removing indicators touches the sources only.
LEMMA RemoveKeeps ==
    ASSUME RInv, NEW I, NEW A, RemoveIocs(I, A) PROVE Kept
<1>1. PICK dead :
        art' = [a \in Artifacts |->
                  [art[a] EXCEPT !.sources =
                     [i \in DOMAIN art[a].sources \ dead |-> art[a].sources[i]]]]
  BY DEF RemoveIocs
<1>2. ASSUME NEW a \in Artifacts
      PROVE  SameBinding(art[a], art'[a]) /\ art'[a].rows = art[a].rows
  <2> DEFINE sources == [i \in DOMAIN art[a].sources \ dead |-> art[a].sources[i]]
  <2>1. art'[a] = [art[a] EXCEPT !.sources = sources]
    BY <1>1, <1>2
  <2>2. IsArt(art[a])
    BY <1>2, Facts
  <2> HIDE DEF sources
  <2>3. art'[a] = [rows |-> art[a].rows, inherit |-> art[a].inherit,
                   except |-> art[a].except, sources |-> sources]
    BY <2>1, <2>2 DEF IsArt
  <2> QED BY <2>2, <2>3 DEF IsArt, SameBinding
<1>3. art' = [a \in Artifacts |-> art'[a]]
  BY <1>1
<1> QED BY <1>2, <1>3, QuietKeeps DEF RemoveIocs, RInv, RTypeOK

\* A scan adds rows and retires rows; it marks none.
MarksStay(x, y) ==
    DOMAIN x.rows \subseteq DOMAIN y.rows
    /\ \A r \in DOMAIN x.rows : y.rows[r].triage = x.rows[r].triage

LEMMA ReportedFacts ==
    ASSUME NEW x, IsArt(x), NEW R
    PROVE  SameBinding(x, Reported(x, R)) /\ MarksStay(x, Reported(x, R))
<1> DEFINE new == [r \in DOMAIN x.rows \cup R |->
        CASE r \in R /\ r \in DOMAIN x.rows -> [x.rows[r] EXCEPT !.live = TRUE]
          [] r \in R /\ r \notin DOMAIN x.rows -> [triage |-> "new", live |-> TRUE]
          [] r \notin R /\ r = Shared -> x.rows[r]
          [] OTHER -> [x.rows[r] EXCEPT !.live = FALSE]]
<1>1. ASSUME NEW r \in DOMAIN x.rows \cup R
      PROVE  new[r] \in Row /\ (r \in DOMAIN x.rows => new[r].triage = x.rows[r].triage)
  <2>1. r \in DOMAIN x.rows => x.rows[r] \in Row
    BY DEF IsArt
  <2>2. CASE r \in R /\ r \in DOMAIN x.rows
    BY <2>1, <2>2 DEF Row
  <2>3. CASE r \in R /\ r \notin DOMAIN x.rows
    BY <2>3 DEF Row, Marks, States
  <2>4. CASE r \notin R /\ r = Shared
    BY <1>1, <2>1, <2>4
  <2>5. CASE r \notin R /\ r # Shared
    <3>1. new[r] = [x.rows[r] EXCEPT !.live = FALSE]
      BY <1>1, <2>5
    <3> QED BY <1>1, <2>1, <2>5, <3>1 DEF Row
  <2> QED BY <1>1, <2>2, <2>3, <2>4, <2>5
<1>2. /\ new \in [DOMAIN x.rows \cup R -> Row] /\ DOMAIN new = DOMAIN x.rows \cup R
      /\ \A r \in DOMAIN x.rows : new[r].triage = x.rows[r].triage
  BY <1>1
<1>3. Reported(x, R) = [x EXCEPT !.rows = new]
  BY DEF Reported
<1> HIDE DEF new
<1>4. Reported(x, R) = [rows |-> new, inherit |-> x.inherit, except |-> x.except,
                        sources |-> x.sources]
  BY <1>3 DEF IsArt
<1> QED BY <1>2, <1>4 DEF IsArt, SameBinding, MarksStay

\* What a file with a decision by hand is after its content was remembered: as it was,
\* or without what it had inherited, and with its marks.
LEMMA HandRemembers ==
    ASSUME RInv, NEW f \in Files, hand[f] # None, NEW c
    PROVE  \/ Remember(art[f], c) = art[f]
           \/ /\ art[f].inherit # NoInherit /\ art[f].inherit.content # c
              /\ Remember(art[f], c).inherit = NoInherit
              /\ Remember(art[f], c).rows = WithoutShared(art[f].rows)
<1>1. IsArt(art[f]) /\ f \in Artifacts
  BY Facts
<1>2. art[f].inherit # NoInherit => art[f].inherit.content \in art[f].except
  BY <1>1, HandIsClosed
<1>3. PICK x : x = art[f]
  OBVIOUS
<1>4. \/ Remember(x, c) = x
      \/ x.inherit # NoInherit /\ x.inherit.content # c /\ Remember(x, c) = Restore(x)
  BY <1>1, <1>3, RememberFacts
<1>5. /\ Restore(x).inherit = NoInherit
      /\ x.inherit.content \in x.except => Restore(x).rows = WithoutShared(x.rows)
  BY <1>1, <1>3, RestoreFacts
<1> QED BY <1>2, <1>3, <1>4, <1>5

\* Remembering binds the file to the content.
Remembers(x, y, c) ==
    /\ IsArt(y) /\ y.except = x.except
    /\ y.inherit # NoInherit => y.inherit.content = c

LEMMA RememberBinds ==
    ASSUME NEW x, IsArt(x), NEW c PROVE Remembers(x, Remember(x, c), c)
BY RememberFacts DEF Remembers

\* Content on disk makes an index entry.
LEMMA EntryFacts ==
    ASSUME ReviewConstants, RInv, NEW f \in Files, disk[f].c # Gone
    PROVE  disk[f] \in Entry /\ disk[f] # NoIndex
BY Facts DEF ReviewConstants, Stamp, Entry, NoIndex

\* A scan remembers the content it has read, and indexes it.
LEMMA ScanKeeps ==
    ASSUME ReviewConstants, RInv, NEW a \in Artifacts, NEW R \in SUBSET Rules, Scan(a, R)
    PROVE  Kept
<1> DEFINE x == IF a \in Files THEN Remember(art[a], disk[a].c) ELSE art[a]
<1>1. /\ a \in Files => disk[a].c # Gone
      /\ art' = [art EXCEPT ![a] = Reported(x, R)]
      /\ index' = IF a \in Files THEN [index EXCEPT ![a] = disk[a]] ELSE index
      /\ Note({}, None, art') /\ UNCHANGED <<disk, assess, opinion>>
  BY DEF Scan
<1>2. /\ IsArt(x) /\ x.except = art[a].except
      /\ a \in Files /\ x.inherit # NoInherit => x.inherit.content = disk[a].c
      /\ a \notin Files => x = art[a]
  <2>1. IsArt(art[a])
    BY Facts
  <2>2. CASE a \in Files
    <3>1. Remembers(art[a], x, disk[a].c)
      BY <2>1, <2>2, RememberBinds
    <3> HIDE DEF x
    <3> QED BY <2>2, <3>1 DEF Remembers
  <2>3. CASE a \notin Files
    BY <2>1, <2>3
  <2> QED BY <2>2, <2>3
<1>3. hand[a] # None => MarksStay(art[a], x)
  <2>1. CASE a \in Files /\ hand[a] # None
    <3>1. x = art[a] \/ x.rows = WithoutShared(art[a].rows)
      BY <2>1, HandRemembers
    <3> HIDE DEF x
    <3> QED BY <3>1 DEF MarksStay, WithoutShared
  <2>2. CASE a \notin Files
    BY <2>2 DEF MarksStay
  <2> QED BY <2>1, <2>2
<1> HIDE DEF x
<1>4. SameBinding(x, Reported(x, R)) /\ MarksStay(x, Reported(x, R))
  BY <1>2, ReportedFacts
<1>5. /\ art'[a] = Reported(x, R)
      /\ \A b \in Artifacts \ {a} : art'[b] = art[b]
      /\ art' = [b \in Artifacts |-> art'[b]]
  <2>1. art = [b \in Artifacts |-> art[b]]
    BY Facts
  <2>2. PICK y : y = Reported(x, R)
    OBVIOUS
  <2> QED BY <1>1, <2>1, <2>2
<1>6. ASSUME NEW b \in Artifacts PROVE IsArt(art'[b]) /\ art'[b].except = art[b].except
  <2>1. CASE b = a
    BY <1>2, <1>4, <1>5, <2>1 DEF SameBinding
  <2>2. CASE b # a
    BY <1>5, <1>6, <2>2, Facts
  <2> QED BY <2>1, <2>2
<1>7. hand' \in [Artifacts -> Final \cup {None}] /\ Independent'
  <2>1. \A b \in Artifacts \ {} : art[b].except \subseteq art'[b].except
    BY <1>6
  <2>2. None \notin Final
    BY DEF None, Final
  <2> QED BY <1>1, <2>1, <2>2, NoteStands DEF Independent
<1>8. RTypeOK'
  <2>1. index' \in [Files -> Entry \cup {NoIndex}]
    BY <1>1, EntryFacts DEF RInv, RTypeOK
  <2> QED BY <1>1, <1>5, <1>6, <1>7, <2>1 DEF RInv, RTypeOK
<1>9. InheritanceMatchesIndex'
  <2>1. ASSUME NEW f \in Files, art'[f].inherit # NoInherit
        PROVE  index'[f] # NoIndex /\ index'[f].c = art'[f].inherit.content
    <3>1. index \in [Files -> Entry \cup {NoIndex}]
      BY DEF RInv, RTypeOK
    <3>2. CASE f = a
      <4>1. index'[f] = disk[f] /\ disk[f] # NoIndex
        BY <1>1, <2>1, <3>1, <3>2, EntryFacts
      <4>2. art'[f].inherit = x.inherit
        BY <1>4, <1>5, <3>2 DEF SameBinding
      <4> QED BY <1>2, <2>1, <3>2, <4>1, <4>2
    <3>3. CASE f # a
      <4>1. index'[f] = index[f]
        BY <1>1, <2>1, <3>1, <3>3
      <4>2. art'[f] = art[f]
        BY <1>5, <2>1, <3>3, Facts
      <4> QED BY <2>1, <4>1, <4>2, Facts
    <3> QED BY <3>2, <3>3
  <2> QED BY <2>1 DEF InheritanceMatchesIndex
<1>10. OnlyNamedAreRewritten
  <2>1. ASSUME NEW b \in Artifacts, hand[b] # None PROVE MarksStay(art[b], art'[b])
    <3>1. CASE b = a
      BY <1>3, <1>4, <1>5, <2>1, <3>1 DEF MarksStay
    <3>2. CASE b # a
      BY <1>5, <2>1, <3>2 DEF MarksStay
    <3> QED BY <3>1, <3>2
  <2> QED BY <2>1 DEF OnlyNamedAreRewritten, MarksStay
<1> QED BY <1>7, <1>8, <1>9, <1>10 DEF Kept, RInv

\* A preparation remembers the content of every file on disk, then every decision about
\* content arrives.  What a decision by hand loses, it loses with its row (LosesItsRow).
LEMMA PrepareKeeps ==
    ASSUME ReviewConstants, RInv, Prepare PROVE Kept
<1> DEFINE as == [c \in Contents |->
                    IF opinion[c] = None THEN assess[c]
                    ELSE [state |-> opinion[c], origin |-> "ioc"]]
           ix == [f \in Files |-> IF disk[f].c = Gone THEN index[f] ELSE disk[f]]
           x == [f \in Files |-> IF disk[f].c = Gone THEN art[f]
                                 ELSE Remember(art[f], disk[f].c)]
<1>1. /\ assess' = as /\ opinion' = [c \in Contents |-> None] /\ index' = ix
      /\ Note({}, None, art') /\ UNCHANGED disk
  BY DEF Prepare
<1>2. /\ art' = [a \in Artifacts |-> art'[a]]
      /\ \A a \in Clients : art'[a] = art[a]
      /\ \A f \in Files : art'[f] = Inherit(f, x[f], ix[f], as)
  <2>1. art' = [a \in Artifacts |->
                  IF a \in Clients THEN art[a]
                  ELSE LET y == IF disk[a].c = Gone THEN art[a]
                                ELSE Remember(art[a], disk[a].c)
                       IN Inherit(a, y, ix[a], as)]
    BY DEF Prepare
  <2>2. Files \cap Clients = {} /\ Artifacts = Files \cup Clients
    BY DEF ReviewConstants, Artifacts
  <2>3. ASSUME NEW f \in Files PROVE art'[f] = Inherit(f, x[f], ix[f], as)
    <3>1. x[f] = IF disk[f].c = Gone THEN art[f] ELSE Remember(art[f], disk[f].c)
      BY <2>3
    <3> HIDE DEF x, ix, as
    <3> QED BY <2>1, <2>2, <2>3, <3>1
  <2> HIDE DEF x, ix, as
  <2> QED BY <2>1, <2>2, <2>3
<1>3. as \in [Contents -> Verdict]
  BY DEF RInv, RTypeOK, Verdict, Marks
<1>4. ASSUME NEW f \in Files
      PROVE  /\ ix[f] \in Entry \cup {NoIndex}
             /\ disk[f].c # Gone => ix[f] = disk[f] /\ ix[f] # NoIndex
             /\ disk[f].c = Gone => ix[f] = index[f]
  <2>1. ix[f] = IF disk[f].c = Gone THEN index[f] ELSE disk[f]
    BY <1>4
  <2> HIDE DEF ix
  <2> QED BY <1>4, <2>1, EntryFacts, Facts
<1>5. ASSUME NEW f \in Files
      PROVE  /\ IsArt(x[f]) /\ x[f].except = art[f].except
             /\ x[f].inherit # NoInherit =>
                   ix[f] # NoIndex /\ ix[f].c = x[f].inherit.content
  <2>1. IsArt(art[f])
    BY <1>5, Facts
  <2>2. CASE disk[f].c = Gone
    <3>1. x[f] = art[f] /\ ix[f] = index[f]
      BY <1>5, <2>2
    <3> HIDE DEF x, ix
    <3> QED BY <1>5, <2>1, <3>1, Facts
  <2>3. CASE disk[f].c # Gone
    <3>1. x[f] = Remember(art[f], disk[f].c)
      BY <1>5, <2>3
    <3> HIDE DEF x, ix
    <3>2. Remembers(art[f], x[f], disk[f].c)
      BY <2>1, <3>1, RememberBinds
    <3> QED BY <1>4, <2>3, <3>2 DEF Remembers
  <2> QED BY <2>2, <2>3
<1>6. ASSUME NEW f \in Files, hand[f] # None
      PROVE  /\ x[f].inherit # NoInherit => x[f] = art[f]
             /\ \/ x[f] = art[f]
                \/ /\ art[f].inherit # NoInherit /\ art[f].inherit.content # ix[f].c
                   /\ x[f].inherit = NoInherit
                   /\ x[f].rows = WithoutShared(art[f].rows)
  <2>1. CASE disk[f].c = Gone
    BY <1>6, <2>1
  <2>2. CASE disk[f].c # Gone
    <3>1. x[f] = Remember(art[f], disk[f].c) /\ ix[f] = disk[f]
      BY <1>6, <2>2
    <3> HIDE DEF x, ix
    <3> QED BY <1>6, <3>1, HandRemembers
  <2> QED BY <2>1, <2>2
<1> HIDE DEF x, ix, as
<1>7. ASSUME NEW f \in Files PROVE Inherits(x[f], art'[f], ix[f])
  <2>1. ix[f] # NoIndex => as[ix[f].c].state \in Marks
    BY <1>3, <1>4, <1>7 DEF Entry, Verdict
  <2>2. Inherits(x[f], Inherit(f, x[f], ix[f], as), ix[f])
    BY <1>5, <1>7, <2>1, InheritFacts
  <2> QED BY <1>2, <1>7, <2>2
<1>8. ASSUME NEW a \in Artifacts PROVE IsArt(art'[a]) /\ art'[a].except = art[a].except
  <2>1. CASE a \in Files
    BY <1>5, <1>7, <2>1 DEF Inherits
  <2>2. CASE a \in Clients
    BY <1>2, <1>8, <2>2, Facts
  <2> QED BY <1>8, <2>1, <2>2 DEF Artifacts
<1>9. hand' \in [Artifacts -> Final \cup {None}] /\ Independent'
  <2>1. \A b \in Artifacts \ {} : art[b].except \subseteq art'[b].except
    BY <1>8
  <2>2. None \notin Final
    BY DEF None, Final
  <2> QED BY <1>1, <2>1, <2>2, NoteStands DEF Independent
<1>10. RTypeOK'
  <2>1. index' \in [Files -> Entry \cup {NoIndex}]
    BY <1>1, <1>4 DEF ix
  <2>2. opinion' \in [Contents -> Marks]
    BY <1>1 DEF Marks
  <2> QED BY <1>1, <1>2, <1>3, <1>8, <1>9, <2>1, <2>2 DEF RInv, RTypeOK
<1>11. InheritanceMatchesIndex'
  BY <1>1, <1>5, <1>7 DEF InheritanceMatchesIndex, Inherits
<1>12. OnlyNamedAreRewritten
  <2>1. ASSUME NEW f \in Files, hand[f] # None, ~LosesItsRow(f)
        PROVE  \A r \in DOMAIN art[f].rows : art'[f].rows[r].triage = art[f].rows[r].triage
    <3>1. hand[f] = Fold(art[f].rows) /\ Fold(art[f].rows) \in Final
      BY <2>1, Facts, HandIsClosed DEF RInv, Independent, Stands
    <3>2. ASSUME Fold(x[f].rows) = hand[f] PROVE art'[f] = x[f]
      <4>1. PICK y : y = x[f]
        OBVIOUS
      <4>2. PICK j : j = ix[f]
        OBVIOUS
      <4>3. x[f].inherit # NoInherit => x[f].inherit.content \in art[f].except
        BY <1>6, <2>1, Facts, HandIsClosed
      <4>4. /\ Fold(y.rows) \in Final
            /\ y.inherit # NoInherit => y.inherit.content \in y.except /\ y.inherit.content = j.c
        BY <1>5, <2>1, <3>1, <3>2, <4>1, <4>2, <4>3
      <4>5. Inherit(f, y, j, as) = y
        BY <4>4, InheritStands
      <4> QED BY <1>2, <2>1, <4>1, <4>2, <4>5
    <3>3. CASE x[f] = art[f]
      BY <3>1, <3>2, <3>3
    <3>4. CASE x[f] # art[f]
      <4>1. /\ art[f].inherit # NoInherit /\ art[f].inherit.content # ix[f].c
            /\ x[f].inherit = NoInherit /\ x[f].rows = WithoutShared(art[f].rows)
        BY <1>6, <2>1, <3>4
      <4>2. art'[f].inherit # art[f].inherit
        BY <1>7, <2>1, <4>1 DEF Inherits
      <4>3. Fold(x[f].rows) = hand[f]
        BY <2>1, <4>1, <4>2 DEF LosesItsRow
      <4>4. art'[f].rows = WithoutShared(art[f].rows)
        BY <3>2, <4>1, <4>3
      <4> QED BY <4>4 DEF WithoutShared
    <3> QED BY <3>3, <3>4
  <2>2. \A a \in Clients : art'[a] = art[a]
    BY <1>2
  <2> QED BY <2>1, <2>2 DEF OnlyNamedAreRewritten, Artifacts
<1> QED BY <1>9, <1>10, <1>11, <1>12 DEF Kept, RInv

-----------------------------------------------------------------------------
(* The invariant and the theorems.                                         *)

LEMMA ReviewInit == ASSUME ReviewConstants, Init PROVE RInv
<1>1. IsArt(NewArt)
  <2>1. <<>> \in [DOMAIN <<>> -> Row] /\ NoInherit.prev \in Marks
    BY NoInheritMark
  <2>2. /\ NewArt.rows = <<>> /\ NewArt.inherit = NoInherit
        /\ NewArt = [rows |-> NewArt.rows, inherit |-> NewArt.inherit,
                     except |-> NewArt.except, sources |-> NewArt.sources]
    BY DEF NewArt
  <2> QED BY <2>1, <2>2 DEF IsArt
<1>2. /\ art = [a \in Artifacts |-> art[a]]
      /\ \A a \in Artifacts : art[a] = NewArt /\ art[a].inherit = NoInherit
  BY DEF Init, NewArt
<1>3. disk \in [Files -> Stamp] /\ index \in [Files -> Entry \cup {NoIndex}]
  BY DEF Init, ReviewConstants, Stamp
<1>4. assess \in [Contents -> Verdict] /\ opinion \in [Contents -> Marks]
  BY DEF Init, NoDecision, Verdict, Marks
<1>5. hand = [a \in Artifacts |-> None]
  BY DEF Init
<1>6. RTypeOK
  BY <1>1, <1>2, <1>3, <1>4, <1>5 DEF RTypeOK
<1>7. InheritanceMatchesIndex
  BY <1>2 DEF InheritanceMatchesIndex, Artifacts
<1>8. Independent
  BY <1>5 DEF Independent, Stands
<1> QED BY <1>6, <1>7, <1>8 DEF RInv

LEMMA ReviewStep == ASSUME ReviewConstants, RInv, Next PROVE Kept
<1>1. ASSUME NEW A \in Selections, NEW s \in States, Triage(A, s) PROVE Kept
  BY <1>1, TriageKeeps
<1>2. ASSUME NEW f \in Files, NEW s \in States, Share(f, s) PROVE Kept
  BY <1>2, ShareKeeps
<1>3. ASSUME NEW f \in Files, NEW s \in States, ShareUnbound(f, s) PROVE Kept
  BY <1>3, ShareUnboundKeeps
<1>4. ASSUME NEW a \in Artifacts, RemoveIocs(Iocs, {a}) PROVE Kept
  BY <1>4, RemoveKeeps
<1>5. ASSUME NEW c \in Contents, AddIoc(<<"hash", c>>) PROVE Kept
  BY <1>5, AddIocKeeps
<1>6. ASSUME NEW c \in Contents, NEW s \in {"confirmed", "dismissed", "new"}, AssessIoc(c, s)
      PROVE  Kept
  BY <1>6, AssessIocKeeps
<1>7. ASSUME NEW f \in Files, NEW c \in Contents \cup {Gone}, Change(f, c) PROVE Kept
  BY <1>7, ChangeKeeps
<1>8. ASSUME NEW a \in Artifacts, NEW R \in SUBSET Rules, Scan(a, R) PROVE Kept
  BY <1>8, ScanKeeps
<1>9. CASE Prepare
  BY <1>9, PrepareKeeps
<1> QED BY <1>1, <1>2, <1>3, <1>4, <1>5, <1>6, <1>7, <1>8, <1>9 DEF Next

LEMMA ReviewStutter == ASSUME RInv, UNCHANGED vars PROVE RInv'
BY DEF vars, RInv, RTypeOK, InheritanceMatchesIndex, Independent, Stands

\* Every reachable case: well formed rows, bindings of indexed content, decisions by
\* hand that are independent of what was inherited.
THEOREM ReviewInvariant == ASSUME ReviewConstants PROVE Spec => []RInv
<1>1. Init => RInv
  BY ReviewInit
<1>2. RInv /\ [Next]_vars => RInv'
  BY ReviewStep, ReviewStutter DEF Kept
<1> QED BY <1>1, <1>2, PTL DEF Spec

\* What is inherited is of the content that the index holds (backups.py remember,
\* inherit_all, and the shared decision of app.py).
THEOREM InheritanceIsOfIndexedContent ==
    ASSUME ReviewConstants PROVE Spec => []InheritanceMatchesIndex
<1>1. RInv => InheritanceMatchesIndex
  BY DEF RInv
<1> QED BY <1>1, ReviewInvariant, PTL

\* No scan, preparation or decision about something else rewrites what the analyst has
\* decided by hand, unless it retires the row that carried the decision.
THEOREM DecisionsByHandStand == ASSUME ReviewConstants PROVE Spec => HandDecisionsStand
<1>1. RInv /\ [Next]_vars => [OnlyNamedAreRewritten]_vars
  BY ReviewStep DEF Kept
<1> QED BY <1>1, ReviewInvariant, PTL DEF Spec, HandDecisionsStand

\* The progress (backups.grouping, artifacts.review_progress) shows nothing left to
\* decide only when every copy of every actionable artifact has the same final decision.
THEOREM ProgressIsHonest == Spec => []NothingLeftMeansDecided
<1>1. NothingLeftMeansDecided
  <2> SUFFICES ASSUME NEW muted \in SUBSET Rules, Remaining(muted) = {},
                      NEW a \in Artifacts, Known(a), Worst(a), Active(a, muted) # {}
               PROVE  Decision(a) \in Final /\ \A b \in Unit(a) : Decision(b) = Decision(a)
    BY DEF NothingLeftMeansDecided
  <2>1. a \in Unit(a) /\ Unit(a) \in Units
    BY DEF Unit, Units
  <2>2. UnitDecision(Unit(a)) \in Final
    BY <2>1 DEF Remaining, UnitShown
  <2> DEFINE s == {Decision(b) : b \in Unit(a)}
  <2>3. s \subseteq States /\ Decision(a) \in s
    BY <2>1, FoldStates DEF Decision
  <2>4. /\ UnitDecision(Unit(a)) = CASE "new" \in s \/ Final \subseteq s -> "new"
            [] "new" \notin s /\ ~(Final \subseteq s) /\ "reviewed" \in s -> "reviewed"
            [] OTHER -> CHOOSE d \in s : TRUE
        /\ \A b \in Unit(a) : Decision(b) \in s
    BY DEF UnitDecision
  <2> HIDE DEF s
  <2>5. "new" \notin s /\ ~(Final \subseteq s) /\ "reviewed" \notin s
    BY <2>2, <2>4 DEF Final
  <2>6. s \subseteq Final
    BY <2>3, <2>5 DEF States, Final
  <2>7. s = {Decision(a)}
    BY <2>3, <2>5, <2>6 DEF Final
  <2> QED BY <2>3, <2>4, <2>6, <2>7
<1> QED BY <1>1, PTL
=============================================================================
