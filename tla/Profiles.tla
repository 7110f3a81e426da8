------------------------------- MODULE Profiles -------------------------------
(* The identity of a case, its editors and the organizations of a workspace     *)
(* (workspace.py, casework/profile.py): editors send the revision they loaded,   *)
(* a chosen organization gets an entry in pseudonyms.json, an imported case      *)
(* brings its own.                                                               *)
EXTENDS Naturals, Sequences

CONSTANTS
    CaseFolders,  \* case folders
    Editors,      \* requests that create, save or import a case
    Texts,        \* what a name, a reference or a profile may hold
    Names,        \* organization names, as compared without case
    MaxIds, MaxEntered, MaxCuts

VARIABLES
    file,      \* [CaseFolders -> case.json, or NoIdentity]
    meta,      \* [CaseFolders -> its copy in the database]
    registry,  \* pseudonyms.json: the organizations, in the order they came
    editing,   \* [Editors -> the request]
    caselock,  \* who holds the case lock
    unseen,    \* a save replaced what its editor had not loaded (history)
    partial,   \* cases whose import was cut off (history)
    ids,       \* identifiers given so far
    entered, cuts

prvars == <<file, meta, registry, editing, caselock, unseen, partial, ids, entered, cuts>>

NoOrg == 0
Identity == [text : Texts, org : 0 .. MaxIds, orgname : Names \cup {"none"}, notes : Texts]
NoIdentity == [text |-> "none", org |-> NoOrg, orgname |-> "none", notes |-> "none"]
NoEditor == "free"

\* An editor is none that holds nothing; identifiers are numbered.
ASSUME ProfileConstants == NoEditor \notin Editors /\ MaxIds \in Nat

NotEditing == [pc |-> "idle", kind |-> "none", case |-> "none", base |-> NoIdentity,
               form |-> NoIdentity]

PrInit ==
    /\ file = [c \in CaseFolders |-> NoIdentity] /\ meta = [c \in CaseFolders |-> NoIdentity]
    /\ registry = <<>> /\ editing = [e \in Editors |-> NotEditing] /\ caselock = NoEditor
    /\ unseen = FALSE /\ partial = {} /\ ids = 0 /\ entered = 0 /\ cuts = 0

Exists(c) == file[c] # NoIdentity
EditorAt(e, pc) == editing[e].pc = pc
EditorTo(e, pc) == editing' = [editing EXCEPT ![e].pc = pc]
Enters(e, request) ==
    /\ EditorAt(e, "idle") /\ entered < MaxEntered /\ entered' = entered + 1
    /\ editing' = [editing EXCEPT ![e] = request]
Leaves(e) == editing' = [editing EXCEPT ![e] = NotEditing] /\ caselock' = NoEditor

\* Name, reference and profile make the revision; the notes do not.
Revision(i) == <<i.text, i.org, i.orgname>>

\* Mutant: two requests may be between their check and their write.
NotSerialized == TRUE
Serialized == caselock = NoEditor

----------------------------------------------------------------------------
(* Creating and saving                                                     *)

CreateCase(e, c, t, n) ==
    /\ Serialized /\ ~Exists(c)
    /\ Enters(e, [NotEditing EXCEPT !.pc = "organization", !.kind = "create", !.case = c,
                            !.form = [NoIdentity EXCEPT !.text = t, !.notes = t, !.orgname = n]])
    /\ caselock' = e
    /\ UNCHANGED <<file, meta, registry, unseen, partial, ids, cuts>>

\* The editor shows the case as it is.
OpenEditor(e, c) ==
    /\ Exists(c)
    /\ Enters(e, [NotEditing EXCEPT !.pc = "editing", !.kind = "save", !.case = c,
                            !.base = file[c], !.form = file[c]])
    /\ UNCHANGED <<file, meta, registry, caselock, unseen, partial, ids, cuts>>

Filled(form, t, n, notes) ==
    [form EXCEPT !.text = t, !.orgname = n, !.org = IF n = "none" THEN NoOrg ELSE @, !.notes = notes]

\* The form goes as a whole, with the revision that was loaded; another revision
\* is a conflict, and nothing is saved.
Submit(e, t, n) ==
    /\ EditorAt(e, "editing") /\ Serialized
    /\ LET c == editing[e].case IN
       IF Exists(c) /\ Revision(file[c]) = Revision(editing[e].base)
       THEN /\ caselock' = e
            /\ editing' = [editing EXCEPT ![e].pc = "organization",
                                          ![e].form = Filled(@, t, n, file[c].notes)]
       ELSE editing' = [editing EXCEPT ![e] = NotEditing] /\ UNCHANGED caselock
    /\ UNCHANGED <<file, meta, registry, unseen, partial, ids, entered, cuts>>

\* A patch without a revision, of the notes.
SaveNotes(e, c, t) ==
    /\ Serialized /\ Exists(c)
    /\ Enters(e, [NotEditing EXCEPT !.pc = "write", !.kind = "notes", !.case = c,
                            !.base = file[c], !.form = [file[c] EXCEPT !.notes = t]])
    /\ caselock' = e
    /\ UNCHANGED <<file, meta, registry, unseen, partial, ids, cuts>>

\* What does not validate ends the request.
Reject(e) ==
    /\ EditorAt(e, "organization") /\ Leaves(e)
    /\ UNCHANGED <<file, meta, registry, unseen, partial, ids, entered, cuts>>

\* A chosen name is the first organization of that name, or a new one.
Named(n) == {k \in DOMAIN registry : registry[k].name = n}
Chosen(n) ==
    IF n = "none" THEN {NoOrg}
    ELSE IF Named(n) = {} THEN {ids + 1}
    ELSE {registry[k].id : k \in {j \in Named(n) : \A l \in Named(n) : j <= l}}

Organization(e) ==
    /\ EditorAt(e, "organization")
    /\ LET n == editing[e].form.orgname IN
       \E org \in Chosen(n) :
          /\ org = ids + 1 => ids < MaxIds
          /\ registry' = IF org = ids + 1 THEN Append(registry, [id |-> org, name |-> n]) ELSE registry
          /\ ids' = IF org = ids + 1 THEN org ELSE ids
          /\ editing' = [editing EXCEPT ![e].pc = "write", ![e].form.org = org]
    /\ UNCHANGED <<file, meta, caselock, unseen, partial, entered, cuts>>

\* case.json is replaced as a whole.
Write(e) ==
    /\ EditorAt(e, "write")
    /\ LET c == editing[e].case IN
       /\ file' = [file EXCEPT ![c] = editing[e].form]
       /\ unseen' = (unseen \/ (editing[e].kind = "save" /\ Revision(file[c]) # Revision(editing[e].base)))
    /\ EditorTo(e, "meta")
    /\ UNCHANGED <<meta, registry, caselock, partial, ids, entered, cuts>>

WriteCopy(e) ==
    /\ EditorAt(e, "meta")
    /\ meta' = [meta EXCEPT ![editing[e].case] = editing[e].form]
    /\ Leaves(e)
    /\ UNCHANGED <<file, registry, unseen, partial, ids, entered, cuts>>

----------------------------------------------------------------------------
(* Importing                                                               *)

\* The same identifier under another name is refused before anything is unpacked.
Agrees(i) == \A k \in DOMAIN registry : registry[k].id = i.org => registry[k].name = i.orgname

ImportCase(e, c, i) ==
    /\ Serialized /\ ~Exists(c)
    /\ (i.org = NoOrg) = (i.orgname = "none") /\ Agrees(i)
    /\ Enters(e, [NotEditing EXCEPT !.pc = "unpack", !.kind = "import", !.case = c, !.form = i])
    /\ caselock' = e /\ ids' = IF i.org > ids THEN i.org ELSE ids
    /\ UNCHANGED <<file, meta, registry, unseen, partial, cuts>>

UnpackCase(e) ==
    /\ EditorAt(e, "unpack")
    /\ LET c == editing[e].case IN
       \/ /\ file' = [file EXCEPT ![c] = editing[e].form] /\ meta' = [meta EXCEPT ![c] = editing[e].form]
          /\ EditorTo(e, "restore") /\ UNCHANGED caselock
       \/ Leaves(e) /\ UNCHANGED <<file, meta>>
    /\ UNCHANGED <<registry, unseen, partial, ids, entered, cuts>>

\* An archived organization keeps its identifier; when it cannot be registered the
\* new folder goes again.
Known(id) == \E k \in DOMAIN registry : registry[k].id = id

Restore(e) ==
    /\ EditorAt(e, "restore")
    /\ LET i == editing[e].form IN
       \/ /\ registry' = IF i.org = NoOrg \/ Known(i.org) THEN registry
                         ELSE Append(registry, [id |-> i.org, name |-> i.orgname])
          /\ UNCHANGED <<file, meta>>
       \/ /\ file' = [file EXCEPT ![editing[e].case] = NoIdentity]
          /\ meta' = [meta EXCEPT ![editing[e].case] = NoIdentity] /\ UNCHANGED registry
    /\ Leaves(e)
    /\ UNCHANGED <<unseen, partial, ids, entered, cuts>>

PrCrash ==
    /\ cuts < MaxCuts /\ cuts' = cuts + 1
    /\ \E e \in Editors : ~EditorAt(e, "idle")
    /\ partial' = partial \cup {editing[e].case : e \in {e \in Editors : EditorAt(e, "restore")}}
    /\ editing' = [e \in Editors |-> NotEditing] /\ caselock' = NoEditor
    /\ UNCHANGED <<file, meta, registry, unseen, ids, entered>>

PrNext ==
    \/ \E e \in Editors :
          \/ \E c \in CaseFolders, t \in Texts, n \in Names \cup {"none"} : CreateCase(e, c, t, n)
          \/ \E c \in CaseFolders : OpenEditor(e, c) \/ \E t \in Texts : SaveNotes(e, c, t)
          \/ \E t \in Texts, n \in Names \cup {"none"} : Submit(e, t, n)
          \/ Reject(e) \/ Organization(e) \/ Write(e) \/ WriteCopy(e)
          \/ \E c \in CaseFolders, i \in Identity : ImportCase(e, c, i)
          \/ UnpackCase(e) \/ Restore(e)
    \/ PrCrash

PrSpec == PrInit /\ [][PrNext]_prvars

----------------------------------------------------------------------------
(* Properties                                                              *)

\* Two editors do not overwrite each other: what a save replaces is what its editor
\* had loaded, however creating an organization, an import or a crash falls between.
\* An organization a case names is registered under that identifier and that name,
\* except for a case whose import was cut off.
EditorsKeepEachOther ==
    /\ ~unseen
    /\ \A c \in CaseFolders \ partial :
          file[c].org # NoOrg /\ (\A e \in Editors : editing[e].case = c => ~EditorAt(e, "restore")) =>
              \E k \in DOMAIN registry : registry[k] = [id |-> file[c].org, name |-> file[c].orgname]
=============================================================================
