-------------------------------- MODULE Iocs --------------------------------
(***************************************************************************)
(* The indicators of compromise of a case (server/ioc/model.py, ioc/api.py *)
(* and the IOC routes of app.py): objects with an identity, observations   *)
(* that tie them to artifacts and findings, links between them with their  *)
(* support, and the analyst's edits, assessments and withdrawals.  Row ids *)
(* are SQLite's: the id of a deleted last object is given out again.       *)
(*                                                                         *)
(* Every request of ioc/api.py is one immediate transaction.  PATCH of     *)
(* app.py checks first and writes later, so others come in between.        *)
(***************************************************************************)
EXTENDS Naturals, FiniteSets, Functions, FiniteSetsExt

CONSTANTS
    Values,  \* identity keys an object can have
    Kinds,   \* [Values -> type]
    Artifacts,
    Place,   \* [Artifacts -> [hash, path, file : Values]]: what collecting it yields
    Cves,    \* the artifacts with a finding that names a CVE: CveValue, one of Values
    CveValue,
    MaxId, MaxRequests

Relations ==
    [k \in {"hash-of", "located-at", "requested", "used", "cve-context"} |->
        CASE k = "hash-of" -> [from |-> {"hash"}, to |-> {"path", "file"}]
          [] k = "located-at" -> [from |-> {"file"}, to |-> {"path"}]
          [] k = "requested" -> [from |-> {"ip"}, to |-> {"path", "url"}]
          [] k = "used" -> [from |-> {"ip"}, to |-> {"file"}]
          [] k = "cve-context" -> [from |-> {"ip", "file", "url", "domain", "user"},
                                   to |-> {"vulnerability"}]]
Manual == [ioc |-> 0, artifact |-> "none", finding |-> "reference"]
Automatic == [ioc |-> 0, artifact |-> "none", finding |-> "automatic"]
NoPatch == [id |-> 0, value |-> "none", kind |-> "none"]

VARIABLES
    objects,         \* iocs: id -> [value, kind, key, assessment]
    links,           \* ioc_links: <<src, dst, kind>> -> [active, support]
    observed,        \* ioc_observations: {[ioc, artifact, finding]}
    sources,         \* ioc_sources: <<ioc, artifact>> -> active
    members,         \* ioc_file_members: {<<hash, file>>}
    judgements,      \* ioc_assessments: {<<ioc, number>>}
    live,            \* artifacts whose findings are live and not dismissed
    patch,           \* the PATCH request between its checks and its writes
    withdrawnLinks,  \* links whose last word from an analyst is a withdrawal (history)
    requested

ivars == <<objects, links, observed, sources, members, judgements, live, patch, withdrawnLinks,
           requested>>
Store == [o |-> objects, l |-> links, n |-> observed, s |-> sources, m |-> members]

Ids == DOMAIN objects
Nobody == 0

\* The identity of an object is its value read as its type, and unique.
IdentityKey(v, kind) == <<v, kind>>
Find(x, v) ==
    LET same == {i \in DOMAIN x.o : x.o[i].key = IdentityKey(v, Kinds[v])}
    IN  IF same = {} THEN Nobody ELSE Max(same)
NextId(x) == IF DOMAIN x.o = {} THEN 1 ELSE Max(DOMAIN x.o) + 1
Requested == requested < MaxRequests /\ requested' = requested + 1

IInit ==
    /\ objects = <<>> /\ links = <<>> /\ observed = {} /\ sources = <<>>
    /\ members = {} /\ judgements = {}
    /\ live = Artifacts
    /\ patch = NoPatch /\ withdrawnLinks = {} /\ requested = 0

Set(x) ==
    /\ objects' = x.o /\ links' = x.l /\ observed' = x.n /\ sources' = x.s /\ members' = x.m

----------------------------------------------------------------------------
(* Collecting                                                              *)

\* add_ioc: an existing entry keeps its type and note.
Add(x, v) ==
    IF Find(x, v) # Nobody THEN x
    ELSE [x EXCEPT !.o = [i \in DOMAIN @ \cup {NextId(x)} |->
             IF i \in DOMAIN @ THEN @[i]
             ELSE [value |-> v, kind |-> Kinds[v], key |-> IdentityKey(v, Kinds[v]),
                   assessment |-> "malicious"]]]

\* link_iocs never touches a link that is already there; it only adds support.
\* Mutant: a link collected again is active again.
Relinked(old) == TRUE
StaysAs(old) == old.active

Row(x, l) ==
    IF l \in DOMAIN x.l THEN [x.l[l] EXCEPT !.active = StaysAs(x.l[l])]
    ELSE [active |-> TRUE, support |-> {}]
With(x, l, row) == [x EXCEPT !.l = [m \in DOMAIN @ \cup {l} |-> IF m = l THEN row ELSE @[m]]]
Link(x, a, b, k, s) ==
    IF a = b THEN x ELSE With(x, <<a, b, k>>, [Row(x, <<a, b, k>>) EXCEPT !.support = @ \cup s])

Observe(x, i, a, f) ==
    [x EXCEPT !.n = @ \cup {[ioc |-> i, artifact |-> a, finding |-> f]},
              !.s = [k \in DOMAIN @ \cup {<<i, a>>} |-> IF k = <<i, a>> THEN TRUE ELSE @[k]]]

\* collect_file and register_file: hash, path and file of a confirmed artifact.
WithFile(x, a) ==
    LET p == Place[a]
        y == Add(Add(Add(x, p.hash), p.path), p.file)
        h == Find(y, p.hash)
        q == Find(y, p.path)
        f == Find(y, p.file)
    IN  [Link(Link(Observe(y, f, a, "location"), h, q, "hash-of", {Automatic}),
              f, q, "located-at", {Automatic})
            EXCEPT !.m = @ \cup {<<h, f>>}]

\* collect_cves: the CVE is context of the file, through the finding that names it.
WithCve(x, a) ==
    LET y == Add(x, CveValue)
        f == Find(y, Place[a].file)
        c == Find(y, CveValue)
    IN  Link(Observe(y, f, a, "finding"), f, c, "cve-context",
             {Automatic, [ioc |-> f, artifact |-> a, finding |-> "finding"]})

Collect(a) ==
    /\ Requested /\ a \in live
    /\ LET x == WithFile(Store, a)
       IN  Set(IF a \in Cves THEN WithCve(x, a) ELSE x)
    /\ Cardinality(DOMAIN objects') <= MaxId
    /\ UNCHANGED <<judgements, live, patch, withdrawnLinks>>

\* The artifact is dismissed, or its findings retire: its sources are withdrawn.
Retire(a) ==
    /\ Requested /\ a \in live
    /\ live' = live \ {a}
    /\ sources' = [k \in DOMAIN sources |-> sources[k] /\ k[2] # a]
    /\ UNCHANGED <<objects, links, observed, members, judgements, patch, withdrawnLinks>>

Reopen(a) ==
    /\ Requested /\ a \notin live
    /\ live' = live \cup {a}
    /\ UNCHANGED <<objects, links, observed, sources, members, judgements, patch, withdrawnLinks>>

----------------------------------------------------------------------------
(* The analyst                                                             *)

AddManual(v) ==
    /\ Requested /\ Kinds[v] # "file" /\ Find(Store, v) = Nobody
    /\ Cardinality(Ids) < MaxId
    /\ Set(Add(Store, v))
    /\ UNCHANGED <<judgements, live, patch, withdrawnLinks>>

\* Observations count while their finding is live and their source not withdrawn.
ActiveObs(n) ==
    /\ n \in observed
    /\ n.finding = "finding" => n.artifact \in live
    /\ sources[<<n.ioc, n.artifact>>]

\* relationship: admissible types, an active observation of an endpoint or a
\* reference.  An asserted link is active again.
Relate(a, b, k, s) ==
    /\ Requested
    /\ a # b /\ objects[a].kind \in Relations[k].from /\ objects[b].kind \in Relations[k].to
    /\ s = Manual \/ (ActiveObs(s) /\ s.ioc \in {a, b})
    /\ Set(With(Store, <<a, b, k>>,
               [active |-> TRUE, support |-> Row(Store, <<a, b, k>>).support \cup {s}]))
    /\ withdrawnLinks' = withdrawnLinks \ {<<a, b, k>>}
    /\ UNCHANGED <<judgements, live, patch>>

WithdrawLink(l) ==
    /\ Requested
    /\ links' = [links EXCEPT ![l].active = FALSE]
    /\ withdrawnLinks' = withdrawnLinks \cup {l}
    /\ UNCHANGED <<objects, observed, sources, members, judgements, live, patch>>

\* assess keeps its history; its row ids are given out again, too.
AssessObject(i, s) ==
    /\ Requested /\ objects[i].assessment # s
    /\ objects' = [objects EXCEPT ![i].assessment = s]
    /\ judgements' = judgements \cup
          {<<i, IF judgements = {} THEN 1 ELSE Max({j[2] : j \in judgements}) + 1>>}
    /\ UNCHANGED <<links, observed, sources, members, live, patch, withdrawnLinks>>

\* What a link shows: it is active and, if observations support it, one of them
\* still is or an analyst gave a reference.
ShownLinks ==
    {l \in DOMAIN links :
        LET observations == links[l].support \ {Manual, Automatic}
        IN  /\ links[l].active
            /\ observations = {} \/ Manual \in links[l].support
               \/ \E s \in observations : ActiveObs(s)}

\* A file and its hash are bound to their content; a type must suit the links shown.
Bound(i) == objects[i].kind = "file" \/ \E m \in members : m[1] = i
Suits(i, kind) ==
    \A l \in ShownLinks :
        /\ l[1] = i => kind \in Relations[l[3]].from
        /\ l[2] = i => kind \in Relations[l[3]].to
KeyTaken(key, i) == \E j \in Ids \ {i} : objects[j].key = key

\* edit_object; the history it writes to meta is left out.
EditObject(i, v) ==
    /\ Requested /\ objects[i].value # v
    /\ ~Bound(i) /\ Kinds[v] # "file"
    /\ Kinds[v] = objects[i].kind \/ Suits(i, Kinds[v])
    /\ ~KeyTaken(IdentityKey(v, Kinds[v]), i)
    /\ objects' = [objects EXCEPT ![i].value = v, ![i].kind = Kinds[v],
                                  ![i].key = IdentityKey(v, Kinds[v])]
    /\ UNCHANGED <<links, observed, sources, members, judgements, live, patch, withdrawnLinks>>

\* patch_ioc checks the type against the links it sees and only then writes.
PatchChecks(i, kind) ==
    /\ Requested /\ patch = NoPatch
    /\ ~Bound(i) /\ kind # objects[i].kind /\ Suits(i, kind)
    /\ ~KeyTaken(IdentityKey(objects[i].value, kind), i)
    /\ patch' = [id |-> i, value |-> objects[i].value, kind |-> kind]
    /\ UNCHANGED <<objects, links, observed, sources, members, judgements, live, withdrawnLinks>>

PatchWrites ==
    /\ patch # NoPatch
    /\ objects' = IF patch.id \in Ids /\ ~KeyTaken(IdentityKey(patch.value, patch.kind), patch.id)
                  THEN [objects EXCEPT ![patch.id].kind = patch.kind,
                                       ![patch.id].key = IdentityKey(patch.value, patch.kind)]
                  ELSE objects
    /\ patch' = NoPatch
    /\ UNCHANGED <<links, observed, sources, members, judgements, live, withdrawnLinks, requested>>

----------------------------------------------------------------------------
(* Deleting                                                                *)

\* Mutant: the trigger forgets the observations of the object.
ObservationsKept(n, gone) == TRUE
Kept(n, gone) == n.ioc \notin gone

\* The trigger removes what depends on the object, but not its history of edits.
Without(x, gone) ==
    [o |-> Restrict(x.o, DOMAIN x.o \ gone),
     l |-> Restrict(x.l, {l \in DOMAIN x.l : l[1] \notin gone /\ l[2] \notin gone}),
     n |-> {n \in x.n : Kept(n, gone)},
     s |-> Restrict(x.s, {k \in DOMAIN x.s : k[1] \notin gone}),
     m |-> {m \in x.m : m[1] \notin gone /\ m[2] \notin gone}]

\* delete_objects takes the hashes along that only the deleted files own.
DeleteObjects(S) ==
    /\ Requested /\ S # {} /\ S \subseteq Ids
    /\ LET files == {i \in S : objects[i].kind = "file"}
           parents(h) == {m[2] : m \in {n \in members : n[1] = h}}
           hashes == {h \in Ids : objects[h].kind = "hash" /\ parents(h) # {} /\ parents(h) \subseteq files}
           gone == S \cup hashes
       IN  /\ Set(Without(Store, gone))
           /\ judgements' = {j \in judgements : j[1] \notin gone}
           /\ withdrawnLinks' = {l \in withdrawnLinks : {l[1], l[2]} \cap gone = {}}
    /\ UNCHANGED <<live, patch>>

INext ==
    \/ \E a \in Artifacts : Collect(a) \/ Retire(a) \/ Reopen(a)
    \/ \E v \in Values : AddManual(v) \/ \E i \in Ids : EditObject(i, v)
    \/ \E a, b \in Ids, k \in {"used", "cve-context"}, s \in observed \cup {Manual} :
          Relate(a, b, k, s)
    \/ \E l \in DOMAIN links : WithdrawLink(l)
    \/ \E i \in Ids, s \in {"benign", "malicious"} : AssessObject(i, s)
    \/ \E i \in Ids : PatchChecks(i, "user")
    \/ PatchWrites
    \/ \E i \in Ids : DeleteObjects({i})

ISpec == IInit /\ [][INext]_ivars

----------------------------------------------------------------------------
(* Properties                                                              *)

\* A link an analyst has withdrawn stays withdrawn, however often its artifact is
\* confirmed and collected again, until an analyst asserts it again.
WithdrawnStaysOut == withdrawnLinks \cap ShownLinks = {}

\* Nothing recorded for an object outlives it: its row id is given out again, and
\* the next object would inherit the links, observations, sources, memberships
\* and assessments of the deleted one.
NothingOutlivesItsObject ==
    /\ \A l \in DOMAIN links : {l[1], l[2]} \subseteq Ids
    /\ {n.ioc : n \in observed} \subseteq Ids
    /\ {k[1] : k \in DOMAIN sources} \subseteq Ids
    /\ \A m \in members : {m[1], m[2]} \subseteq Ids
    /\ {j[1] : j \in judgements} \subseteq Ids
=============================================================================
