------------------------------ MODULE MCRecords -----------------------------
(* The components that keep the records of the workspace and of its cases, *)
(* in one run. They share no state: a behaviour follows one of them,       *)
(* chosen at the start (part), and the others stay as they start, so TLC   *)
(* sees the sum of their states and not the product.                       *)
(* one and other are interchangeable, whatever they stand for (requests,   *)
(* editors, connections, starts).                                          *)
EXTENDS Workspace, MCTransfers, Iocs, Schema, Launcher, Preferences, Profiles, TLC

CONSTANTS one, other

VARIABLE part

-----------------------------------------------------------------------------
(* One artifact with a hash, a path and a file, and a finding that names a *)
(* CVE; an address that an analyst enters.                                 *)

MCKinds == [h |-> "hash", p |-> "path", fi |-> "file", ip |-> "ip", cve |-> "vulnerability"]
MCPlace == [a |-> [hash |-> "h", path |-> "p", file |-> "fi"]]

ASSUME NamesAreNames /\ TransferConstants

-----------------------------------------------------------------------------

Resting == {"iocs", "schema", "workspace", "launcher", "preferences", "profiles", "transfers"}

\* How a component starts that the behaviour does not follow.
StartOf(p) ==
    CASE p = "iocs" -> IInit
      [] p = "schema" -> SInit /\ disk = Fresh
      [] p = "workspace" -> WInit
      [] p = "launcher" -> LInit /\ ~built
      [] p = "preferences" -> PInit /\ rules = [f \in Files |-> NoRule]
      [] p = "profiles" -> PrInit
      [] p = "transfers" -> /\ Init /\ settings = here /\ case = <<"g1", n1>>
                            /\ \A c \in Colls : there[c] = {}

AtRest(p) ==
    CASE p = "iocs" -> UNCHANGED ivars
      [] p = "schema" -> UNCHANGED svars
      [] p = "workspace" -> UNCHANGED wvars
      [] p = "launcher" -> UNCHANGED lvars
      [] p = "preferences" -> UNCHANGED pvars
      [] p = "profiles" -> UNCHANGED prvars
      [] p = "transfers" -> UNCHANGED vars

Follows(p, init) ==
    part = p /\ init /\ \A q \in Resting \ {p} : StartOf(q)
Only(p, next) ==
    part = p /\ UNCHANGED part /\ (\A q \in Resting \ {p} : AtRest(q)) /\ next

RecordsInit ==
    \/ Follows("iocs", IInit)
    \/ Follows("schema", SInit)
    \/ Follows("workspace", WInit)
    \/ Follows("launcher", LInit)
    \/ Follows("preferences", PInit)
    \/ Follows("profiles", PrInit)
    \/ Follows("transfers", Init)

RecordsNext ==
    \/ Only("iocs", INext)
    \/ Only("schema", SNext)
    \/ Only("workspace", WNext)
    \/ Only("launcher", LNext)
    \/ Only("preferences", PNext)
    \/ Only("profiles", PrNext)
    \/ Only("transfers", Next)

recordsVars == <<part, ivars, svars, wvars, lvars, pvars, prvars, vars>>

RecordsSpec == RecordsInit /\ [][RecordsNext]_recordsVars

Symmetry == Permutations({one, other}) \cup MCSymmetry
=============================================================================
