---------------------------- MODULE MCTransfers ----------------------------
(* Transfers with three objects in two batches and two collections.        *)
EXTENDS Transfers

CONSTANTS ip, cve, incident, here, elsewhere, n1, n2

MCOrder == <<ip, cve, incident>>
MCShared == {ip}
MCCollection == [c \in Conns |-> c]
MCSymmetry == Permutations({here, elsewhere}) \cup Permutations({n1, n2})
=============================================================================
