--------------------------- MODULE MCFileFindings ---------------------------
(* The scans of files and what becomes of the files they could not read,   *)
(* in one run.  The two share no state: a behaviour follows one of them,   *)
(* chosen at the start (part), while the other stays as it starts.         *)
EXTENDS FileFindings, SkipReviews, TLC

CONSTANTS one, other

VARIABLE part

MCRootOf == [f \in Paths |-> f[1]]
MCFilters == {"size_limit"} \X {"pending", "accepted"} \cup {<<"other", "pending">>}
\* The one file of a root is named after it, so that they are exchanged together.
MCPaths == {<<one>>, <<other>>}

ASSUME SkipConstants

ScansInit ==
    /\ Init /\ SkInit
    /\ part \in {"findings", "two skips", "one skip"}
    /\ part # "findings" => disk = [f \in Files |-> {}]
    /\ part = "findings" => \A f \in Paths : size[f] = 2
    /\ part = "one skip" => size[<<other>>] = 1

\* A file is removed before a scan, and edited or removed until the scan comes to it:
\* what is edited at another time is seen by the next scan only.  The last scan is of
\* all files or a retry.
ScanBounds ==
    /\ scan'.mode = "new" => scan'.run < MaxRun
    /\ \A f \in Files : disk'[f] # disk[f] =>
          f \in scan.todo \/ (scan.pc = "idle" /\ seq < MaxRun /\ disk'[f] = Gone)

\* Two files are followed through one scan and one retry, and one file (the other
\* one can always be read) through two of each.
ScansNext ==
    \/ part = "findings" /\ Next /\ ScanBounds /\ UNCHANGED <<part, skvars>>
    \/ part = "two skips" /\ SkNext /\ NScans' <= 1 /\ NRetries' <= 1 /\ UNCHANGED <<part, vars>>
    \/ part = "one skip" /\ SkNext /\ size'[<<other>>] = 1 /\ UNCHANGED <<part, vars>>

ScansSpec == ScansInit /\ [][ScansNext]_<<part, vars, skvars>>

Symmetry == Permutations(Files) \cup Permutations(Rules) \cup Permutations({one, other})

=============================================================================
