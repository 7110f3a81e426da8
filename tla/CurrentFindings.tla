--------------------------- MODULE CurrentFindings ---------------------------
(***************************************************************************)
(* What the file engines promise about the findings an analyst sees.  For  *)
(* every file there is a set of current findings.  A scan reports what it  *)
(* finds in a file or of a file that it could not read.  A scan that ends  *)
(* early only ever adds findings; only a look at the very file, by a       *)
(* targeted retry or by a complete traversal of the evidence, may take     *)
(* findings away; and a file that could not be read keeps what it had      *)
(* beside what the scan reports of it.                                     *)
(***************************************************************************)
CONSTANTS Files, Rules

VARIABLES
    current, \* the findings of each file that count
    report,  \* what the scan in progress has found in a file, or of it
    looked,  \* the files it has read
    skipped  \* the files it could not read

cvars == <<current, report, looked, skipped>>
scanvars == <<report, looked, skipped>>

Init ==
    /\ current = [f \in Files |-> {}]
    /\ report = [f \in Files |-> {}]
    /\ looked = {} /\ skipped = {}

Forget == report' = [f \in Files |-> {}] /\ looked' = {} /\ skipped' = {}

\* A scan starts, or one that was given up is forgotten.
Begin == Forget /\ UNCHANGED current

Look(f, found) ==
    /\ f \notin looked \cup skipped
    /\ report' = [report EXCEPT ![f] = found]
    /\ looked' = looked \cup {f}
    /\ UNCHANGED <<current, skipped>>

\* What is found of a file without reading it adds to what was known: at once
\* in a retry, and with the rest of the scan otherwise.
Skip(f, found) ==
    /\ f \notin looked \cup skipped
    /\ report' = [report EXCEPT ![f] = found]
    /\ skipped' = skipped \cup {f}
    /\ \/ UNCHANGED current
       \/ current' = [current EXCEPT ![f] = @ \cup found]
    /\ UNCHANGED looked

\* What the scan has found so far becomes visible; nothing disappears.
Publish ==
    /\ current' = [f \in Files |-> current[f] \cup report[f]]
    /\ Forget \/ UNCHANGED scanvars

\* A retry has read the file again: its findings are replaced.
Retry(f, found) ==
    /\ f \notin looked \cup skipped
    /\ report' = [report EXCEPT ![f] = found]
    /\ looked' = looked \cup {f}
    /\ current' = [current EXCEPT ![f] = found]
    /\ UNCHANGED skipped

\* A complete traversal: what it did not find again is no longer current.
Retire ==
    /\ current' = [f \in Files |-> IF f \in skipped THEN current[f] \cup report[f] ELSE report[f]]
    /\ Forget

Next ==
    \/ Begin \/ Publish \/ Retire
    \/ \E f \in Files, found \in SUBSET Rules :
          Look(f, found) \/ Skip(f, found) \/ Retry(f, found)

Spec == Init /\ [][Next]_cvars

=============================================================================
