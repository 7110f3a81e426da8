---------------------------- MODULE SkipReviews ----------------------------
(***************************************************************************)
(* Files a scan could not read (server/scan_retries.py and the skips of    *)
(* server/analysis.py).  A full scan records its skips; the analyst        *)
(* retries some of them, with or without a higher byte limit, or accepts   *)
(* the coverage gap.  What a skip's status is, is never stored: it is      *)
(* derived from the outcomes of the retries and from the reviews, each of  *)
(* which is bound to the outcome it was given for.  The receipt of the     *)
(* evidence stores a copy of the warnings that are left.                   *)
(*                                                                         *)
(* Scans, retries and acceptances are case operations: Jobs shows that     *)
(* they exclude each other.  Files, rules and the registration of evidence *)
(* change at any time.                                                     *)
(***************************************************************************)
EXTENDS Integers, FiniteSets, FiniteSetsExt

CONSTANTS
    Roots,      \* registered web roots
    Paths,      \* files below them
    RootOf,     \* the root of a file
    MaxScans,   \* bound: full scans
    MaxRetries, \* bound: retries
    FirstSizes, \* the sizes files have at the beginning
    Filters,    \* pairs of group and review status the interface asks for
    MaxRules,   \* versions of rules and settings (scanner_signature)
    MaxChanges  \* bound: changes of files, rules and registrations


\* Bytes of a file: 0 cannot be read, up to Normal is scanned by default, up
\* to Ceiling (MAX_OVERRIDE_SCAN_BYTES) on request.
Sizes == 0..4
Normal == 1
Ceiling == 3

\* What the proofs ask of the constants.
SkipConstants ==
    /\ MaxScans \in Nat /\ MaxRetries \in Nat /\ MaxRules \in Nat
    /\ RootOf \in [Paths -> Roots] /\ FirstSizes \subseteq Sizes

Scans == 1..MaxScans
Retries == 1..MaxRetries

Ended == {"done", "failed"} \* a cancelled job leaves what a failed one leaves

VARIABLES
    size,     \* bytes of each file on disk
    rules,    \* the rules and settings of the workspace now
    attempt,  \* run of the last attempt on a root, 0 for none, -1 for removed
    receipt,  \* warnings stored with a root (refresh_receipts)
    fullScan, \* the full scans so far
    retry,    \* the retries so far
    reviews,  \* skip_reviews: scan, file and the retry whose outcome was accepted
    job,      \* the retry that is running: files left, byte limits, file_results
    changes,  \* changes of the environment so far
    last,     \* history: what happened last to each skip
    bytes     \* history: bytes each retry has read of each file

skvars == <<size, rules, attempt, receipt, fullScan, retry, reviews, job, changes, last, bytes>>
world == <<size, rules, changes>>

NScans == Cardinality({s \in Scans : fullScan[s].state # "none"})
NRetries == Cardinality({r \in Retries : retry[r].state # "none"})

NoFullScan == [state |-> "none", rules |-> 1, roots |-> {}, skips |-> [f \in Paths |-> "none"]]
NoRetry == [state |-> "none", parent |-> 0, entries |-> [f \in Paths |-> 0], group |-> "all",
            review |-> "all", large |-> FALSE, results |-> [f \in Paths |-> "none"]]
NoJob == [id |-> 0, todo |-> {}, limit |-> [f \in Paths |-> 0],
          results |-> [f \in Paths |-> "none"]]

SkInit ==
    /\ size \in [Paths -> FirstSizes]
    /\ rules = 1 /\ changes = 0
    /\ attempt = [e \in Roots |-> 0]
    /\ receipt = [e \in Roots |-> {}]
    /\ fullScan = [s \in Scans |-> NoFullScan]
    /\ retry = [r \in Retries |-> NoRetry]
    /\ reviews = {} /\ job = NoJob
    /\ last = [s \in Scans |-> [f \in Paths |-> "none"]]
    /\ bytes = [r \in Retries |-> [f \in Paths |-> 0]]

-----------------------------------------------------------------------------
(* What the rows say.                                                      *)

Skips(s) == {f \in Paths : fullScan[s].skips[f] # "none"}

\* The latest retry of the scan with an outcome for the file, 0 for none.
Outcome(s, f) ==
    Max({0} \cup {r \in Retries : retry[r].parent = s /\ retry[r].results[f] # "none"})

Reason(s, f) ==
    IF Outcome(s, f) = 0 THEN fullScan[s].skips[f] ELSE retry[Outcome(s, f)].results[f]

\* Mutant: any review of the file counts, also of an outcome that is superseded.
AcceptedOnce(s, f) == \E r \in 0..MaxRetries : <<s, f, r>> \in reviews

\* A review counts for the outcome it was given for.
Accepted(s, f) == <<s, f, Outcome(s, f)>> \in reviews

Status(s, f) == CASE Reason(s, f) = "resolved" -> "resolved"
                  [] Reason(s, f) # "resolved" /\ Accepted(s, f) -> "accepted"
                  [] OTHER -> "unresolved"

\* describe_job and current_skip_entries: roots whose last attempt this was.
Current(s, f) == attempt[RootOf[f]] = s
Pending(s) == {f \in Skips(s) : Status(s, f) = "unresolved"}

\* Mutant: a warning stays with the root until the file has been read.
Unread(e) == IF attempt[e] \in Scans
             THEN {f \in Skips(attempt[e]) : RootOf[f] = e /\ Reason(attempt[e], f) # "resolved"}
             ELSE {}

Warnings(e) == IF attempt[e] \in Scans
               THEN {f \in Pending(attempt[e]) : RootOf[f] = e}
               ELSE {}

\* refresh_receipts, in the transaction that changed a job or a review.
RefreshReceipts == receipt' = [e \in Roots |-> Warnings(e)']

-----------------------------------------------------------------------------
(* Full scans.                                                             *)

SkipOf(bytesNow) == CASE bytesNow = 0 -> "other"
                      [] bytesNow > Normal -> "size_limit"
                      [] OTHER -> "none"

\* All roots or new ones only; a scan that fails has recorded its skips too.
Scan(roots, state) ==
    LET s == NScans + 1
        skips == [f \in Paths |-> IF RootOf[f] \in roots THEN SkipOf(size[f]) ELSE "none"]
    IN
    /\ job.id = 0 /\ s \in Scans
    /\ \A e \in roots : attempt[e] >= 0
    /\ fullScan' = [fullScan EXCEPT ![s] =
                        [state |-> state, rules |-> rules, roots |-> roots, skips |-> skips]]
    /\ attempt' = [e \in Roots |-> IF e \in roots THEN s ELSE attempt[e]]
    /\ last' = [last EXCEPT ![s] = [f \in Paths |->
                    IF skips[f] = "none" THEN "none" ELSE "failed"]]
    /\ UNCHANGED <<world, retry, reviews, job, bytes>>
    /\ RefreshReceipts

-----------------------------------------------------------------------------
(* Selection.                                                              *)

Matches(s, f, group, review) ==
    /\ group = "all" \/ Reason(s, f) = group
    /\ review = "all" \/ (review = "accepted") = (Status(s, f) = "accepted")

\* _block_reason: the scan came to its end, rules and settings are unchanged.
Retryable(s) == fullScan[s].state = "done" /\ fullScan[s].rules = rules

\* _target and _large_target: the evidence is still the one that was scanned.
Target(s, f, large) ==
    /\ Current(s, f)
    /\ large => size[f] \in 1..Ceiling

Eligible(s, f, group, review, large) ==
    /\ f \in Skips(s) /\ Status(s, f) # "resolved"
    /\ Matches(s, f, group, review) /\ Target(s, f, large)

\* prepare_retry: "all" takes what can be retried, "selected" needs all of it.
Selection(s, mode, ids, group, review, large) ==
    IF mode = "all" THEN {f \in Paths : Eligible(s, f, group, review, large)}
                    ELSE {f \in ids : Status(s, f) # "resolved"}

Prepared(s, mode, ids, group, review, large) ==
    /\ Retryable(s)
    /\ large => group = "size_limit"
    /\ ids \subseteq Skips(s)
    /\ Selection(s, mode, ids, group, review, large) # {}
    /\ \A f \in Selection(s, mode, ids, group, review, large) :
          Eligible(s, f, group, review, large)

ByteLimit(f, large) == IF large THEN Max({Normal, size[f]}) ELSE Normal

RequestRetry(s, mode, ids, group, review, large) ==
    LET r == NRetries + 1
        chosen == Selection(s, mode, ids, group, review, large)
    IN
    /\ job.id = 0 /\ r \in Retries
    /\ Prepared(s, mode, ids, group, review, large)
    /\ retry' = [retry EXCEPT ![r] =
          [state |-> "queued", parent |-> s, group |-> group, review |-> review,
           large |-> large, results |-> NoRetry.results,
           entries |-> [f \in Paths |-> IF f \in chosen THEN ByteLimit(f, large) ELSE 0]]]
    /\ job' = [NoJob EXCEPT !.id = r]
    /\ UNCHANGED <<world, attempt, receipt, fullScan, reviews, last, bytes>>

\* accept_skipped: needs current evidence, but neither rules nor the file.
Acceptable(s, f, review) ==
    /\ fullScan[s].state = "done" /\ f \in Skips(s) /\ Current(s, f)
    /\ Status(s, f) = "unresolved" /\ Reason(s, f) = "size_limit"
    /\ Matches(s, f, "size_limit", review)

Accept(s, mode, ids, review) ==
    LET chosen == {f \in Paths : Acceptable(s, f, review) /\ (mode = "selected" => f \in ids)}
    IN
    /\ job.id = 0 /\ ids \subseteq Skips(s) /\ chosen # {}
    /\ mode = "selected" =>
          \A f \in ids : Status(s, f) = "unresolved" => Acceptable(s, f, review)
    /\ reviews' = reviews \cup {<<s, f, Outcome(s, f)>> : f \in chosen}
    /\ last' = [last EXCEPT ![s] = [f \in Paths |->
                    IF f \in chosen THEN "accepted" ELSE @[f]]]
    /\ UNCHANGED <<world, attempt, fullScan, retry, job, bytes>>
    /\ RefreshReceipts

-----------------------------------------------------------------------------
(* A retry runs.                                                           *)

Entries(r) == {f \in Paths : retry[r].entries[f] # 0}

\* execute_retry checks the whole selection again ...
StillPrepared(r) ==
    Prepared(retry[r].parent, "selected", Entries(r), retry[r].group, retry[r].review,
             retry[r].large)

\* Mutant: the limit follows the file as it is when the retry starts.
LimitNow(r, f) == ByteLimit(f, retry[r].large)

\* ... and a file that has grown meanwhile keeps the limit that was approved.
LimitOf(r, f) == Min({ByteLimit(f, retry[r].large), retry[r].entries[f]})

BeginRetry ==
    /\ job.id # 0 /\ retry[job.id].state = "queued" /\ StillPrepared(job.id)
    /\ retry' = [retry EXCEPT ![job.id].state = "running"]
    /\ job' = [job EXCEPT !.todo = Entries(job.id),
                          !.limit = [f \in Paths |-> IF f \in Entries(job.id)
                                                     THEN LimitOf(job.id, f) ELSE 0]]
    /\ UNCHANGED <<world, attempt, receipt, fullScan, reviews, last, bytes>>

\* One file: read up to its limit, or skipped for its size, or skipped because
\* it cannot be read, changes while it is read, or the scanner gives up.
ReadFile(f) ==
    /\ job.id # 0 /\ f \in job.todo
    /\ \/ /\ size[f] \in 1..job.limit[f]
          /\ job' = [job EXCEPT !.todo = @ \ {f}, !.results[f] = "resolved"]
          /\ bytes' = [bytes EXCEPT ![job.id][f] = size[f]]
       \/ /\ size[f] > job.limit[f]
          /\ job' = [job EXCEPT !.todo = @ \ {f}, !.results[f] = "size_limit"]
          /\ UNCHANGED bytes
       \/ /\ job' = [job EXCEPT !.todo = @ \ {f}, !.results[f] = "other"]
          /\ UNCHANGED bytes
    /\ UNCHANGED <<world, attempt, receipt, fullScan, retry, reviews, last>>

EventOf(result) == IF result = "resolved" THEN "resolved" ELSE "failed"

\* The terminal write of the job saves what it has learned, however it ends.
End(state) ==
    LET r == job.id
        s == retry[r].parent
    IN
    /\ r # 0
    /\ state = "done" => retry[r].state = "running" /\ job.todo = {}
    /\ retry' = [retry EXCEPT ![r].state = state, ![r].results = job.results]
    /\ last' = [last EXCEPT ![s] = [f \in Paths |->
                    IF job.results[f] = "none" THEN @[f] ELSE EventOf(job.results[f])]]
    /\ job' = NoJob
    /\ UNCHANGED <<world, attempt, fullScan, reviews, bytes>>
    /\ RefreshReceipts

\* A crash, or a terminal write that fails: recover_interrupted marks the row
\* before the next case operation, the outcomes of the files are lost.
Interrupted ==
    /\ job.id # 0
    /\ retry' = [retry EXCEPT ![job.id].state = "failed"]
    /\ job' = NoJob
    /\ UNCHANGED <<world, attempt, fullScan, reviews, last, bytes>>
    /\ RefreshReceipts

-----------------------------------------------------------------------------
(* The environment.                                                        *)

Change == changes < MaxChanges /\ changes' = changes + 1

FileChanges(f) ==
    /\ Change
    /\ \E n \in Sizes \ {size[f]} : size' = [size EXCEPT ![f] = n]
    /\ UNCHANGED <<rules, attempt, receipt, fullScan, retry, reviews, job, last, bytes>>

RulesChange ==
    /\ Change
    /\ rules' \in (1..MaxRules) \ {rules}
    /\ UNCHANGED <<size, attempt, receipt, fullScan, retry, reviews, job, last, bytes>>

\* remove_evidence and add_evidence: a new row knows no attempt.
Reregister(e) ==
    /\ Change
    /\ \/ attempt[e] >= 0 /\ attempt' = [attempt EXCEPT ![e] = -1]
       \/ attempt[e] = -1 /\ attempt' = [attempt EXCEPT ![e] = 0]
    /\ receipt' = [receipt EXCEPT ![e] = {}]
    /\ UNCHANGED <<size, rules, fullScan, retry, reviews, job, last, bytes>>

SkNext ==
    \/ \E roots \in SUBSET Roots \ {{}}, state \in Ended : Scan(roots, state)
    \/ \E s \in Scans, filter \in Filters, large \in BOOLEAN :
          \/ RequestRetry(s, "all", {}, filter[1], filter[2], large)
          \/ \E ids \in SUBSET Paths \ {{}} :
                RequestRetry(s, "selected", ids, filter[1], filter[2], large)
    \/ \E s \in Scans, filter \in Filters :
          \/ Accept(s, "all", {}, filter[2])
          \/ \E ids \in SUBSET Paths \ {{}} : Accept(s, "selected", ids, filter[2])
    \/ BeginRetry \/ Interrupted
    \/ \E f \in Paths : ReadFile(f) \/ FileChanges(f)
    \/ \E state \in Ended : End(state)
    \/ RulesChange
    \/ \E e \in Roots : Reregister(e)

SkSpec == SkInit /\ [][SkNext]_skvars

-----------------------------------------------------------------------------
(* Properties.                                                             *)

\* The status the interface derives from rows of three tables is what happened
\* last: an acceptance lapses with the next failed retry, a later crash does
\* not bring it back, and nothing but a read file is resolved.
StatusFollowsHistory ==
    \A s \in Scans : \A f \in Skips(s) :
        Status(s, f) = CASE last[s][f] = "failed" -> "unresolved"
                         [] OTHER -> last[s][f]

\* A retry never reads more of a file than the analyst approved when it was
\* requested, however the file grows before it is its turn.
ReadsWithinApproval ==
    \A r \in Retries, f \in Paths : bytes[r][f] <= retry[r].entries[f]

\* The warnings stored with the evidence are the skips whose last event is a
\* failure, at any time at which no retry runs: no terminal write, recovery,
\* acceptance or new registration leaves the copy behind.
ReceiptsAgree ==
    job.id = 0 => \A e \in Roots :
        receipt[e] = {f \in Paths : /\ RootOf[f] = e /\ attempt[e] \in Scans
                                   /\ last[attempt[e]][f] = "failed"}

=============================================================================
