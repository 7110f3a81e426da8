-------------------------- MODULE SkipReviewsProofs -------------------------
(***************************************************************************)
(* Proofs about SkipReviews for any number of roots, files, scans, retries *)
(* and changes of the environment.                                         *)
(*                                                                         *)
(* The argument: scans and retries are numbered as they come (Numbered),   *)
(* so the retry that runs has the greatest number (Running) and what it    *)
(* leaves is the latest outcome; a review names an outcome that is there   *)
(* (Bound), so none waits for the outcome of a retry that is still to end; *)
(* and no row that is not used yet says anything (Fresh).  Then the status *)
(* that the rows give follows the history, and a receipt refreshed from    *)
(* them is what the history says.                                          *)
(***************************************************************************)
EXTENDS SkipReviews, FiniteSetTheorems, WellFoundedInduction, TLAPS

-----------------------------------------------------------------------------
(* The inductive invariant.                                                *)

Results == {"none", "resolved", "size_limit", "other"}
NoResults == [f \in Paths |-> "none"]
ScanRow == [state : Ended \cup {"none"}, rules : Nat, roots : SUBSET Roots,
            skips : [Paths -> {"none", "size_limit", "other"}]]
RetryRow == [state : Ended \cup {"none", "queued", "running"}, parent : 0..MaxScans,
             entries : [Paths -> Nat], group : {x[1] : x \in Filters} \cup {"all"},
             review : {x[2] : x \in Filters} \cup {"all"}, large : BOOLEAN,
             results : [Paths -> Results]]
JobRow == [id : 0..MaxRetries, todo : SUBSET Paths, limit : [Paths -> Nat],
           results : [Paths -> Results]]

STypeOK ==
    /\ size \in [Paths -> Sizes] /\ rules \in Nat /\ changes \in Nat
    /\ attempt \in [Roots -> -1..MaxScans]
    /\ receipt \in [Roots -> SUBSET Paths]
    /\ fullScan \in [Scans -> ScanRow]
    /\ retry \in [Retries -> RetryRow]
    /\ reviews \in SUBSET (Scans \X Paths \X (0..MaxRetries))
    /\ job \in JobRow
    /\ last \in [Scans -> [Paths -> {"none", "failed", "accepted", "resolved"}]]
    /\ bytes \in [Retries -> [Paths -> Nat]]

\* Scans and retries are numbered from 1 without a gap.
Numbered ==
    /\ \E n \in 0..MaxScans : {s \in Scans : fullScan[s].state # "none"} = 1..n
    /\ \E n \in 0..MaxRetries : {r \in Retries : retry[r].state # "none"} = 1..n

\* What is not a skip, or not used yet, has no history and no outcome.
Fresh ==
    /\ \A s \in Scans : fullScan[s].state = "none" => Skips(s) = {}
    /\ \A s \in Scans : \A f \in Paths \ Skips(s) : last[s][f] = "none"
    /\ \A r \in Retries : retry[r].state = "none" =>
          retry[r].results = NoResults /\ \A f \in Paths : bytes[r][f] = 0

\* A retry belongs to a scan and to skips of it.
Owned ==
    \A r \in Retries : retry[r].state # "none" =>
        /\ retry[r].parent \in Scans /\ fullScan[retry[r].parent].state # "none"
        /\ Entries(r) \subseteq Skips(retry[r].parent)

\* The retries that have an outcome for a skip.
Answers(s, f) == {r \in Retries : retry[r].parent = s /\ retry[r].results[f] # "none"}

\* A review names a skip and an outcome that is there.
Bound ==
    \A s \in Scans, f \in Paths, q \in 0..MaxRetries : <<s, f, q>> \in reviews =>
        f \in Skips(s) /\ (q = 0 \/ q \in Answers(s, f))

\* The retry that runs is the last one, and has left nothing in its row yet.
Running ==
    job.id # 0 =>
        /\ retry[job.id].state # "none" /\ retry[job.id].results = NoResults
        /\ \A r \in Retries : retry[r].state # "none" => r <= job.id
        /\ job.todo \subseteq Entries(job.id)
        /\ \A f \in Paths : job.results[f] # "none" => f \in Entries(job.id)
        /\ \A f \in Paths : job.limit[f] <= retry[job.id].entries[f]

SInv == /\ STypeOK /\ Numbered /\ Fresh /\ Owned /\ Bound /\ Running
        /\ StatusFollowsHistory /\ ReadsWithinApproval /\ ReceiptsAgree

-----------------------------------------------------------------------------
(* Greatest elements and counting.                                         *)

LEMMA LessThan == \A x, y \in Nat : y < x => <<y, x>> \in OpToRel(<, Nat)
BY Zenon DEF OpToRel

\* A set of numbers below a bound has a greatest element, and Max is it.
LEMMA MaxOfSet ==
    ASSUME NEW n \in Nat, NEW T \in SUBSET (0..n), T # {}
    PROVE  Max(T) \in T /\ \A y \in T : Max(T) >= y
<1> DEFINE U == {n - y : y \in T}
<1>1. PICK t : t \in T
  OBVIOUS
<1>2. U \subseteq Nat /\ n - t \in U
  BY <1>1
<1>3. PICK x \in U : \A y \in U : ~(<<y, x>> \in OpToRel(<, Nat))
  <2> HIDE DEF U
  <2> QED BY <1>2, WFMin, NatLessThanWellFounded
<1>4. x \in Nat /\ \A y \in U : y \in Nat /\ ~(y < x)
  <2> HIDE DEF U
  <2> QED BY <1>2, <1>3, LessThan, Zenon
<1>5. PICK m \in T : n - m = x
  BY <1>3
<1>6. \A y \in T : m >= y
  BY <1>4, <1>5
<1> QED BY <1>5, <1>6 DEF Max

LEMMA MaxIs ==
    ASSUME NEW n \in Nat, NEW T \in SUBSET (0..n), NEW m \in T, \A y \in T : m >= y
    PROVE  Max(T) = m
<1>1. Max(T) \in T /\ Max(T) >= m /\ m >= Max(T)
  BY MaxOfSet
<1>2. T \subseteq Int
  OBVIOUS
<1>3. PICK x \in Int : x = Max(T)
  BY <1>1, <1>2
<1>4. m \in Int /\ x >= m /\ m >= x
  BY <1>1, <1>2, <1>3
<1> QED BY <1>3, <1>4

LEMMA OfTwo ==
    ASSUME NEW a \in Nat, NEW b \in Nat
    PROVE  Max({a, b}) \in Nat /\ Min({a, b}) \in Nat /\ Min({a, b}) <= b
<1>1. \E x \in {a, b} : \A y \in {a, b} : x >= y
  OBVIOUS
<1>2. \E x \in {a, b} : \A y \in {a, b} : x <= y
  OBVIOUS
<1>3. Max({a, b}) \in {a, b}
  BY <1>1 DEF Max
<1>4. Min({a, b}) \in {a, b} /\ \A y \in {a, b} : Min({a, b}) <= y
  BY <1>2 DEF Min
<1> QED BY <1>3, <1>4

\* The next scan and the next retry are the first ones not used.
LEMMA NextNumbers ==
    ASSUME SkipConstants, Numbered
    PROVE  /\ NScans \in 0..MaxScans /\ NRetries \in 0..MaxRetries
           /\ \A s \in Scans : fullScan[s].state # "none" <=> s <= NScans
           /\ \A r \in Retries : retry[r].state # "none" <=> r <= NRetries
<1>1. PICK m \in 0..MaxScans : {s \in Scans : fullScan[s].state # "none"} = 1..m
  BY DEF Numbered
<1>2. PICK n \in 0..MaxRetries : {r \in Retries : retry[r].state # "none"} = 1..n
  BY DEF Numbered
<1>3. NScans = m
  <2>1. m \in Int /\ 1 \in Int /\ m >= 0
    BY DEF SkipConstants
  <2>2. Cardinality(1..m) = m
    BY <2>1, FS_Interval
  <2> QED BY <1>1, <2>2 DEF NScans
<1>4. NRetries = n
  <2>1. n \in Int /\ 1 \in Int /\ n >= 0
    BY DEF SkipConstants
  <2>2. Cardinality(1..n) = n
    BY <2>1, FS_Interval
  <2> QED BY <1>2, <2>2 DEF NRetries
<1>5. \A s \in Scans : fullScan[s].state # "none" <=> s \in 1..m
  BY <1>1
<1>6. \A r \in Retries : retry[r].state # "none" <=> r \in 1..n
  BY <1>2
<1> QED BY <1>3, <1>4, <1>5, <1>6 DEF Scans, Retries, SkipConstants

-----------------------------------------------------------------------------
(* Outcomes and statuses.                                                  *)

LEMMA Latest ==
    ASSUME SkipConstants, NEW s, NEW f
    PROVE  /\ Outcome(s, f) \in 0..MaxRetries
           /\ Outcome(s, f) # 0 => Outcome(s, f) \in Answers(s, f)
<1> DEFINE T == {0} \cup Answers(s, f)
<1>1. T \in SUBSET (0..MaxRetries) /\ T # {} /\ MaxRetries \in Nat
  BY DEF Answers, Retries, SkipConstants
<1>2. Max(T) \in T
  <2> HIDE DEF T
  <2> QED BY <1>1, MaxOfSet
<1>3. Outcome(s, f) = Max(T)
  BY DEF Outcome, Answers
<1> QED BY <1>1, <1>2, <1>3

\* What a status is derived from does not change.
LEMMA StatusStays ==
    ASSUME SkipConstants, NEW s, NEW f,
           Answers(s, f)' = Answers(s, f), fullScan'[s].skips = fullScan[s].skips,
           \A r \in Answers(s, f) : retry'[r].results = retry[r].results,
           <<s, f, Outcome(s, f)>> \in reviews' <=> <<s, f, Outcome(s, f)>> \in reviews
    PROVE  Reason(s, f)' = Reason(s, f) /\ Status(s, f)' = Status(s, f)
<1>1. Outcome(s, f)' = Outcome(s, f)
  BY DEF Outcome, Answers
<1>2. Reason(s, f)' = Reason(s, f)
  BY <1>1, Latest DEF Reason
<1>3. Accepted(s, f)' <=> Accepted(s, f)
  BY <1>1 DEF Accepted
<1> QED BY <1>2, <1>3 DEF Status

\* A receipt that is refreshed agrees with the history.
LEMMA Refreshed ==
    ASSUME SkipConstants, STypeOK', Fresh', StatusFollowsHistory', RefreshReceipts
    PROVE  ReceiptsAgree'
<1> SUFFICES ASSUME NEW e \in Roots
             PROVE  receipt'[e] = {f \in Paths : /\ RootOf[f] = e /\ attempt'[e] \in Scans
                                                 /\ last'[attempt'[e]][f] = "failed"}
  BY DEF ReceiptsAgree
<1>1. receipt'[e] = Warnings(e)'
  BY DEF RefreshReceipts
<1>2. CASE attempt'[e] \in Scans
  <2>1. \A f \in Paths : f \in Pending(attempt[e])' <=> last'[attempt'[e]][f] = "failed"
    <3> TAKE f \in Paths
    <3>1. CASE f \in Skips(attempt[e])'
      <4>1. Status(attempt[e], f)' = CASE last'[attempt'[e]][f] = "failed" -> "unresolved"
                                      [] OTHER -> last'[attempt'[e]][f]
        BY <1>2, <3>1 DEF StatusFollowsHistory
      <4>2. last'[attempt'[e]][f] \in {"none", "failed", "accepted", "resolved"}
        BY <1>2 DEF STypeOK
      <4>3. Status(attempt[e], f)' = "unresolved" <=> last'[attempt'[e]][f] = "failed"
        BY <4>1, <4>2
      <4> QED BY <3>1, <4>3 DEF Pending
    <3>2. CASE f \notin Skips(attempt[e])'
      <4>1. last'[attempt'[e]][f] = "none"
        BY <1>2, <3>2 DEF Fresh
      <4> QED BY <3>2, <4>1 DEF Pending
    <3> QED BY <3>1, <3>2
  <2>2. Pending(attempt[e])' \subseteq Paths
    BY DEF Pending, Skips
  <2> QED BY <1>1, <1>2, <2>1, <2>2 DEF Warnings
<1>3. CASE attempt'[e] \notin Scans
  BY <1>1, <1>3 DEF Warnings
<1> QED BY <1>2, <1>3
-----------------------------------------------------------------------------
(* Each operation.                                                         *)

LEMMA InitS == SkipConstants /\ SkInit => SInv
<1> SUFFICES ASSUME SkipConstants, SkInit PROVE SInv
  OBVIOUS
<1>1. /\ NoFullScan \in ScanRow /\ NoRetry \in RetryRow /\ NoJob \in JobRow
      /\ \A s \in Scans : fullScan[s].state = "none" /\ Skips(s) = {}
      /\ \A r \in Retries : retry[r].state = "none" /\ retry[r].results = NoResults
  BY DEF SkInit, NoFullScan, NoRetry, NoJob, ScanRow, RetryRow, JobRow, SkipConstants, Ended,
         Results, Skips, NoResults
<1>2. STypeOK
  <2>1. size \in [Paths -> Sizes] /\ rules \in Nat /\ changes \in Nat
    BY DEF SkInit, SkipConstants, Sizes
  <2>2. attempt \in [Roots -> -1..MaxScans]
    BY DEF SkInit, SkipConstants
  <2>3. fullScan \in [Scans -> ScanRow] /\ retry \in [Retries -> RetryRow] /\ job \in JobRow
    BY <1>1 DEF SkInit
  <2>4. receipt \in [Roots -> SUBSET Paths] /\ reviews = {}
    BY DEF SkInit
  <2>5. /\ last \in [Scans -> [Paths -> {"none", "failed", "accepted", "resolved"}]]
        /\ bytes \in [Retries -> [Paths -> Nat]]
    BY DEF SkInit
  <2> QED BY <2>1, <2>2, <2>3, <2>4, <2>5 DEF STypeOK
<1>3. Numbered
  <2>1. 0 \in 0..MaxScans /\ 0 \in 0..MaxRetries /\ 1..0 = {}
    BY DEF SkipConstants
  <2>2. {s \in Scans : fullScan[s].state # "none"} = {} /\ {r \in Retries : retry[r].state # "none"} = {}
    BY <1>1
  <2> QED BY <2>1, <2>2 DEF Numbered
<1>4. Fresh
  BY <1>1 DEF SkInit, Fresh
<1>5. Owned /\ Bound /\ Running
  BY <1>1 DEF SkInit, Owned, Bound, Running, NoJob
<1>6. StatusFollowsHistory
  BY <1>1 DEF StatusFollowsHistory
<1>7. ReadsWithinApproval
  BY DEF SkInit, ReadsWithinApproval, NoRetry
<1>8. ReceiptsAgree
  BY DEF SkInit, ReceiptsAgree, Scans
<1> QED BY <1>2, <1>3, <1>4, <1>5, <1>6, <1>7, <1>8 DEF SInv

LEMMA ScanStep ==
    ASSUME SkipConstants, SInv, NEW roots \in SUBSET Roots, NEW state \in Ended,
           Scan(roots, state)
    PROVE  SInv'
<1>0. PICK s : s = NScans + 1
  OBVIOUS
<1> DEFINE skips == [f \in Paths |-> IF RootOf[f] \in roots THEN SkipOf(size[f]) ELSE "none"]
           row == [state |-> state, rules |-> rules, roots |-> roots, skips |-> skips]
           events == [f \in Paths |-> IF skips[f] = "none" THEN "none" ELSE "failed"]
<1>1. /\ s \in Scans /\ job.id = 0
      /\ fullScan' = [fullScan EXCEPT ![s] = row]
      /\ attempt' = [e \in Roots |-> IF e \in roots THEN s ELSE attempt[e]]
      /\ last' = [last EXCEPT ![s] = events]
      /\ UNCHANGED <<size, rules, changes, retry, reviews, job, bytes>> /\ RefreshReceipts
  BY <1>0 DEF Scan, world
<1>2. /\ NScans \in 0..MaxScans /\ s \in 1..MaxScans /\ state # "none"
      /\ \A t \in Scans : fullScan[t].state # "none" <=> t <= NScans
      /\ fullScan[s].state = "none"
  BY <1>0, <1>1, NextNumbers DEF SInv, Scans, SkipConstants, Ended
<1>3. skips \in [Paths -> {"none", "size_limit", "other"}] /\ row \in ScanRow
  BY DEF SkipOf, ScanRow, SInv, STypeOK
<1>4. events \in [Paths -> {"none", "failed"}]
  OBVIOUS
<1>5. /\ fullScan' \in [Scans -> ScanRow] /\ fullScan'[s] = row /\ row.state = state /\ row.skips = skips
      /\ \A t \in Scans \ {s} : fullScan'[t] = fullScan[t] /\ last'[t] = last[t]
      /\ last'[s] = events
      /\ last' \in [Scans -> [Paths -> {"none", "failed", "accepted", "resolved"}]]
  BY <1>1, <1>3, <1>4 DEF SInv, STypeOK
<1>50. \A f \in Paths : events[f] = IF skips[f] = "none" THEN "none" ELSE "failed"
  OBVIOUS
<1> HIDE DEF row, events, skips
<1>6. STypeOK'
  <2>1. attempt' \in [Roots -> -1..MaxScans]
    BY <1>1, <1>2 DEF SInv, STypeOK, SkipConstants
  <2>2. receipt' \in [Roots -> SUBSET Paths]
    BY <1>1 DEF RefreshReceipts, Warnings, Pending, Skips
  <2> QED BY <1>1, <1>5, <2>1, <2>2 DEF SInv, STypeOK
<1>7. Numbered'
  <2>1. {t \in Scans : fullScan'[t].state # "none"} = 1..s
    <3>1. \A t \in Scans : fullScan'[t].state # "none" <=> t <= s
      BY <1>0, <1>2, <1>5 DEF Scans
    <3> QED BY <1>2, <3>1 DEF Scans, SkipConstants
  <2> QED BY <1>1, <1>2, <2>1 DEF SInv, Numbered, SkipConstants
<1>8. /\ \A t \in Scans \ {s} : Skips(t)' = Skips(t)
      /\ Skips(s)' = {f \in Paths : skips[f] # "none"}
      /\ Skips(s) = {}
  BY <1>1, <1>2, <1>5 DEF Skips, SInv, Fresh
<1>9. Fresh'
  BY <1>1, <1>2, <1>5, <1>50, <1>8 DEF SInv, Fresh
<1>10. Owned'
  <2>1. \A r : Entries(r)' = Entries(r)
    BY <1>1 DEF Entries
  <2>2. \A r \in Retries : retry[r].state # "none" => retry[r].parent \in Scans \ {s}
    BY <1>2 DEF SInv, Owned
  <2> QED BY <1>1, <1>5, <1>8, <2>1, <2>2 DEF SInv, Owned
<1>11. \A t, f : Answers(t, f)' = Answers(t, f)
  BY <1>1 DEF Answers
<1>12. Bound'
  BY <1>1, <1>8, <1>11 DEF SInv, Bound
<1>13. Running'
  BY <1>1 DEF SInv, Running
<1>14. StatusFollowsHistory'
  <2> SUFFICES ASSUME NEW t \in Scans, NEW f \in Paths, f \in Skips(t)'
               PROVE  Status(t, f)' = CASE last'[t][f] = "failed" -> "unresolved"
                                        [] OTHER -> last'[t][f]
    BY DEF StatusFollowsHistory, Skips
  <2>1. CASE t # s
    <3>1. Status(t, f)' = Status(t, f)
      BY <1>1, <1>5, <1>11, <2>1, StatusStays
    <3> QED BY <1>5, <1>8, <2>1, <3>1 DEF SInv, StatusFollowsHistory
  <2>2. CASE t = s
    <3>1. Answers(s, f) = {}
      BY <1>1, <1>2 DEF Answers, SInv, Owned, Fresh, NoResults
    <3>2. Outcome(s, f)' = 0
      <4>1. Max({0}) = 0
        BY MaxIs
      <4>2. Outcome(s, f)' = Max({0} \cup Answers(s, f)')
        BY DEF Outcome, Answers
      <4> QED BY <1>11, <3>1, <4>1, <4>2
    <3>3. Reason(s, f)' = skips[f] /\ skips[f] \in {"size_limit", "other"}
      BY <1>3, <1>5, <1>8, <2>2, <3>2 DEF Reason
    <3>4. ~Accepted(s, f)'
      <4>1. 0 \in 0..MaxRetries
        BY DEF SkipConstants
      <4>2. <<s, f, 0>> \notin reviews
        BY <1>1, <1>8, <4>1 DEF SInv, Bound
      <4> QED BY <1>1, <3>2, <4>2 DEF Accepted
    <3>5. last'[s][f] = "failed"
      BY <1>5, <1>50, <3>3
    <3> QED BY <2>2, <3>3, <3>4, <3>5 DEF Status
  <2> QED BY <2>1, <2>2
<1>15. ReadsWithinApproval'
  BY <1>1 DEF SInv, ReadsWithinApproval
<1>16. ReceiptsAgree'
  BY <1>1, <1>6, <1>9, <1>14, Refreshed
<1> QED BY <1>6, <1>7, <1>9, <1>10, <1>12, <1>13, <1>14, <1>15, <1>16 DEF SInv
\* What a request for a retry leaves: a row of its own and the job that runs it.
LEMMA RequestRetryStep ==
    ASSUME SkipConstants, SInv, NEW s \in Scans, NEW mode, NEW ids \in SUBSET Paths,
           NEW filter \in Filters, NEW large \in BOOLEAN,
           RequestRetry(s, mode, ids, filter[1], filter[2], large)
    PROVE  SInv'
<1>1. PICK r \in Retries : r = NRetries + 1
  BY DEF RequestRetry
<1> DEFINE chosen == Selection(s, mode, ids, filter[1], filter[2], large)
           row == [state |-> "queued", parent |-> s, group |-> filter[1],
                   review |-> filter[2], large |-> large, results |-> NoRetry.results,
                   entries |-> [f \in Paths |-> IF f \in chosen THEN ByteLimit(f, large) ELSE 0]]
<1>2. /\ retry' = [retry EXCEPT ![r] = row] /\ job' = [NoJob EXCEPT !.id = r]
      /\ Prepared(s, mode, ids, filter[1], filter[2], large)
      /\ UNCHANGED <<size, rules, changes, attempt, receipt, fullScan, reviews, last, bytes>>
  BY <1>1 DEF RequestRetry, world
<1>3. /\ NRetries \in 0..MaxRetries /\ retry[r].state = "none"
      /\ \A q \in Retries : retry[q].state # "none" <=> q < r
  BY <1>1, NextNumbers DEF SInv, Retries, SkipConstants
<1>4. chosen \subseteq Skips(s) /\ fullScan[s].state # "none"
  BY <1>2 DEF Prepared, Eligible, Retryable
<1>5. row \in RetryRow
  <2>1. \A f \in Paths : ByteLimit(f, large) \in Nat
    <3>1. \A f \in Paths : size[f] \in Nat
      BY DEF SInv, STypeOK, Sizes
    <3> QED BY <3>1, OfTwo DEF ByteLimit, Normal
  <2> HIDE DEF chosen
  <2> QED BY <2>1 DEF RetryRow, NoRetry, Results, Scans, SkipConstants
<1>6. /\ row.state = "queued" /\ row.parent = s /\ row.results = NoResults
      /\ \A f \in Paths : row.entries[f] # 0 => f \in chosen
  BY DEF NoRetry, NoResults
<1>7. /\ job'.id = r /\ job'.todo = {} /\ job'.results = NoResults /\ job' \in JobRow
      /\ \A f \in Paths : job'.limit[f] = 0
  BY <1>2 DEF NoJob, NoResults, JobRow, Retries, Results
<1> HIDE DEF row, chosen
<1>8. retry' \in [Retries -> RetryRow] /\ retry'[r] = row /\ \A q \in Retries \ {r} : retry'[q] = retry[q]
  BY <1>2, <1>5 DEF SInv, STypeOK
<1>9. STypeOK'
  BY <1>2, <1>7, <1>8 DEF SInv, STypeOK
<1>10. Numbered'
  <2>1. \A q \in Retries : retry'[q].state # "none" <=> q <= r
    BY <1>3, <1>6, <1>8 DEF Retries
  <2>2. {q \in Retries : retry'[q].state # "none"} = 1..r /\ r \in 0..MaxRetries
    BY <2>1 DEF Retries, SkipConstants
  <2> QED BY <1>2, <2>2 DEF SInv, Numbered
<1>11. \A t : Skips(t)' = Skips(t)
  BY <1>2 DEF Skips
<1>12. Fresh'
  BY <1>2, <1>3, <1>6, <1>8, <1>11 DEF SInv, Fresh
<1>13. Owned'
  <2>1. Entries(r)' \subseteq Skips(s) /\ \A q \in Retries \ {r} : Entries(q)' = Entries(q)
    BY <1>4, <1>6, <1>8 DEF Entries
  <2> QED BY <1>2, <1>3, <1>4, <1>6, <1>8, <1>11, <2>1 DEF SInv, Owned
<1>14. \A t : \A f \in Paths : Answers(t, f)' = Answers(t, f)
  <2>1. retry[r].results = NoResults
    BY <1>3 DEF SInv, Fresh
  <2> QED BY <1>6, <1>8, <2>1 DEF Answers, NoResults
<1>15. Bound'
  BY <1>2, <1>11, <1>14 DEF SInv, Bound
<1>16. Running'
  <2>1. \A q \in Retries : retry'[q].state # "none" => q <= r
    BY <1>3, <1>8 DEF Retries
  <2>2. \A f \in Paths : NoResults[f] = "none" /\ job'.limit[f] <= row.entries[f]
    BY <1>5, <1>7 DEF NoResults, RetryRow
  <2> QED BY <1>6, <1>7, <1>8, <2>1, <2>2 DEF Running
<1>17. StatusFollowsHistory'
  <2>1. \A t \in Scans, f \in Paths : Status(t, f)' = Status(t, f)
    <3> TAKE t \in Scans, f \in Paths
    <3>1. r \notin Answers(t, f)
      BY <1>3 DEF SInv, Fresh, Answers, NoResults
    <3>2. \A q \in Answers(t, f) : retry'[q].results = retry[q].results
      BY <1>8, <3>1 DEF Answers
    <3> QED BY <1>2, <1>14, <3>2, StatusStays
  <2> QED BY <1>2, <1>11, <2>1 DEF SInv, StatusFollowsHistory, Skips
<1>18. ReadsWithinApproval'
  BY <1>2, <1>3, <1>5, <1>8 DEF SInv, ReadsWithinApproval, Fresh, RetryRow
<1>19. ReceiptsAgree'
  BY <1>7 DEF ReceiptsAgree, Retries
<1> QED BY <1>9, <1>10, <1>12, <1>13, <1>15, <1>16, <1>17, <1>18, <1>19 DEF SInv

LEMMA AcceptStep ==
    ASSUME SkipConstants, SInv, NEW s \in Scans, NEW mode, NEW ids \in SUBSET Paths,
           NEW review, Accept(s, mode, ids, review)
    PROVE  SInv'
<1>1. PICK chosen \in SUBSET Paths :
         chosen = {f \in Paths : Acceptable(s, f, review) /\ (mode = "selected" => f \in ids)}
  OBVIOUS
<1>2. /\ job.id = 0
      /\ reviews' = reviews \cup {<<s, f, Outcome(s, f)>> : f \in chosen}
      /\ last' = [last EXCEPT ![s] = [f \in Paths |->
                      IF f \in chosen THEN "accepted" ELSE @[f]]]
      /\ UNCHANGED <<size, rules, changes, attempt, fullScan, retry, job, bytes>>
      /\ RefreshReceipts
  BY <1>1 DEF Accept, world
<1>3. \A f \in chosen : /\ f \in Paths /\ f \in Skips(s) /\ Reason(s, f) = "size_limit"
                       /\ Status(s, f) = "unresolved"
  BY <1>1 DEF Acceptable
<1>4. /\ last' \in [Scans -> [Paths -> {"none", "failed", "accepted", "resolved"}]]
      /\ \A t \in Scans, f \in Paths : last'[t][f] =
            IF t = s /\ f \in chosen THEN "accepted" ELSE last[t][f]
  BY <1>2 DEF SInv, STypeOK
<1>5. STypeOK'
  <2>1. reviews' \in SUBSET (Scans \X Paths \X (0..MaxRetries))
    BY <1>2, Latest DEF SInv, STypeOK
  <2>2. receipt' \in [Roots -> SUBSET Paths]
    BY <1>2 DEF RefreshReceipts, Warnings, Pending, Skips
  <2> QED BY <1>2, <1>4, <2>1, <2>2 DEF SInv, STypeOK
<1>6. Numbered'
  BY <1>2 DEF SInv, Numbered
<1>7. \A t, f : Skips(t)' = Skips(t) /\ Answers(t, f)' = Answers(t, f)
  BY <1>2 DEF Skips, Answers
<1>8. Fresh'
  BY <1>2, <1>3, <1>4, <1>7 DEF SInv, Fresh
<1>9. Owned'
  BY <1>2, <1>7 DEF SInv, Owned, Entries
<1>10. Bound'
  BY <1>2, <1>3, <1>7, Latest DEF SInv, Bound
<1>11. Running'
  BY <1>2 DEF SInv, Running
<1>12. StatusFollowsHistory'
  <2> SUFFICES ASSUME NEW t \in Scans, NEW f \in Paths, f \in Skips(t)
               PROVE  Status(t, f)' = CASE last'[t][f] = "failed" -> "unresolved"
                                        [] OTHER -> last'[t][f]
    BY <1>7 DEF StatusFollowsHistory, Skips
  <2>1. CASE t = s /\ f \in chosen
    <3>1. Outcome(s, f)' = Outcome(s, f) /\ Reason(s, f)' = Reason(s, f)
      BY <1>2 DEF Reason, Outcome
    <3>2. Accepted(s, f)'
      BY <1>2, <2>1, <3>1 DEF Accepted
    <3> QED BY <1>3, <1>4, <2>1, <3>1, <3>2 DEF Status
  <2>2. CASE ~(t = s /\ f \in chosen)
    <3>1. <<t, f, Outcome(t, f)>> \in reviews' <=> <<t, f, Outcome(t, f)>> \in reviews
      BY <1>2, <2>2
    <3>2. Status(t, f)' = Status(t, f)
      BY <1>2, <1>7, <3>1, StatusStays
    <3> QED BY <1>4, <2>2, <3>2 DEF SInv, StatusFollowsHistory
  <2> QED BY <2>1, <2>2
<1>13. ReadsWithinApproval'
  BY <1>2 DEF SInv, ReadsWithinApproval
<1>14. ReceiptsAgree'
  BY <1>2, <1>5, <1>8, <1>12, Refreshed
<1> QED BY <1>5, <1>6, <1>8, <1>9, <1>10, <1>11, <1>12, <1>13, <1>14 DEF SInv
\* Steps that leave the rows of scans, their history and the reviews alone, and of
\* the rows of retries all but the states of retries that are there.
LEMMA RowsStay ==
    ASSUME SkipConstants, SInv, UNCHANGED <<fullScan, reviews, last>>, retry' \in [Retries -> RetryRow],
           \A r \in Retries :
              /\ retry'[r].state = "none" <=> retry[r].state = "none"
              /\ retry'[r].parent = retry[r].parent /\ retry'[r].results = retry[r].results
              /\ retry'[r].entries = retry[r].entries,
           \A r \in Retries : retry[r].state = "none" => bytes'[r] = bytes[r]
    PROVE  /\ Numbered' /\ Fresh' /\ Owned' /\ Bound' /\ StatusFollowsHistory'
           /\ \A r \in Retries : Entries(r)' = Entries(r)
<1>1. Numbered'
  <2>1. {r \in Retries : retry'[r].state # "none"} = {r \in Retries : retry[r].state # "none"}
    OBVIOUS
  <2> QED BY <2>1 DEF SInv, Numbered
<1>2. /\ \A t : Skips(t)' = Skips(t)
      /\ \A t, f : Answers(t, f)' = Answers(t, f)
      /\ \A r \in Retries : Entries(r)' = Entries(r)
  BY DEF Skips, Answers, Entries
<1>3. Fresh'
  BY <1>2 DEF SInv, Fresh
<1>4. Owned'
  BY <1>2 DEF SInv, Owned
<1>5. Bound'
  BY <1>2 DEF SInv, Bound
<1>6. StatusFollowsHistory'
  <2>1. \A t, f : \A r \in Answers(t, f) : retry'[r].results = retry[r].results
    BY DEF Answers
  <2>2. \A t \in Scans, f \in Paths : Status(t, f)' = Status(t, f)
    BY <1>2, <2>1, StatusStays
  <2> QED BY <1>2, <2>2 DEF SInv, StatusFollowsHistory, Skips
<1> QED BY <1>1, <1>2, <1>3, <1>4, <1>5, <1>6

LEMMA StartStep ==
    ASSUME SkipConstants, SInv, BeginRetry
    PROVE  SInv'
<1>1. PICK r \in Retries : r = job.id
  BY DEF BeginRetry, SInv, STypeOK, JobRow, Retries, SkipConstants
<1>2. /\ retry[r].state = "queued" /\ retry' = [retry EXCEPT ![r].state = "running"]
      /\ job' = [job EXCEPT !.todo = Entries(r),
                            !.limit = [f \in Paths |-> IF f \in Entries(r) THEN LimitOf(r, f) ELSE 0]]
      /\ UNCHANGED <<size, rules, changes, attempt, receipt, fullScan, reviews, last, bytes>>
  BY <1>1 DEF BeginRetry, world
<1>3. /\ retry' \in [Retries -> RetryRow] /\ r # 0
      /\ \A q \in Retries : /\ retry'[q].parent = retry[q].parent /\ retry'[q].results = retry[q].results
                            /\ retry'[q].entries = retry[q].entries
                            /\ retry'[q].state = "none" <=> retry[q].state = "none"
  <2> DEFINE row == [retry[r] EXCEPT !.state = "running"]
  <2>1. retry \in [Retries -> RetryRow] /\ retry[r] \in RetryRow /\ r # 0
    BY DEF SInv, STypeOK, Retries
  <2>2. /\ row \in RetryRow /\ row.parent = retry[r].parent /\ row.results = retry[r].results
        /\ row.entries = retry[r].entries /\ row.state # "none"
    BY <2>1 DEF RetryRow
  <2>3. retry' = [retry EXCEPT ![r] = row]
    BY <1>2
  <2> HIDE DEF row
  <2> QED BY <1>2, <2>1, <2>2, <2>3
<1>4. /\ Numbered' /\ Fresh' /\ Owned' /\ Bound' /\ StatusFollowsHistory'
      /\ \A q \in Retries : Entries(q)' = Entries(q)
  BY <1>2, <1>3, RowsStay
<1>5. \A f \in Paths : LimitOf(r, f) \in Nat /\ LimitOf(r, f) <= retry[r].entries[f]
  <2> TAKE f \in Paths
  <2>1. ByteLimit(f, retry[r].large) \in Nat
    <3>1. size[f] \in Nat
      BY DEF SInv, STypeOK, Sizes
    <3> QED BY <3>1, OfTwo DEF ByteLimit, Normal
  <2>2. retry[r].entries[f] \in Nat
    BY DEF SInv, STypeOK, RetryRow
  <2> QED BY <2>1, <2>2, OfTwo DEF LimitOf
<1>6. /\ job' \in JobRow /\ job'.id = r /\ job'.todo = Entries(r) /\ job'.results = job.results
      /\ \A f \in Paths : job'.limit[f] <= retry[r].entries[f]
  <2>1. \A f \in Paths : retry[r].entries[f] \in Nat
    BY DEF SInv, STypeOK, RetryRow
  <2> DEFINE limits == [f \in Paths |-> IF f \in Entries(r) THEN LimitOf(r, f) ELSE 0]
  <2>2. limits \in [Paths -> Nat] /\ \A f \in Paths : limits[f] <= retry[r].entries[f]
    BY <1>5, <2>1
  <2>3. job \in JobRow /\ Entries(r) \in SUBSET Paths
    BY DEF SInv, STypeOK, Entries
  <2>4. job' = [job EXCEPT !.todo = Entries(r), !.limit = limits]
    BY <1>2
  <2> HIDE DEF limits
  <2> QED BY <1>1, <2>2, <2>3, <2>4 DEF JobRow
<1>7. STypeOK'
  BY <1>2, <1>3, <1>6 DEF SInv, STypeOK
<1>8. Running'
  BY <1>1, <1>3, <1>4, <1>6 DEF SInv, Running
<1>9. ReadsWithinApproval'
  BY <1>2, <1>3 DEF SInv, ReadsWithinApproval
<1>10. ReceiptsAgree'
  BY <1>3, <1>6 DEF ReceiptsAgree
<1> QED BY <1>4, <1>7, <1>8, <1>9, <1>10 DEF SInv

LEMMA ReadFileStep ==
    ASSUME SkipConstants, SInv, NEW f \in Paths, ReadFile(f)
    PROVE  SInv'
<1>1. PICK r \in Retries : r = job.id
  BY DEF ReadFile, SInv, STypeOK, JobRow, Retries, SkipConstants
<1>2. /\ r # 0 /\ f \in job.todo /\ f \in Entries(r)
      /\ retry[r].state # "none" /\ retry[r].results = NoResults
      /\ UNCHANGED <<size, rules, changes, attempt, receipt, fullScan, retry, reviews, last>>
  BY <1>1 DEF ReadFile, world, SInv, Running, Retries
<1>3. PICK result \in Results :
         /\ job' = [job EXCEPT !.todo = @ \ {f}, !.results[f] = result]
         /\ \/ bytes' = bytes
            \/ size[f] \in 1..job.limit[f] /\ bytes' = [bytes EXCEPT ![r][f] = size[f]]
  BY <1>1 DEF ReadFile, Results
<1>4. /\ job' \in JobRow /\ job'.id = r /\ job'.todo \subseteq job.todo /\ job'.limit = job.limit
      /\ \A g \in Paths : job'.results[g] # "none" => g = f \/ job.results[g] # "none"
  BY <1>1, <1>3 DEF SInv, STypeOK, JobRow
<1>5. /\ bytes' \in [Retries -> [Paths -> Nat]]
      /\ \A q \in Retries \ {r} : bytes'[q] = bytes[q]
      /\ \A g \in Paths : bytes'[r][g] <= retry[r].entries[g]
  <2>1. /\ bytes \in [Retries -> [Paths -> Nat]] /\ size[f] \in Nat
        /\ job.limit[f] \in Nat /\ job.limit[f] <= retry[r].entries[f]
        /\ retry[r].entries[f] \in Nat
        /\ \A g \in Paths : bytes[r][g] <= retry[r].entries[g]
    <3>1. bytes \in [Retries -> [Paths -> Nat]] /\ size[f] \in Nat
      BY DEF SInv, STypeOK, Sizes
    <3>2. job.limit[f] \in Nat /\ retry[r].entries[f] \in Nat
      BY DEF SInv, STypeOK, JobRow, RetryRow
    <3>3. job.limit[f] <= retry[r].entries[f]
      BY <1>1, <1>2 DEF SInv, Running
    <3> QED BY <3>1, <3>2, <3>3 DEF SInv, ReadsWithinApproval
  <2> QED BY <1>3, <2>1
<1>6. STypeOK'
  BY <1>2, <1>4, <1>5 DEF SInv, STypeOK
<1>7. /\ Numbered' /\ Fresh' /\ Owned' /\ Bound' /\ StatusFollowsHistory'
      /\ \A q \in Retries : Entries(q)' = Entries(q)
  <2>1. \A q \in Retries : retry[q].state = "none" => bytes'[q] = bytes[q]
    BY <1>2, <1>5
  <2> QED BY <1>2, <2>1, RowsStay DEF SInv, STypeOK
<1>8. Running'
  BY <1>1, <1>2, <1>4, <1>7 DEF SInv, Running
<1>9. ReadsWithinApproval'
  BY <1>2, <1>5 DEF SInv, ReadsWithinApproval
<1>10. ReceiptsAgree'
  BY <1>2, <1>4 DEF ReceiptsAgree
<1> QED BY <1>6, <1>7, <1>8, <1>9, <1>10 DEF SInv

LEMMA EndStep ==
    ASSUME SkipConstants, SInv, NEW state \in Ended, End(state)
    PROVE  SInv'
<1>1. PICK r \in Retries : r = job.id
  BY DEF End, SInv, STypeOK, JobRow, Retries, SkipConstants
<1>2. /\ retry[r].state # "none" /\ retry[r].results = NoResults /\ r # 0
      /\ \A q \in Retries : retry[q].state # "none" => q <= r
      /\ \A f \in Paths : job.results[f] # "none" => f \in Entries(r)
  BY <1>1 DEF SInv, Running, End
<1>3. PICK s \in Scans : s = retry[r].parent /\ fullScan[s].state # "none" /\ Entries(r) \subseteq Skips(s)
  BY <1>2 DEF SInv, Owned
<1>4. /\ retry' = [retry EXCEPT ![r].state = state, ![r].results = job.results]
      /\ last' = [last EXCEPT ![s] = [f \in Paths |->
                      IF job.results[f] = "none" THEN @[f] ELSE EventOf(job.results[f])]]
      /\ job' = NoJob
      /\ UNCHANGED <<size, rules, changes, attempt, fullScan, reviews, bytes>> /\ RefreshReceipts
  BY <1>1, <1>3 DEF End, world
<1>5. job.results \in [Paths -> Results] /\ state # "none" /\ NoJob \in JobRow /\ NoJob.id = 0
  BY DEF SInv, STypeOK, JobRow, Ended, NoJob, Results, SkipConstants
<1>6. /\ retry' \in [Retries -> RetryRow]
      /\ retry'[r].state = state /\ retry'[r].results = job.results
      /\ retry'[r].parent = s /\ retry'[r].entries = retry[r].entries
      /\ \A q \in Retries \ {r} : retry'[q] = retry[q]
  <2> DEFINE row == [retry[r] EXCEPT !.state = state, !.results = job.results]
  <2>1. retry \in [Retries -> RetryRow] /\ retry[r] \in RetryRow
    BY DEF SInv, STypeOK
  <2>2. /\ row \in RetryRow /\ row.parent = retry[r].parent /\ row.results = job.results
        /\ row.entries = retry[r].entries /\ row.state = state
    BY <1>5, <2>1 DEF RetryRow
  <2>3. retry' = [retry EXCEPT ![r] = row]
    BY <1>4, <2>1
  <2> HIDE DEF row
  <2> QED BY <1>3, <2>1, <2>2, <2>3
<1>7. /\ last' \in [Scans -> [Paths -> {"none", "failed", "accepted", "resolved"}]]
      /\ \A t \in Scans, f \in Paths : last'[t][f] =
            IF t = s /\ job.results[f] # "none" THEN EventOf(job.results[f]) ELSE last[t][f]
  BY <1>4, <1>5 DEF SInv, STypeOK, EventOf
<1>8. STypeOK'
  <2>1. receipt' \in [Roots -> SUBSET Paths]
    BY <1>4 DEF RefreshReceipts, Warnings, Pending, Skips
  <2> QED BY <1>4, <1>5, <1>6, <1>7, <2>1 DEF SInv, STypeOK
<1>9. Numbered'
  <2>1. {q \in Retries : retry'[q].state # "none"} = {q \in Retries : retry[q].state # "none"}
    BY <1>2, <1>5, <1>6
  <2> QED BY <1>4, <2>1 DEF SInv, Numbered
<1>10. /\ \A t : Skips(t)' = Skips(t)
       /\ \A q \in Retries : Entries(q)' = Entries(q)
  BY <1>4, <1>6 DEF Skips, Entries
<1>11. Fresh'
  BY <1>2, <1>3, <1>4, <1>5, <1>6, <1>7, <1>10 DEF SInv, Fresh
<1>12. Owned'
  BY <1>2, <1>3, <1>4, <1>6, <1>10 DEF SInv, Owned
<1>13. \A t \in Scans : \A f \in Paths :
          /\ r \notin Answers(t, f)
          /\ Answers(t, f)' = IF t = s /\ job.results[f] # "none"
                             THEN Answers(t, f) \cup {r} ELSE Answers(t, f)
  BY <1>2, <1>3, <1>6 DEF Answers, NoResults
<1>14. Bound'
  BY <1>4, <1>10, <1>13 DEF SInv, Bound
<1>15. Running'
  BY <1>4, <1>5 DEF Running
<1>16. StatusFollowsHistory'
  <2> SUFFICES ASSUME NEW t \in Scans, NEW f \in Paths, f \in Skips(t)
               PROVE  Status(t, f)' = CASE last'[t][f] = "failed" -> "unresolved"
                                        [] OTHER -> last'[t][f]
    BY <1>10 DEF StatusFollowsHistory, Skips
  <2>1. CASE t = s /\ job.results[f] # "none"
    <3>1. Outcome(s, f)' = r
      <4> DEFINE T == {0} \cup Answers(s, f) \cup {r}
      <4>1. T \in SUBSET (0..MaxRetries) /\ r \in T /\ MaxRetries \in Nat
        BY DEF Answers, Retries, SkipConstants
      <4>2. \A q \in T : r >= q
        BY <1>2 DEF Answers, Retries, SInv, Fresh, NoResults
      <4>3. Max(T) = r
        <5> HIDE DEF T
        <5> QED BY <4>1, <4>2, MaxIs
      <4>4. Outcome(s, f)' = Max({0} \cup Answers(s, f)')
        BY DEF Outcome, Answers
      <4> QED BY <1>13, <2>1, <4>3, <4>4
    <3>2. Reason(s, f)' = job.results[f]
      BY <1>2, <1>6, <3>1 DEF Reason
    <3>3. ~Accepted(s, f)'
      <4>1. <<s, f, r>> \notin reviews
        BY <1>2, <1>13 DEF SInv, Bound, Retries, SkipConstants
      <4> QED BY <1>4, <3>1, <4>1 DEF Accepted
    <3>4. last'[s][f] = EventOf(job.results[f])
      BY <1>7, <2>1
    <3> QED BY <2>1, <3>2, <3>3, <3>4 DEF Status, EventOf
  <2>2. CASE ~(t = s /\ job.results[f] # "none")
    <3>1. Status(t, f)' = Status(t, f)
      <4>1. \A q \in Answers(t, f) : retry'[q].results = retry[q].results
        BY <1>6, <1>13 DEF Answers
      <4>2. Answers(t, f)' = Answers(t, f)
        BY <1>13, <2>2
      <4> QED BY <1>4, <4>1, <4>2, StatusStays
    <3> QED BY <1>7, <2>2, <3>1 DEF SInv, StatusFollowsHistory
  <2> QED BY <2>1, <2>2
<1>17. ReadsWithinApproval'
  BY <1>4, <1>6 DEF SInv, ReadsWithinApproval
<1>18. ReceiptsAgree'
  BY <1>4, <1>8, <1>11, <1>16, Refreshed
<1> QED BY <1>8, <1>9, <1>11, <1>12, <1>14, <1>15, <1>16, <1>17, <1>18 DEF SInv

LEMMA InterruptedStep ==
    ASSUME SkipConstants, SInv, Interrupted
    PROVE  SInv'
<1>1. PICK r \in Retries : r = job.id
  BY DEF Interrupted, SInv, STypeOK, JobRow, Retries, SkipConstants
<1>2. /\ retry[r].state # "none" /\ retry' = [retry EXCEPT ![r].state = "failed"]
      /\ job' = NoJob
      /\ UNCHANGED <<size, rules, changes, attempt, fullScan, reviews, last, bytes>> /\ RefreshReceipts
  BY <1>1 DEF Interrupted, world, SInv, Running
<1>3. /\ retry' \in [Retries -> RetryRow] /\ NoJob \in JobRow /\ NoJob.id = 0
      /\ \A q \in Retries : /\ retry'[q].parent = retry[q].parent /\ retry'[q].results = retry[q].results
                            /\ retry'[q].entries = retry[q].entries
                            /\ retry'[q].state = "none" <=> retry[q].state = "none"
  <2> DEFINE row == [retry[r] EXCEPT !.state = "failed"]
  <2>1. retry \in [Retries -> RetryRow] /\ retry[r] \in RetryRow
    BY DEF SInv, STypeOK
  <2>2. /\ row \in RetryRow /\ row.parent = retry[r].parent /\ row.results = retry[r].results
        /\ row.entries = retry[r].entries /\ row.state # "none"
    BY <2>1 DEF RetryRow, Ended
  <2>3. retry' = [retry EXCEPT ![r] = row]
    BY <1>2
  <2>4. NoJob \in JobRow /\ NoJob.id = 0
    BY DEF NoJob, JobRow, Results, SkipConstants
  <2> HIDE DEF row
  <2> QED BY <1>2, <2>1, <2>2, <2>3, <2>4
<1>4. Numbered' /\ Fresh' /\ Owned' /\ Bound' /\ StatusFollowsHistory'
  BY <1>2, <1>3, RowsStay
<1>5. STypeOK'
  <2>1. receipt' \in [Roots -> SUBSET Paths]
    BY <1>2 DEF RefreshReceipts, Warnings, Pending, Skips
  <2> QED BY <1>2, <1>3, <2>1 DEF SInv, STypeOK
<1>6. Running'
  BY <1>2, <1>3 DEF Running
<1>7. ReadsWithinApproval'
  BY <1>2, <1>3 DEF SInv, ReadsWithinApproval
<1>8. ReceiptsAgree'
  BY <1>2, <1>4, <1>5, Refreshed
<1> QED BY <1>4, <1>5, <1>6, <1>7, <1>8 DEF SInv

\* Files, rules and registrations.
LEMMA ChangeStep ==
    ASSUME SkipConstants, SInv,
           \/ RulesChange
           \/ \E f \in Paths : FileChanges(f)
           \/ \E e \in Roots : Reregister(e)
    PROVE  SInv'
<1>1. UNCHANGED <<fullScan, retry, reviews, job, last, bytes>>
  BY DEF RulesChange, FileChanges, Reregister
<1>2. /\ changes' \in Nat /\ size' \in [Paths -> Sizes] /\ rules' \in Nat
      /\ attempt' \in [Roots -> -1..MaxScans] /\ receipt' \in [Roots -> SUBSET Paths]
  <2>1. changes \in Nat /\ size \in [Paths -> Sizes] /\ rules \in Nat
        /\ attempt \in [Roots -> -1..MaxScans] /\ receipt \in [Roots -> SUBSET Paths]
    BY DEF SInv, STypeOK
  <2>2. CASE RulesChange
    BY <2>1, <2>2 DEF RulesChange, Change, SkipConstants
  <2>3. ASSUME NEW f \in Paths, FileChanges(f)
        PROVE  changes' \in Nat /\ size' \in [Paths -> Sizes] /\ UNCHANGED <<rules, attempt, receipt>>
    BY <2>1, <2>3 DEF FileChanges, Change
  <2>4. ASSUME NEW e \in Roots, Reregister(e)
        PROVE  /\ changes' \in Nat /\ UNCHANGED <<size, rules>>
               /\ attempt' \in [Roots -> -1..MaxScans] /\ receipt' \in [Roots -> SUBSET Paths]
    <3>1. -1 \in -1..MaxScans /\ 0 \in -1..MaxScans
      BY DEF SkipConstants
    <3> QED BY <2>1, <2>4, <3>1 DEF Reregister, Change
  <2> QED BY <2>1, <2>2, <2>3, <2>4
<1>3. STypeOK'
  BY <1>1, <1>2 DEF SInv, STypeOK
<1>4. Numbered' /\ Fresh' /\ Owned' /\ Bound' /\ StatusFollowsHistory'
  BY <1>1, RowsStay DEF SInv, STypeOK
<1>5. Running' /\ ReadsWithinApproval'
  BY <1>1 DEF SInv, Running, ReadsWithinApproval, Entries
<1>6. ReceiptsAgree'
  <2>1. CASE \E e \in Roots : Reregister(e)
    <3>1. PICK e \in Roots : /\ receipt' = [receipt EXCEPT ![e] = {}]
                             /\ attempt' = [attempt EXCEPT ![e] = -1] \/ attempt' = [attempt EXCEPT ![e] = 0]
      BY <2>1 DEF Reregister
    <3>2. attempt'[e] \notin Scans /\ receipt'[e] = {}
      BY <3>1 DEF SInv, STypeOK, Scans
    <3>3. \A d \in Roots \ {e} : attempt'[d] = attempt[d] /\ receipt'[d] = receipt[d]
      BY <3>1 DEF SInv, STypeOK
    <3> QED BY <1>1, <3>2, <3>3 DEF SInv, ReceiptsAgree
  <2>2. CASE UNCHANGED <<attempt, receipt>>
    BY <1>1, <2>2 DEF SInv, ReceiptsAgree
  <2> QED BY <2>1, <2>2 DEF RulesChange, FileChanges
<1> QED BY <1>3, <1>4, <1>5, <1>6 DEF SInv

LEMMA NextS == SkipConstants /\ SInv /\ [SkNext]_skvars => SInv'
<1> SUFFICES ASSUME SkipConstants, SInv, [SkNext]_skvars PROVE SInv'
  OBVIOUS
<1>1. CASE UNCHANGED skvars
  <2>1. UNCHANGED <<size, rules, attempt, receipt, fullScan, retry, reviews, job, changes, last, bytes>>
    BY <1>1 DEF skvars
  <2>2. Numbered' /\ Fresh' /\ Owned' /\ Bound' /\ StatusFollowsHistory'
    BY <2>1, RowsStay DEF SInv, STypeOK
  <2> QED BY <2>1, <2>2 DEF SInv, STypeOK, Running, Entries, ReadsWithinApproval, ReceiptsAgree
<1>2. CASE \E roots \in SUBSET Roots \ {{}}, state \in Ended : Scan(roots, state)
  BY <1>2, ScanStep
<1>3. ASSUME NEW s \in Scans, NEW filter \in Filters, NEW large \in BOOLEAN,
             NEW mode, NEW ids \in SUBSET Paths,
             RequestRetry(s, mode, ids, filter[1], filter[2], large)
      PROVE  SInv'
  BY <1>3, RequestRetryStep
<1>4. ASSUME NEW s \in Scans, NEW mode, NEW ids \in SUBSET Paths, NEW review,
             Accept(s, mode, ids, review)
      PROVE  SInv'
  BY <1>4, AcceptStep
<1>5. CASE BeginRetry \/ Interrupted
  BY <1>5, StartStep, InterruptedStep
<1>6. CASE \E f \in Paths : ReadFile(f) \/ FileChanges(f)
  BY <1>6, ReadFileStep, ChangeStep
<1>7. CASE \E state \in Ended : End(state)
  BY <1>7, EndStep
<1>8. CASE RulesChange \/ \E e \in Roots : Reregister(e)
  BY <1>8, ChangeStep
<1>9. CASE \E s \in Scans, filter \in Filters, large \in BOOLEAN :
           \/ RequestRetry(s, "all", {}, filter[1], filter[2], large)
           \/ \E ids \in SUBSET Paths \ {{}} :
                 RequestRetry(s, "selected", ids, filter[1], filter[2], large)
  <2>1. PICK s \in Scans, filter \in Filters, large \in BOOLEAN :
           \/ RequestRetry(s, "all", {}, filter[1], filter[2], large)
           \/ \E ids \in SUBSET Paths \ {{}} :
                 RequestRetry(s, "selected", ids, filter[1], filter[2], large)
    BY <1>9
  <2>2. CASE RequestRetry(s, "all", {}, filter[1], filter[2], large)
    BY <1>3, <2>2
  <2>3. CASE \E ids \in SUBSET Paths \ {{}} :
                RequestRetry(s, "selected", ids, filter[1], filter[2], large)
    BY <1>3, <2>3
  <2> QED BY <2>1, <2>2, <2>3
<1>10. CASE \E s \in Scans, filter \in Filters :
           \/ Accept(s, "all", {}, filter[2])
           \/ \E ids \in SUBSET Paths \ {{}} : Accept(s, "selected", ids, filter[2])
  <2>1. PICK s \in Scans, filter \in Filters :
           \/ Accept(s, "all", {}, filter[2])
           \/ \E ids \in SUBSET Paths \ {{}} : Accept(s, "selected", ids, filter[2])
    BY <1>10
  <2>2. CASE Accept(s, "all", {}, filter[2])
    BY <1>4, <2>2
  <2>3. CASE \E ids \in SUBSET Paths \ {{}} : Accept(s, "selected", ids, filter[2])
    BY <1>4, <2>3
  <2> QED BY <2>1, <2>2, <2>3
<1> QED BY <1>1, <1>2, <1>5, <1>6, <1>7, <1>8, <1>9, <1>10 DEF SkNext

-----------------------------------------------------------------------------
(* The theorems.                                                           *)

\* The rows keep their types, and the invariant above holds.
THEOREM SkipsInvariant == ASSUME SkipConstants PROVE SkSpec => []SInv
BY InitS, NextS, PTL DEF SkSpec

\* The status derived from the rows of scans, retries and reviews (skip_status and
\* the outcomes scan_retries reads) is what happened to the skip last, for any number
\* of retries, crashes and acceptances.
THEOREM SkipStatus == ASSUME SkipConstants PROVE SkSpec => []StatusFollowsHistory
<1>1. SInv => StatusFollowsHistory
  BY DEF SInv
<1> QED BY <1>1, SkipsInvariant, PTL

\* A retry reads no more of a file than was approved when it was requested.
THEOREM ApprovedReads == ASSUME SkipConstants PROVE SkSpec => []ReadsWithinApproval
<1>1. SInv => ReadsWithinApproval
  BY DEF SInv
<1> QED BY <1>1, SkipsInvariant, PTL

\* The warnings stored with the evidence are those of the rows whenever no retry runs.
THEOREM AgreeingReceipts == ASSUME SkipConstants PROVE SkSpec => []ReceiptsAgree
<1>1. SInv => ReceiptsAgree
  BY DEF SInv
<1> QED BY <1>1, SkipsInvariant, PTL
=============================================================================
