------------------------------- MODULE Hunts --------------------------------
(* Pattern hunts: the pattern library of the workspace (patterns.py), checks  *)
(* of patterns against the log index by a request or a background batch       *)
(* (hunt_batches.py), and the requests that turn a checked pattern into       *)
(* indicators or findings (app.py).                                           *)
(*                                                                            *)
(* A rule is a set of request steps, each the set of the kinds of requests    *)
(* it takes, and says whether a client has to show all steps or any.  The     *)
(* fingerprint of an index is the number of its build: the code hashes a      *)
(* generation id of each build into it.                                       *)
EXTENDS LogIndex

CONSTANTS
    HuntRules,      \* rules an analyst may write: [all, steps]
    Bundled,        \* the rule of the pattern that ships with the program
    WithCve,        \* patterns (by number) that name a CVE
    MaxPatterns, MaxVersion, MaxWeight, MaxTests, MaxApps   \* bounds

ASSUME HuntConstants == MaxPatterns \in Nat

VARIABLES
    library,  \* pattern number -> entry; pattern 1 is the bundled one
    job,      \* the row of the hunt job: state, fingerprint, roster
    check,    \* the pattern check in progress
    tests,    \* table hunt_tests
    cves,     \* clients recorded as CVE indicators: [test, client]
    apps,     \* table hunt_applications
    op        \* the request that applies a test

hvars == <<library, job, check, tests, cves, apps, op>>

NoHunt == [state |-> "none", fp |-> 0, roster |-> <<>>, next |-> 0, cancelled |-> FALSE]
NoCheck == [at |-> "none", batch |-> FALSE, pattern |-> 0, version |-> 0,
            rule |-> Bundled, fp |-> 0, clients |-> {}]
NoOp == [at |-> "none", key |-> 0, test |-> 0, clusters |-> {},
         pattern |-> 0, version |-> 0]

-----------------------------------------------------------------------------
(* Matching.                                                                  *)

StepClients(rows, step) == {l.ip : l \in {m \in rows : m.hit \in step}}
Kept(rows, rule) ==
    {ip \in {l.ip : l \in rows} :
       IF rule.all THEN \A s \in rule.steps : ip \in StepClients(rows, s)
                   ELSE \E s \in rule.steps : ip \in StepClients(rows, s)}
Matched(rows, rule) ==
    {l \in rows : l.hit \in UNION rule.steps /\ l.ip \in Kept(rows, rule)}
\* Requests of one client of one kind and one class of answers.
Clusters(rows, rule) ==
    {[client |-> l.ip, hit |-> l.hit, ok |-> l.ok] : l \in Matched(rows, rule)}

\* The fingerprint requests compare with: none unless the index is fresh.
CurrentFingerprint ==
    IF registered # {} /\ FreshIndex(registered) THEN accessIndex.gen ELSE 0
IsCurrent(fp) == fp # 0 /\ CurrentFingerprint = fp

-----------------------------------------------------------------------------
(* The pattern library.                                                       *)

Entry(rule, parent) ==
    [rule |-> rule, version |-> 1, enabled |-> TRUE, archived |-> FALSE,
     parent |-> parent, history |-> <<[rule |-> rule, archived |-> FALSE]>>]
Own(p) == p \in DOMAIN library /\ p # 1
KnownRule(rule, except) == \E p \in DOMAIN library \ except : library[p].rule = rule
NextPattern == Cardinality(DOMAIN library) + 1
\* What the hunt runs.
Enabled == {p \in DOMAIN library : library[p].enabled /\ ~library[p].archived}

CanAdd(rule) == NextPattern <= MaxPatterns /\ ~KnownRule(rule, {})
Added(rule, parent) ==
    [p \in DOMAIN library \cup {NextPattern} |->
        IF p \in DOMAIN library THEN library[p] ELSE Entry(rule, parent)]

CanUpdate(p, rule, expected) ==
    /\ Own(p) /\ library[p].version < MaxVersion
    /\ expected \in {0, library[p].version}
    /\ ~KnownRule(rule, {p, library[p].parent})
\* The entry with its new rule; how says whether it is archived ("yes"),
\* brought back ("no") or left as it is ("keep").
Changed(e, rule, how) ==
    [e EXCEPT !.rule = rule, !.version = @ + 1,
              !.archived = how = "yes" \/ (@ /\ how = "keep"),
              !.enabled = @ /\ how # "yes"]
\* A new version; the snapshot of every version stays in the history.
Updated(p, rule, how) ==
    LET e == Changed(library[p], rule, how)
    IN  [library EXCEPT ![p] = [e EXCEPT !.history =
            Append(@, [rule |-> rule, archived |-> e.archived])]]

SwitchedOff(lib, p) == [lib EXCEPT ![p].enabled = FALSE]

\* A variant of a pattern: one that is customised must be new to the library,
\* but for its original, which may be switched off with it.
CanClone(p, rule, customised) ==
    /\ NextPattern <= MaxPatterns
    /\ customised => ~KnownRule(rule, {p})
Cloned(p, rule, disable) ==
    IF disable THEN SwitchedOff(Added(rule, p), p) ELSE Added(rule, p)

\* The bound on edits: versions, and patterns that are only switched off.
Weight(lib) == MapThenSumSet(LAMBDA p : lib[p].version
                   + IF lib[p].enabled \/ lib[p].archived THEN 0 ELSE 1, DOMAIN lib)
\* One request to the library: add, patch, copy, restore, archive, switch.
Edits ==
    /\ \/ \E r \in HuntRules : CanAdd(r) /\ library' = Added(r, 0)
       \/ \E p \in DOMAIN library, r \in HuntRules, v \in 0 .. MaxVersion :
            /\ CanUpdate(p, r, v)
            /\ \E how \in {"keep", "yes", "no"} : library' = Updated(p, r, how)
       \/ \E p \in DOMAIN library :
            /\ CanClone(p, library[p].rule, FALSE)
            /\ library' = Cloned(p, library[p].rule, FALSE)
       \/ \E p \in DOMAIN library : \E v \in 1 .. library[p].version :
            LET wanted == library[p].history[v]
            IN  /\ CanUpdate(p, wanted.rule, 0)
                /\ library' = Updated(p, wanted.rule,
                                      IF wanted.archived THEN "yes" ELSE "no")
       \/ \E p \in DOMAIN library :
            \/ Own(p) /\ ~library[p].archived /\ library[p].version < MaxVersion
               /\ library' = Updated(p, library[p].rule, "yes")
            \/ library' = [library EXCEPT ![p].enabled = ~@]
    /\ Weight(library') <= MaxWeight
    /\ UNCHANGED <<ixvars, job, check, tests, cves, apps, op>>

-----------------------------------------------------------------------------
(* Checks of patterns.                                                        *)

Hunting == job.state \in {"queued", "running"}
Test(t) == tests[t]

\* Requests that start something replace nothing another one works on: the
\* index is rebuilt and a check is started when the case is idle.
CaseIdle == ~Hunting /\ op.at = "none" /\ check.at = "none" /\ builder.at = "idle"

\* A batch: some of the enabled patterns, as they are now, and the fingerprint.
BatchStart ==
    /\ CaseIdle /\ job = NoHunt /\ CurrentFingerprint # 0
    /\ \E n \in 1 .. MaxPatterns : \E wanted \in [1 .. n -> Enabled] :
         /\ \A i, j \in 1 .. n : i < j => wanted[i] < wanted[j]
         /\ job' = [NoHunt EXCEPT
              !.state = "queued", !.fp = CurrentFingerprint, !.next = 1,
              !.roster = [i \in 1 .. n |->
                [id |-> wanted[i], version |-> library[wanted[i]].version,
                 rule |-> library[wanted[i]].rule, status |-> "pending"]]]
    /\ UNCHANGED <<ixvars, library, check, tests, cves, apps, op>>

BatchCancel ==
    /\ Hunting /\ ~job.cancelled
    /\ job' = [job EXCEPT !.cancelled = TRUE]
    /\ UNCHANGED <<ixvars, library, check, tests, cves, apps, op>>

\* What was not looked at is said to be not run.
Settled(roster) ==
    [i \in DOMAIN roster |-> IF roster[i].status \in {"pending", "running"}
                             THEN [roster[i] EXCEPT !.status = "not_run"]
                             ELSE roster[i]]
EndJob(roster) ==
    [job EXCEPT !.state = IF job.cancelled THEN "cancelled" ELSE "done",
                !.roster = Settled(roster)]
MarkedAs(status) == [job.roster EXCEPT ![job.next].status = status]

\* The loop over the roster: the next pattern is announced before its check.
BatchNext ==
    /\ Hunting /\ check.at = "none"
    /\ IF job.cancelled \/ job.next > Len(job.roster)
       THEN job' = EndJob(job.roster) /\ UNCHANGED check
       ELSE LET item == job.roster[job.next]
            IN  /\ job' = [job EXCEPT !.state = "running", !.roster = MarkedAs("running")]
                /\ check' = [at |-> "match", batch |-> TRUE, pattern |-> item.id,
                             version |-> item.version, rule |-> item.rule,
                             fp |-> job.fp, clients |-> {}]
    /\ UNCHANGED <<ixvars, library, tests, cves, apps, op>>

\* A request checks one rule, saved or not.
TestStart ==
    /\ CaseIdle /\ CurrentFingerprint # 0 /\ Len(tests) < MaxTests
    /\ \/ \E r \in HuntRules : check' = [NoCheck EXCEPT !.at = "match", !.rule = r,
                                                   !.fp = CurrentFingerprint]
       \/ \E p \in DOMAIN library :
            check' = [NoCheck EXCEPT !.at = "match", !.pattern = p,
                        !.rule = library[p].rule, !.version = library[p].version,
                        !.fp = CurrentFingerprint]
    /\ UNCHANGED <<ixvars, library, job, tests, cves, apps, op>>

\* The index is the one expected, and its rows are read in one transaction.
CheckMatch ==
    /\ check.at = "match" /\ IsCurrent(check.fp)
    /\ check' = [check EXCEPT !.at = "verify", !.clients = Kept(accessIndex.rows, check.rule)]
    /\ UNCHANGED <<ixvars, library, job, tests, cves, apps, op>>

CheckVerify ==
    /\ check.at = "verify" /\ IsCurrent(check.fp)
    /\ check' = [check EXCEPT !.at = "store"]
    /\ UNCHANGED <<ixvars, library, job, tests, cves, apps, op>>

\* One transaction: the test, and for a pattern with a CVE every client, after
\* which the registrations are looked at once more.
CheckStore ==
    /\ check.at = "store" /\ Len(tests) < MaxTests
    /\ check.pattern \in WithCve => IsCurrent(check.fp)
    /\ tests' = Append(tests, [batch |-> check.batch, pattern |-> check.pattern,
                               version |-> check.version, rule |-> check.rule,
                               gen |-> check.fp, clients |-> check.clients])
    /\ cves' = IF check.pattern \in WithCve
               THEN cves \cup [test : {Len(tests) + 1},
                               client : Kept(accessIndex.rows, check.rule)]
               ELSE cves
    /\ check' = IF check.batch THEN [check EXCEPT !.at = "save"] ELSE NoCheck
    /\ UNCHANGED <<ixvars, library, job, apps, op>>

\* Mutant: a check that fails is not told from one that is done.
FailedRoster == MarkedAs("done")
FailedAs == MarkedAs("failed")

\* Anything that goes wrong ends the check.  In a batch the pattern has failed,
\* or, when the job has been cancelled, has not been run.
CheckFails ==
    /\ check.at \in {"match", "verify", "store"}
    /\ check' = NoCheck
    /\ IF ~check.batch THEN UNCHANGED job
       ELSE IF job.cancelled THEN job' = EndJob(MarkedAs("not_run"))
       ELSE job' = [job EXCEPT !.roster = FailedAs, !.next = @ + 1]
    /\ UNCHANGED <<ixvars, library, tests, cves, apps, op>>

BatchSave ==
    /\ check.at = "save"
    /\ job' = [job EXCEPT !.roster = MarkedAs("done"), !.next = @ + 1]
    /\ check' = NoCheck
    /\ UNCHANGED <<ixvars, library, tests, cves, apps, op>>

\* The job ends in the middle: its process has gone, or saving the roster
\* fails.  The row says so; the roster stays as it was saved last.
BatchBreaks ==
    /\ Hunting
    /\ job' = [job EXCEPT !.state = "failed"]
    /\ check' = NoCheck
    /\ UNCHANGED <<ixvars, library, tests, cves, apps, op>>

-----------------------------------------------------------------------------
(* What becomes of a test.                                                    *)

\* Clients a test has matched are collected as indicators of the CVE of its
\* pattern, if the pattern is still the one that was tested.
CollectClients ==
    /\ op.at = "none" /\ builder.at = "idle" /\ (check.at = "none" \/ check.batch)
    /\ \E t \in 1 .. Len(tests) :
         /\ IsCurrent(Test(t).gen)
         /\ Test(t).pattern \in DOMAIN library
         /\ library[Test(t).pattern].rule = Test(t).rule
         /\ library[Test(t).pattern].version = Test(t).version
         /\ \E selected \in SUBSET Kept(accessIndex.rows, Test(t).rule) \ {{}} :
              cves' = cves \cup [test : {t}, client : selected]
    /\ UNCHANGED <<ixvars, library, job, check, tests, apps, op>>

\* A request to apply a test; a repeated one gets the stored answer.
ApplyStart ==
    /\ op.at = "none" /\ builder.at = "idle" /\ (check.at = "none" \/ check.batch)
    /\ \E t \in 1 .. Len(tests), k \in 1 .. MaxApps :
         /\ IsCurrent(Test(t).gen)
         /\ \A a \in apps : a.key # k
         /\ \E chosen \in SUBSET Clusters(accessIndex.rows, Test(t).rule) :
              /\ chosen # {}
              /\ op' = [NoOp EXCEPT !.at = "save", !.key = k, !.test = t,
                                    !.clusters = chosen]
    /\ UNCHANGED <<ixvars, library, job, check, tests, cves, apps>>

SavedAs(p, v) == op' = [op EXCEPT !.at = "apply", !.pattern = p, !.version = v]

\* A pattern saved as it stands has to be the one that was tested.
UnchangedIs(p) == library[p].rule = Test(op.test).rule

\* The pattern is saved first: as it is, as a new version of an own one, as a
\* variant of a bundled one, or as a new one.
ApplySave ==
    LET rule == Test(op.test).rule
    IN  /\ op.at = "save"
        /\ \/ \E p \in DOMAIN library :
                UnchangedIs(p) /\ SavedAs(p, library[p].version) /\ UNCHANGED library
           \/ \E p \in DOMAIN library, v \in 0 .. MaxVersion :
                /\ CanUpdate(p, rule, v)
                /\ library' = Updated(p, rule, "keep")
                /\ SavedAs(p, library[p].version + 1)
           \/ \E disable \in BOOLEAN :
                /\ CanClone(1, rule, TRUE)
                /\ library' = Cloned(1, rule, disable)
                /\ SavedAs(NextPattern, 1)
           \/ CanAdd(rule) /\ library' = Added(rule, 0) /\ SavedAs(NextPattern, 1)
        /\ UNCHANGED <<ixvars, job, check, tests, cves, apps>>

StillCurrent(t) == IsCurrent(Test(t).gen)

\* Then, with the write lock of the case, the application and its findings.
ApplyCommit ==
    /\ op.at = "apply"
    /\ StillCurrent(op.test)
    /\ apps' = apps \cup {[key |-> op.key, test |-> op.test, pattern |-> op.pattern,
                           version |-> op.version, rule |-> Test(op.test).rule,
                           findings |-> {[client |-> c.client,
                              high |-> \E d \in op.clusters :
                                          d.client = c.client /\ d.ok] :
                              c \in op.clusters}]}
    /\ op' = NoOp
    /\ UNCHANGED <<ixvars, library, job, check, tests, cves>>

\* Refused or broken off: a pattern that was saved stays saved.
ApplyFails ==
    /\ op.at # "none"
    /\ op' = NoOp
    /\ UNCHANGED <<ixvars, library, job, check, tests, cves, apps>>

-----------------------------------------------------------------------------
HInit ==
    /\ IxInit
    /\ library = [p \in {1} |-> Entry(Bundled, 0)]
    /\ job = NoHunt /\ check = NoCheck /\ op = NoOp
    /\ tests = <<>> /\ cves = {} /\ apps = {}

\* The steps of the index, which is only rebuilt in an idle case.
IndexNext ==
    /\ \/ CaseIdle /\ BuildStart
       \/ Register \/ Edit \/ (\E f \in AccessLogs : ReadFile(f))
       \/ Publish \/ WriteAlerts \/ CompleteAlerts
    /\ UNCHANGED hvars

HNext ==
    \/ IndexNext \/ Edits
    \/ BatchStart \/ BatchCancel \/ BatchNext \/ TestStart
    \/ CheckMatch \/ CheckVerify \/ CheckStore \/ CheckFails
    \/ BatchSave \/ BatchBreaks
    \/ CollectClients \/ ApplyStart \/ ApplySave \/ ApplyCommit \/ ApplyFails

HSpec == HInit /\ [][HNext]_<<ixvars, hvars>>

-----------------------------------------------------------------------------
(* What the list of runs shows.                                               *)

TestsOf(item) == {t \in 1 .. Len(tests) : Test(t).batch /\ Test(t).pattern = item.id}
StatusShown(item) ==
    IF TestsOf(item) # {} THEN "done"
    ELSE IF ~Hunting /\ item.status \in {"pending", "running"} THEN "not_run"
    ELSE item.status
AllChecked ==
    job.state = "done" /\ \A i \in DOMAIN job.roster : StatusShown(job.roster[i]) = "done"

(* The record of a batch tells the truth, through failing checks, cancelling  *)
(* and a process that ends between storing a test and saving the roster: a    *)
(* pattern counts as checked exactly when a test of its listed version is     *)
(* stored, on the index the batch began with; an ended run leaves nothing     *)
(* open, and only one that was never cancelled is complete.                   *)
BatchTellsTheTruth ==
    \A i \in DOMAIN job.roster :
        LET item == job.roster[i]
        IN  /\ StatusShown(item) = "done" <=>
                 \E t \in 1 .. Len(tests) :
                    /\ Test(t).batch /\ Test(t).pattern = item.id
                    /\ Test(t).version = item.version /\ Test(t).rule = item.rule
                    /\ Test(t).gen = job.fp
            /\ ~Hunting => StatusShown(item) \in {"done", "failed", "not_run"}
            /\ AllChecked => TestsOf(item) # {}

=============================================================================
