------------------------------ MODULE Analysis ------------------------------
(***************************************************************************)
(* One click on "analyze" starts one run: `_analyze` (server/app.py) plans *)
(* the engines for the registered evidence and submits one job per engine, *)
(* and AnalysisReceipts / refresh_receipts (server/analysis.py) keep for   *)
(* each evidence source a receipt of the run, from which the next click    *)
(* decides what is still to be analyzed.                                   *)
(*                                                                         *)
(* The module refines the steps of Jobs: an engine may wait for the "done" *)
(* event of earlier engines of its run while it occupies a pool thread,    *)
(* and the receipt is written by three parties, the wrapper around the     *)
(* engine, the terminal write of any job, and the recovery of interrupted  *)
(* jobs.  The runs, the evidence and the receipts are those of one case,   *)
(* with one evidence row per kind.                                         *)
(***************************************************************************)
EXTENDS Jobs, SequencesExt

CONSTANTS
    Registered, \* kinds of evidence registered in the case
    YaraRules,  \* the workspace has YARA rules
    MaxRuns     \* bound: clicks on "analyze"

EvidenceKinds == {"access_logs", "logs", "webroot", "sql_dump"}
Engines == {"index_logs", "errorlog", "sigma", "webshell", "cms", "yara",
            "sqldb", "log_events", "content_index"}
Runs == 1..MaxRuns

ASSUME CaseAssumption == \A c, d \in Cases : c = d
ASSUME RegisteredAssumption == Registered \subseteq EvidenceKinds
ASSUME YaraAssumption == YaraRules \in BOOLEAN
ASSUME RunsAssumption == MaxRuns \in Nat

VARIABLES
    engine,   \* the engine a job runs
    run,      \* jobs.run_id, 0 for none
    result,   \* what the engine returned: "none", "complete" or "partial"
    stage,    \* where a pool thread is inside the wrapped engine
    done,     \* jobs whose done event is set
    chosen,   \* the evidence kinds a run was started for
    runs,     \* the runs started so far; the last one is current
    next,     \* position in the task list being submitted
    outcome,  \* AnalysisReceipts.outcomes of the current run
    finished, \* AnalysisReceipts.finished of the current run
    attempt,  \* evidence.stats.last_attempt
    scanned   \* evidence.scanned_at, as the run that set it; 0 for unset

plan == <<engine, run, result, chosen, runs, next>>
receipts == <<outcome, finished>>
evidence == <<attempt, scanned>>
avars == <<engine, run, result, stage, done, chosen, runs, next, outcome,
           finished, attempt, scanned>>

-----------------------------------------------------------------------------
(* The plan of a run.                                                      *)

Logs(kinds) == kinds \cap {"access_logs", "logs"}
WhenSeq(cond, tasks) == IF cond THEN tasks ELSE <<>>

\* Which engines are queued, in this order, for the chosen kinds.
Tasks(kinds) ==
    LET withErrors == "logs" \notin Registered
        refreshErrors == Logs(kinds) = {} /\ "webroot" \in kinds
                         /\ "access_logs" \in Registered
    IN  WhenSeq(Logs(kinds) # {}, <<"index_logs">>)
        \o WhenSeq(Logs(kinds) # {} /\ withErrors, <<"errorlog">>)
        \o WhenSeq(Logs(kinds) # {}, <<"sigma">>)
        \o WhenSeq("webroot" \in kinds, <<"webshell", "cms">>)
        \o WhenSeq("webroot" \in kinds /\ YaraRules, <<"yara">>)
        \o WhenSeq("sql_dump" \in kinds, <<"sqldb">>)
        \o WhenSeq(refreshErrors /\ withErrors, <<"errorlog">>)
        \o WhenSeq("logs" \in Registered /\ kinds \cap {"logs", "access_logs", "webroot"} # {},
                   <<"log_events">>)
        \o WhenSeq("webroot" \in kinds, <<"content_index">>)

\* The kinds of evidence whose receipt needs the engine.
FeedsKinds(e, kinds) ==
    CASE e \in {"index_logs", "sigma"} -> Logs(kinds)
      [] e = "errorlog" ->
            IF "webroot" \notin Registered THEN {}
            ELSE kinds \cap {"access_logs", "webroot"}
      [] e \in {"webshell", "cms", "yara"} -> {"webroot"}
      [] e = "sqldb" -> {"sql_dump"}
      [] e = "log_events" -> kinds \cap {"logs", "access_logs", "webroot"}
      [] OTHER -> {}

Required(k, kinds) == {e \in ToSet(Tasks(kinds)) : k \in FeedsKinds(e, kinds)}

\* Mutant: the log events are built as soon as the index is.
DependsOnIndex(e) ==
    CASE e \in {"sigma", "log_events"} -> {"index_logs"}
      [] e = "content_index" -> Engines \ {"content_index"}
      [] OTHER -> {}

\* The engines whose done event an engine waits for.
DependsOn(e) ==
    CASE e = "sigma" -> {"index_logs"}
      [] e = "log_events" -> Engines \ {"log_events", "content_index"}
      [] e = "content_index" -> Engines \ {"content_index"}
      [] OTHER -> {}

Siblings(j) == {d \in Job : run[d] = run[j] /\ run[j] # 0}
Dependencies(j) == {d \in Siblings(j) : engine[d] \in DependsOn(engine[j])}

-----------------------------------------------------------------------------
(* Receipts.                                                               *)

States == {"running", "failed", "cancelled", "partial", "complete"}
NoAttempt == [run |-> 0, engines |-> [e \in {} |-> "running"]]

\* The first of these states that some engine is in, else "complete".
Status(engines) ==
    LET states == Range(engines) IN
    CASE "running" \in states -> "running"
      [] "failed" \in states -> "failed"
      [] "cancelled" \in states -> "cancelled"
      [] "partial" \in states -> "partial"
      [] OTHER -> "complete"

\* AnalysisReceipts._record: what this run's wrappers have reported so far.
RecordedBy(r, kinds, outcomes) ==
    [k \in EvidenceKinds |->
        IF Required(k, kinds) = {} THEN attempt[k]
        ELSE [run |-> r, engines |-> [e \in Required(k, kinds) |-> outcomes[e]]]]

\* refresh_receipts: what the job rows say.
JobState(j, state) == IF state[j] = "done" THEN result[j]
                      ELSE IF state[j] \in Pending THEN "running" ELSE state[j]

Refreshed(a, state) ==
    [a EXCEPT !.engines = [e \in DOMAIN a.engines |->
        LET jobs == {j \in Job : state[j] # "none" /\ run[j] = a.run /\ engine[j] = e}
        IN  IF jobs = {} THEN a.engines[e]
            ELSE JobState(CHOOSE j \in jobs : \A i \in jobs : i[2] <= j[2], state)]]

RefreshReceipts(state) ==
    LET new == [k \in EvidenceKinds |-> IF attempt[k].run = 0 THEN attempt[k]
                                        ELSE Refreshed(attempt[k], state)]
    IN  /\ attempt' = new
        /\ scanned' = [k \in EvidenceKinds |->
              IF scanned[k] = 0 /\ new[k].run # 0 /\ Status(new[k].engines) = "complete"
              THEN new[k].run ELSE scanned[k]]

AInit ==
    /\ Init
    /\ engine = [j \in Job |-> None] /\ run = [j \in Job |-> 0]
    /\ result = [j \in Job |-> "none"]
    /\ stage = [w \in Workers |-> "off"] /\ done = {}
    /\ chosen = [r \in Runs |-> {}] /\ runs = 0 /\ next = 0
    /\ outcome = [e \in Engines |-> "running"] /\ finished = {}
    /\ attempt = [k \in EvidenceKinds |-> NoAttempt]
    /\ scanned = [k \in EvidenceKinds |-> 0]

-----------------------------------------------------------------------------
(* Submission, under case_operation.                                       *)

\* mode "all" takes every source, mode "new" those never scanned, and the
\* reindex request the logs; the plan is recorded before any job exists.
StartRun(cl) ==
    /\ client[cl].pc = "insert" /\ next = 0 /\ runs < MaxRuns
    /\ \E kinds \in {Registered, {k \in Registered : scanned[k] = 0}, Logs(Registered)} :
        /\ Tasks(kinds) # <<>>
        /\ runs' = runs + 1 /\ next' = 1
        /\ chosen' = [chosen EXCEPT ![runs + 1] = kinds]
        /\ outcome' = [e \in Engines |-> "running"] /\ finished' = {}
        /\ attempt' = RecordedBy(runs + 1, kinds, outcome')
    /\ UNCHANGED <<vars, engine, run, result, stage, done, scanned>>

CurrentTasks == Tasks(chosen[runs])

SubmitEngine(cl) ==
    /\ next > 0 /\ InsertRow(cl)
    /\ LET j == client'[cl].job IN
        /\ engine' = [engine EXCEPT ![j] = CurrentTasks[next]]
        /\ run' = [run EXCEPT ![j] = runs]
    /\ UNCHANGED <<result, stage, done, chosen, runs, next, receipts, evidence>>

\* All jobs of the plan are submitted before the lock is released.
EnqueueEngine(cl) ==
    /\ Enqueue(cl)
    /\ next' = IF next = Len(CurrentTasks) THEN 0 ELSE next + 1
    /\ lock' = IF next' = 0 THEN None ELSE lock
    /\ UNCHANGED <<engine, run, result, stage, done, chosen, runs, receipts, evidence>>

\* A submission that fails leaves the jobs before it queued.
SubmitFails(cl) ==
    /\ RequestFails(cl) \/ OutOfIds(cl)
    /\ next' = 0
    /\ UNCHANGED <<engine, run, result, stage, done, chosen, runs, receipts, evidence>>

\* Nothing is left to analyze (or the bound on runs is reached).
RejectRun(cl) ==
    /\ client[cl].pc = "insert" /\ next = 0 /\ Release(cl)
    /\ UNCHANGED <<db, registry, worker, mode, errors, crashes, avars>>

RecoverAndRefresh(cl) ==
    /\ RecoverInterrupted(cl)
    /\ IF Stale(cl) # {} THEN RefreshReceipts(rows') ELSE UNCHANGED evidence
    /\ UNCHANGED <<plan, stage, done, receipts>>

-----------------------------------------------------------------------------
(* A pool thread inside `receipts.wrap(engine, fn)`.                       *)

JobOf(w) == worker[w].job
Record(outcomes) == attempt' = RecordedBy(runs, chosen[runs], outcomes)

Started(w) == [stage EXCEPT ![w] = IF worker'[w].pc = "fn" THEN "wait" ELSE "off"]

BeginEngine(w) ==
    /\ Begin(w) /\ stage' = Started(w)
    /\ UNCHANGED <<plan, done, receipts, evidence>>

\* Mutant: the dependents of a job cancelled in the queue are not released.
CancelEngineSilently(w) ==
    /\ BeginCancelled(w)
    /\ outcome' = [outcome EXCEPT ![engine[JobOf(w)]] = "cancelled"]
    /\ RefreshReceipts(rows')
    /\ UNCHANGED <<plan, stage, done, finished>>

\* on_cancel: cancel_engine reports the engine and releases its dependents,
\* then the terminal row is written.
CancelEngine(w) ==
    LET e == engine[JobOf(w)] IN
    /\ BeginCancelled(w)
    /\ outcome' = [outcome EXCEPT ![e] = "cancelled"]
    /\ done' = done \cup {JobOf(w)}
    /\ RefreshReceipts(rows')
    /\ UNCHANGED <<plan, stage, finished>>

\* The wait of a dependent: every event is set, or the job is cancelled.
WaitOver(w) ==
    /\ stage[w] = "wait" /\ Dependencies(JobOf(w)) \subseteq done
    /\ stage' = [stage EXCEPT ![w] = "work"]
    /\ UNCHANGED <<vars, plan, done, receipts, evidence>>

Returns(w, res) ==
    /\ result' = [result EXCEPT ![JobOf(w)] = res]
    /\ done' = done \cup {JobOf(w)}
    /\ stage' = [stage EXCEPT ![w] = "record"]
    /\ UNCHANGED <<vars, engine, run, chosen, runs, next, receipts, evidence>>

WaitCancelled(w) ==
    /\ stage[w] = "wait" /\ JobOf(w) \in cancelled
    /\ ~(Dependencies(JobOf(w)) \subseteq done)
    /\ Returns(w, "partial")

\* sigma reads only an index whose build has completed.
IndexComplete(j) ==
    \A d \in Dependencies(j) : engine[d] = "index_logs" => result[d] = "complete"
EngineWorks(w) ==
    /\ stage[w] = "work"
    /\ \E res \in {"complete", "partial"} :
        /\ engine[JobOf(w)] = "sigma" /\ res = "complete" => IndexComplete(JobOf(w))
        /\ Returns(w, res)

\* The `finally` of the wrapper sets the event, then the exception goes on.
EngineFails(w) ==
    /\ stage[w] = "work" /\ EngineRaises(w)
    /\ outcome' = [outcome EXCEPT ![engine[JobOf(w)]] = "failed"]
    /\ Record(outcome')
    /\ done' = done \cup {JobOf(w)}
    /\ stage' = [stage EXCEPT ![w] = "off"]
    /\ UNCHANGED <<plan, finished, scanned>>

\* Mutant: one engine that has succeeded is enough.
CompleteByOne(ready) ==
    {k \in Registered : \E j \in ready : engine[j] \in Required(k, chosen[runs])
                                          /\ j \notin cancelled}

\* The join: the last engine to succeed marks the evidence as scanned.
Complete(ready) ==
    {k \in Registered : /\ Required(k, chosen[runs]) # {}
                        /\ Required(k, chosen[runs]) \subseteq {engine[j] : j \in ready}
                        /\ \A j \in ready : engine[j] \in Required(k, chosen[runs])
                                            => j \notin cancelled}

Report(w, state) ==
    /\ outcome' = [outcome EXCEPT ![engine[JobOf(w)]] = state]
    /\ finished' = IF state = "complete" THEN finished \cup {JobOf(w)} ELSE finished

ReportedState(w) == IF JobOf(w) \in cancelled THEN "cancelled" ELSE result[JobOf(w)]

Marked(w) ==
    LET kinds == IF ReportedState(w) = "complete" THEN Complete(finished') ELSE {}
    IN  [k \in EvidenceKinds |-> IF k \in kinds THEN runs ELSE scanned[k]]

WriteReceipt(w) ==
    /\ stage[w] = "record"
    /\ Report(w, ReportedState(w))
    /\ Record(outcome') /\ scanned' = Marked(w)
    /\ stage' = [stage EXCEPT ![w] = "return"]
    /\ UNCHANGED <<vars, plan, done>>

\* A receipt is not written, before or after the mark; the exception fails the
\* job, which the wrapper has already counted.
ReceiptRaises(w) ==
    /\ stage[w] = "record" /\ errors < MaxErrors /\ errors' = errors + 1
    /\ Report(w, ReportedState(w))
    /\ UNCHANGED attempt /\ scanned' \in {scanned, Marked(w)}
    /\ worker' = [worker EXCEPT ![w].pc = "fail"]
    /\ stage' = [stage EXCEPT ![w] = "off"]
    /\ UNCHANGED <<db, registry, client, lock, mode, crashes, plan, done>>

EngineDone(w) ==
    /\ stage[w] = "return" /\ EngineReturns(w)
    /\ stage' = [stage EXCEPT ![w] = "off"]
    /\ UNCHANGED <<plan, done, receipts, evidence>>

\* Mutant: a failure is written without its receipts.
PersistFailureAlone(w) ==
    /\ (Persist(w) /\ RefreshReceipts(rows')) \/ (PersistFailure(w) /\ UNCHANGED evidence)
    /\ UNCHANGED <<plan, stage, done, receipts>>

\* Every terminal write refreshes the receipts in the same transaction.
PersistAndRefresh(w) ==
    /\ Persist(w) \/ PersistFailure(w)
    /\ RefreshReceipts(rows')
    /\ UNCHANGED <<plan, stage, done, receipts>>

\* A state write that raises; on_cancel may have come first.
StateWriteFails(w) ==
    /\ StateWriteRaises(w)
    /\ \/ UNCHANGED <<outcome, done>>
       \/ /\ worker[w].pc = "begin" /\ JobOf(w) \in cancelled
          /\ outcome' = [outcome EXCEPT ![engine[JobOf(w)]] = "cancelled"]
          /\ done' = done \cup {JobOf(w)}
    /\ UNCHANGED <<plan, stage, finished, evidence>>

Untouched(w) ==
    /\ Take(w) \/ FailureLost(w) \/ Pop(w)
    /\ UNCHANGED avars

EngineStep(w) ==
    \/ BeginEngine(w) \/ CancelEngine(w) \/ WaitOver(w) \/ WaitCancelled(w)
    \/ EngineWorks(w) \/ EngineFails(w) \/ WriteReceipt(w) \/ ReceiptRaises(w)
    \/ EngineDone(w) \/ PersistAndRefresh(w) \/ StateWriteFails(w) \/ Untouched(w)

SubmitStep(cl) ==
    \/ StartRun(cl) \/ SubmitEngine(cl) \/ EnqueueEngine(cl) \/ SubmitFails(cl)
    \/ RejectRun(cl) \/ RecoverAndRefresh(cl)
    \/ /\ \/ \E op \in {"analyze", "list"} \cap Ops, c \in Cases : Request(cl, op, c)
          \/ Acquire(cl) \/ Refuse(cl) \/ RecoverSnapshot(cl) \/ Register(cl)
          \/ (client[cl].op = "list" /\ Body(cl))
       /\ UNCHANGED avars

ACrash ==
    /\ Crash
    /\ stage' = [w \in Workers |-> "off"] /\ done' = {} /\ next' = 0
    /\ outcome' = [e \in Engines |-> "running"] /\ finished' = {}
    /\ UNCHANGED <<engine, run, result, chosen, runs, evidence>>

\* A shutdown is not repeated here: to an analysis it is a cancellation of
\* each of its jobs.
ANext ==
    \/ \E cl \in Clients : SubmitStep(cl)
    \/ \E w \in Workers : EngineStep(w)
    \/ \E j \in Job : CancelJob(j) /\ UNCHANGED avars
    \/ ACrash

avs == <<vars, avars>>
ASpec == AInit /\ [][ANext]_avs
AFairness ==
    /\ \A w \in Workers : WF_avs(EngineStep(w))
    /\ \A cl \in Clients : WF_avs(lock = cl /\ SubmitStep(cl))
AFairSpec == ASpec /\ AFairness

-----------------------------------------------------------------------------
(* Properties.                                                             *)

\* Evidence counts as scanned only by a run in which every engine its receipt
\* requires has returned complete results.
ScannedMeansComplete ==
    \A k \in EvidenceKinds : scanned[k] # 0 =>
        \A e \in Required(k, chosen[scanned[k]]) :
            \E j \in Job : run[j] = scanned[k] /\ engine[j] = e /\ result[j] = "complete"

\* "Failed, cancelled or partial engines never contribute a success"
\* (server/analysis.py:193): no job of the run that marked the evidence ends
\* as failed or cancelled.
FailuresNeverContribute ==
    \A j \in Job : \A k \in EvidenceKinds :
        /\ run[j] # 0 /\ scanned[k] = run[j]
        /\ engine[j] \in Required(k, chosen[run[j]])
        => rows[j] \notin {"failed", "cancelled"}

\* An engine that correlates the results of its run starts to read them only
\* when no engine submitted before it is still at work.
CorrelatesSettledResults ==
    \A v, w \in Workers :
        /\ stage[v] = "work" /\ engine[JobOf(v)] \in {"log_events", "content_index"}
        /\ stage[w] \in {"wait", "work"}
        => run[JobOf(w)] # run[JobOf(v)] \/ JobOf(w)[2] >= JobOf(v)[2]

\* What an engine waits for inside its pool thread is at work in another thread:
\* an earlier engine of its run that has not ended, so that no circle of threads
\* waits for itself or for the queue behind it ("Every dependency is queued before
\* this worker, and cancellation releases the wait", server/app.py:1143).  A row
\* that cannot be set to running breaks this: the wrapper of that engine never
\* runs, nothing sets its event, and its dependents wait until they are cancelled.
WaitsAreAnswered ==
    errors = 0 =>
        \A w \in Workers : stage[w] = "wait" =>
            \A d \in Dependencies(JobOf(w)) \ done :
                \E v \in Workers : /\ JobOf(v) = d /\ d[2] < JobOf(w)[2]
                                   /\ worker[v].pc \in {"begin", "fn"}

\* A receipt says "running" only while a job of its run is pending, the run is
\* still being submitted, or its submission was cut off before the last job.
Submitting == \E cl \in Clients : client[cl].op = "analyze" /\ lock = cl
RunIsSubmitted(r) ==
    \A e \in ToSet(Tasks(chosen[r])) : \E j \in Job : run[j] = r /\ engine[j] = e
ReceiptsSettle ==
    \A k \in EvidenceKinds :
        /\ attempt[k].run # 0 /\ RunIsSubmitted(attempt[k].run) /\ ~Submitting
        /\ \A j \in Job : run[j] = attempt[k].run => rows[j] \notin Pending
        => Status(attempt[k].engines) # "running"

=============================================================================
