-------------------------------- MODULE Jobs --------------------------------
(***************************************************************************)
(* The job manager of server/jobs.py and the request handlers around it    *)
(* (server/app.py): background jobs run in a FIFO thread pool shared by    *)
(* all open cases.  A job exists twice, as a row of the case database that *)
(* survives a restart, and as an entry of the in-memory registry `live`.   *)
(* The handlers read the one and the other at different times; this module *)
(* models every such step of the clients and of the workers, the failure   *)
(* of a database write, a crash of the process and an orderly shutdown.    *)
(*                                                                         *)
(* What an engine computes is left out: an engine returns or raises.       *)
(***************************************************************************)
EXTENDS Naturals, Sequences, FiniteSets

CONSTANTS
    Cases,      \* open cases; each has a database of its own
    MaxId,      \* bound: job rows per case
    Workers,    \* threads of the pool (_WORKERS = 2 in the code)
    Clients,    \* request threads of the HTTP server
    Ops,        \* the requests clients make, a subset of AllOps
    MaxErrors,  \* bound: database writes that fail ("database is locked")
    MaxCrashes, \* bound: crashes of the process
    None        \* no job, no client

Ids == 1..MaxId
Job == Cases \X Ids
CaseOf(j) == j[1]
JobsOf(c) == {j \in Job : CaseOf(j) = c}

AllOps == {"submit", "submit_after", "analyze", "hunt", "apply", "list",
           "cancel", "archive", "delete"}

\* The requests that run inside case_operation, and those that submit jobs.
CaseOps == {"analyze", "hunt", "apply", "archive"}
SubmitOps == {"submit", "submit_after", "analyze", "hunt"}

Terminal == {"done", "failed", "cancelled"}
Pending == {"queued", "running"}
Kinds == {"engine", "after", "hunt_batch"}

ASSUME NoneAssumption == None \notin Job /\ None \notin Clients
ASSUME OpsAssumption == Ops \subseteq AllOps
ASSUME BoundsAssumption == MaxId \in Nat /\ MaxErrors \in Nat /\ MaxCrashes \in Nat

VARIABLES
    rows,       \* jobs.state in the case database, "none" before the INSERT
    kind,       \* how the job runs (set by the INSERT)
    waits,      \* jobs a submit_after_current job waits for
    live,       \* keys of JobManager.live
    cancelled,  \* jobs whose cancel_event is set
    queue,      \* work queue of the ThreadPoolExecutor
    worker,     \* what each pool thread is doing
    client,     \* what each request thread is doing
    lock,       \* holder of _schedule_lock
    case,       \* "open", "archived" or "deleted"
    mode,       \* the server: "up", "closing" or "down"
    errors,     \* failed writes so far
    crashes     \* crashes so far

db == <<rows, kind, waits, case>>
registry == <<live, cancelled, queue>>
process == <<lock, mode, errors, crashes>>
vars == <<rows, kind, waits, live, cancelled, queue, worker, client, lock,
          case, mode, errors, crashes>>

-----------------------------------------------------------------------------
(* Shapes of the local states.                                             *)

WorkerPc == {"idle", "begin", "wait", "fn", "persist", "fail", "pop"}
WorkerState == [pc : WorkerPc, job : Job \cup {None}, out : Terminal]
IdleWorker == [pc |-> "idle", job |-> None, out |-> "done"]

ClientPc == {"idle", "acquire", "recover", "interrupt", "insert", "register",
             "enqueue", "body", "drain", "drained", "delete"}
ClientState == [pc : ClientPc, op : Ops \cup {None}, case : Cases \cup {None},
                job : Job \cup {None}, ids : SUBSET Job]
IdleClient == [pc |-> "idle", op |-> None, case |-> None, job |-> None, ids |-> {}]

\* The identity of a live job: the registry has to carry the case as well.
Key(j) == <<j[1], j[2]>>

IsLive(j) == Key(j) \in live
LiveOf(c) == {j \in JobsOf(c) : IsLive(j)}
Idle(cl) == client[cl].pc = "idle"

\* A job that some thread still has to run or to finish.
InQueue(j) == \E n \in 1..Len(queue) : queue[n] = j
Held(j) == \E w \in Workers : worker[w].job = j
BeingSubmitted(j) == \E cl \in Clients : client[cl].job = j
InFlight(j) == InQueue(j) \/ Held(j) \/ BeingSubmitted(j)

Init ==
    /\ rows = [j \in Job |-> "none"]
    /\ kind = [j \in Job |-> "engine"]
    /\ waits = [j \in Job |-> {}]
    /\ live = {} /\ cancelled = {} /\ queue = <<>>
    /\ worker = [w \in Workers |-> IdleWorker]
    /\ client = [cl \in Clients |-> IdleClient]
    /\ lock = None
    /\ case = [c \in Cases |-> "open"]
    /\ mode = "up" /\ errors = 0 /\ crashes = 0

-----------------------------------------------------------------------------
(* Request threads.  Everything between Acquire and Release runs under     *)
(* _schedule_lock; the registry itself is only locked for one access.      *)

Release(cl) ==
    /\ client' = [client EXCEPT ![cl] = IdleClient]
    /\ lock' = None

\* case_dir_or_404 finds the case; the handler has not taken a lock yet.
Request(cl, op, c) ==
    /\ client[cl].pc = "idle" /\ mode = "up" /\ case[c] = "open"
    /\ client' = [client EXCEPT
        ![cl] = [pc |-> IF op \in {"archive", "delete"} THEN "drain" ELSE "acquire",
                 op |-> op, case |-> c, job |-> None, ids |-> {}]]
    /\ UNCHANGED <<db, registry, worker, process>>

\* Mutant: an archive relies on the jobs having been drained before.
BusyUnlessDrained(op, c) ==
    /\ op # "archive"
    /\ \E j \in LiveOf(c) : ~(op = "apply" /\ kind[j] = "hunt_batch")

\* Mutant: a hunt batch is no obstacle to any case operation.
BusyWithoutHunts(op, c) == \E j \in LiveOf(c) : kind[j] # "hunt_batch"

\* A case operation is refused while any job of the case is live; applying
\* hunt evidence tolerates the read-only jobs of a hunt batch.
Busy(op, c) ==
    \E j \in LiveOf(c) : ~(op = "apply" /\ kind[j] = "hunt_batch")

\* Mutant: the registry is read without _schedule_lock.
WalksIn(cl) == client[cl].pc = "acquire"

MayEnter(cl) == client[cl].pc = "acquire" /\ lock = None

Acquire(cl) ==
    LET op == client[cl].op IN
    /\ MayEnter(cl)
    /\ op \in CaseOps => ~Busy(op, client[cl].case)
    /\ lock' = cl
    /\ client' = [client EXCEPT
        ![cl].pc = IF op \in CaseOps \cup {"list"} THEN "recover" ELSE "insert"]
    /\ UNCHANGED <<db, registry, worker, mode, errors, crashes>>

Refuse(cl) ==
    /\ MayEnter(cl)
    /\ client[cl].op \in CaseOps /\ Busy(client[cl].op, client[cl].case)
    /\ client' = [client EXCEPT ![cl] = IdleClient]
    /\ UNCHANGED <<db, registry, worker, process>>

\* recover_interrupted, first half: the jobs the registry knows.
RecoverSnapshot(cl) ==
    /\ client[cl].pc = "recover"
    /\ client' = [client EXCEPT ![cl].pc = "interrupt",
                                ![cl].ids = LiveOf(client[cl].case)]
    /\ UNCHANGED <<db, registry, worker, process>>

\* Mutant: rows that have ended are marked as well.
StaleOrEnded(cl) ==
    {j \in JobsOf(client[cl].case) : rows[j] # "none"} \ client[cl].ids

\* Second half: every other pending row belongs to a process that is gone.
Stale(cl) == {j \in JobsOf(client[cl].case) : rows[j] \in Pending} \ client[cl].ids

AfterRecovery(op) ==
    IF op \in {"analyze", "hunt"} THEN "insert" ELSE "body"

RecoverInterrupted(cl) ==
    /\ client[cl].pc = "interrupt" /\ case[client[cl].case] = "open"
    /\ rows' = [j \in Job |-> IF j \in Stale(cl) THEN "failed" ELSE rows[j]]
    /\ client' = [client EXCEPT ![cl].pc = AfterRecovery(client[cl].op),
                                ![cl].ids = {}]
    /\ UNCHANGED <<kind, waits, case, registry, worker, process>>

\* The end of a request that submits nothing: `list` and `apply` only leave
\* the lock, `archive` publishes the zip and takes the case away, unless the
\* packing fails and the case stays open.
Body(cl) ==
    /\ client[cl].pc = "body"
    /\ Release(cl)
    /\ \/ UNCHANGED case
       \/ /\ client[cl].op = "archive" /\ case[client[cl].case] = "open"
          /\ case' = [case EXCEPT ![client[cl].case] = "archived"]
    /\ UNCHANGED <<rows, kind, waits, registry, worker, mode, errors, crashes>>

\* _submit: the row first, then the registry, then the pool.
KindOf(op) == CASE op = "hunt" -> "hunt_batch"
                [] op = "submit_after" -> "after"
                [] OTHER -> "engine"

IsNextId(j) ==
    /\ rows[j] = "none"
    /\ \A i \in 1..(j[2] - 1) : rows[<<CaseOf(j), i>>] # "none"

InsertRow(cl) ==
    LET c == client[cl].case IN
    /\ client[cl].pc = "insert" /\ case[c] = "open"
    /\ \E j \in JobsOf(c) :
        /\ IsNextId(j)
        /\ rows' = [rows EXCEPT ![j] = "queued"]
        /\ kind' = [kind EXCEPT ![j] = KindOf(client[cl].op)]
        /\ waits' = [waits EXCEPT
            ![j] = IF client[cl].op = "submit_after" THEN LiveOf(c) ELSE {}]
        /\ client' = [client EXCEPT ![cl].pc = "register", ![cl].job = j]
    /\ UNCHANGED <<case, registry, worker, process>>

Register(cl) ==
    /\ client[cl].pc = "register"
    /\ live' = live \cup {Key(client[cl].job)}
    /\ client' = [client EXCEPT ![cl].pc = "enqueue"]
    /\ UNCHANGED <<db, cancelled, queue, worker, process>>

\* Mutant: the newest job runs first.
PutFirst(j) == <<j>> \o queue

\* The pool is first in, first out.
Put(j) == Append(queue, j)

\* An analysis submits one job per engine under the same lock.
Enqueue(cl) ==
    LET j == client[cl].job IN
    /\ client[cl].pc = "enqueue"
    /\ queue' = Put(j)
    /\ \/ Release(cl)
       \/ /\ client[cl].op = "analyze"
          /\ client' = [client EXCEPT ![cl].pc = "insert", ![cl].job = None,
                                      ![cl].ids = @ \cup {j}]
          /\ UNCHANGED lock
    /\ UNCHANGED <<db, live, cancelled, worker, mode, errors, crashes>>

\* The database is locked or gone: the handler raises and rolls back.
RequestFails(cl) ==
    /\ client[cl].pc \in {"interrupt", "insert"}
    /\ \/ case[client[cl].case] # "open" /\ UNCHANGED errors
       \/ errors < MaxErrors /\ errors' = errors + 1
    /\ Release(cl)
    /\ UNCHANGED <<db, registry, worker, mode, crashes>>

\* The bound on ids is reached (only the model can run out of rows).
OutOfIds(cl) ==
    /\ client[cl].pc = "insert"
    /\ \A j \in JobsOf(client[cl].case) : rows[j] # "none"
    /\ Release(cl)
    /\ UNCHANGED <<db, registry, worker, mode, errors, crashes>>

\* The cancel endpoint: no lock but the registry's.
CancelJob(j) ==
    /\ "cancel" \in Ops /\ mode = "up" /\ case[CaseOf(j)] = "open" /\ IsLive(j)
    /\ cancelled' = cancelled \cup {j}
    /\ UNCHANGED <<db, live, queue, worker, client, process>>

\* _drain_jobs: read the rows, signal those in the registry, wait for them.
DrainSignal(cl) ==
    LET ids == {j \in JobsOf(client[cl].case) : rows[j] \in Pending} IN
    /\ client[cl].pc = "drain"
    /\ cancelled' = cancelled \cup {j \in ids : IsLive(j)}
    /\ client' = [client EXCEPT ![cl].pc = "drained", ![cl].ids = ids]
    /\ UNCHANGED <<db, live, queue, worker, process>>

Drained(cl) == \A j \in client[cl].ids : ~IsLive(j)

DrainDone(cl) ==
    /\ client[cl].pc = "drained" /\ Drained(cl)
    /\ client' = [client EXCEPT
        ![cl].pc = IF client[cl].op = "delete" THEN "delete" ELSE "acquire",
        ![cl].ids = {}]
    /\ UNCHANGED <<db, registry, worker, process>>

DrainTimeout(cl) ==
    /\ client[cl].pc = "drained" /\ ~Drained(cl)
    /\ client' = [client EXCEPT ![cl] = IdleClient]
    /\ UNCHANGED <<db, registry, worker, process>>

\* workspace.delete_case: no lock and no second look at the registry; of a case
\* that was archived meanwhile only the zip is left, and it stays.
DeleteCase(cl) ==
    /\ client[cl].pc = "delete"
    /\ case' = [case EXCEPT ![client[cl].case] = IF @ = "open" THEN "deleted" ELSE @]
    /\ client' = [client EXCEPT ![cl] = IdleClient]
    /\ UNCHANGED <<rows, kind, waits, registry, worker, process>>

\* import_archive brings a closed case back with the rows it was packed with.
ImportCase(c) ==
    /\ mode = "up" /\ "archive" \in Ops /\ case[c] = "archived"
    /\ case' = [case EXCEPT ![c] = "open"]
    /\ UNCHANGED <<rows, kind, waits, registry, worker, client, process>>

-----------------------------------------------------------------------------
(* Pool threads: JobManager._run.                                          *)

WriteFails(c) ==
    \/ case[c] # "open" /\ UNCHANGED errors
    \/ errors < MaxErrors /\ errors' = errors + 1

\* _set_state writes the row unless the write raises.
SetState(j, state) ==
    /\ case[CaseOf(j)] = "open"
    /\ rows' = [rows EXCEPT ![j] = state]

Take(w) ==
    /\ worker[w].pc = "idle" /\ queue # <<>>
    /\ worker' = [worker EXCEPT ![w] = [pc |-> "begin", job |-> Head(queue),
                                        out |-> "done"]]
    /\ queue' = Tail(queue)
    /\ UNCHANGED <<db, live, cancelled, client, process>>

\* A job cancelled in the queue never runs.
BeginCancelled(w) ==
    LET j == worker[w].job IN
    /\ worker[w].pc = "begin" /\ j \in cancelled
    /\ SetState(j, "cancelled")
    /\ worker' = [worker EXCEPT ![w].pc = "pop"]
    /\ UNCHANGED <<kind, waits, case, registry, client, process>>

Begin(w) ==
    LET j == worker[w].job IN
    /\ worker[w].pc = "begin" /\ j \notin cancelled
    /\ SetState(j, "running")
    /\ worker' = [worker EXCEPT ![w].pc = IF kind[j] = "after" THEN "wait" ELSE "fn"]
    /\ UNCHANGED <<kind, waits, case, registry, client, process>>

\* submit_after_current: poll the registry until the earlier jobs have left.
WaitDone(w) ==
    LET j == worker[w].job IN
    /\ worker[w].pc = "wait"
    /\ j \in cancelled \/ \A d \in waits[j] : ~IsLive(d)
    /\ worker' = [worker EXCEPT ![w].pc = IF j \in cancelled THEN "persist" ELSE "fn",
                                ![w].out = IF j \in cancelled THEN "cancelled" ELSE "done"]
    /\ UNCHANGED <<db, registry, client, process>>

\* ctx.cancelled() is read once more when the engine returns; a cancellation
\* that comes after that changes nothing.
EngineReturns(w) ==
    /\ worker[w].pc = "fn"
    /\ worker' = [worker EXCEPT
        ![w].pc = "persist",
        ![w].out = IF worker[w].job \in cancelled THEN "cancelled" ELSE "done"]
    /\ UNCHANGED <<db, registry, client, process>>

EngineRaises(w) ==
    /\ worker[w].pc = "fn"
    /\ worker' = [worker EXCEPT ![w].pc = "fail"]
    /\ UNCHANGED <<db, registry, client, process>>

Persist(w) ==
    /\ worker[w].pc = "persist"
    /\ SetState(worker[w].job, worker[w].out)
    /\ worker' = [worker EXCEPT ![w].pc = "pop"]
    /\ UNCHANGED <<kind, waits, case, registry, client, process>>

\* Any exception, a failed state write included, lands in the except branch.
StateWriteRaises(w) ==
    /\ worker[w].pc \in {"begin", "persist"}
    /\ WriteFails(CaseOf(worker[w].job))
    /\ worker' = [worker EXCEPT ![w].pc = "fail"]
    /\ UNCHANGED <<db, registry, client, lock, mode, crashes>>

PersistFailure(w) ==
    /\ worker[w].pc = "fail"
    /\ SetState(worker[w].job, "failed")
    /\ worker' = [worker EXCEPT ![w].pc = "pop"]
    /\ UNCHANGED <<kind, waits, case, registry, client, process>>

\* Mutant: the exception leaves the thread, the registry keeps the job.
FailureEscapes(w) ==
    /\ worker[w].pc = "fail"
    /\ WriteFails(CaseOf(worker[w].job))
    /\ worker' = [worker EXCEPT ![w] = IdleWorker]
    /\ UNCHANGED <<db, registry, client, lock, mode, crashes>>

\* Even the failure may not be written: the row keeps its pending state.
FailureLost(w) ==
    /\ worker[w].pc = "fail"
    /\ WriteFails(CaseOf(worker[w].job))
    /\ worker' = [worker EXCEPT ![w].pc = "pop"]
    /\ UNCHANGED <<db, registry, client, lock, mode, crashes>>

\* Mutant: the registry forgets a job by the id of its row alone.
PopById(w) ==
    /\ worker[w].pc = "pop"
    /\ live' = {k \in live : k[2] # worker[w].job[2]}
    /\ worker' = [worker EXCEPT ![w] = IdleWorker]
    /\ UNCHANGED <<db, cancelled, queue, client, process>>

Pop(w) ==
    /\ worker[w].pc = "pop"
    /\ live' = live \ {Key(worker[w].job)}
    /\ worker' = [worker EXCEPT ![w] = IdleWorker]
    /\ UNCHANGED <<db, cancelled, queue, client, process>>

-----------------------------------------------------------------------------
(* The process.                                                            *)

\* The process dies and is started again: only the databases survive.
Crash ==
    /\ crashes < MaxCrashes /\ crashes' = crashes + 1
    /\ live' = {} /\ cancelled' = {} /\ queue' = <<>>
    /\ worker' = [w \in Workers |-> IdleWorker]
    /\ client' = [cl \in Clients |-> IdleClient]
    /\ lock' = None /\ mode' = "up"
    /\ UNCHANGED <<db, errors>>

\* cancel_all_and_wait, once the server has stopped accepting requests.
CancelAll ==
    /\ mode = "up" /\ \A cl \in Clients : client[cl].pc = "idle"
    /\ mode' = "closing"
    /\ cancelled' = cancelled \cup {j \in Job : IsLive(j)}
    /\ UNCHANGED <<db, live, queue, worker, client, lock, errors, crashes>>

Stopped ==
    /\ mode = "closing" /\ live = {}
    /\ mode' = "down"
    /\ UNCHANGED <<db, registry, worker, client, lock, errors, crashes>>

Restart ==
    /\ mode = "down" /\ mode' = "up"
    /\ UNCHANGED <<db, registry, worker, client, lock, errors, crashes>>

ClientStep(cl) ==
    \/ \E op \in Ops \ {"cancel"}, c \in Cases : Request(cl, op, c)
    \/ Acquire(cl) \/ Refuse(cl) \/ RecoverSnapshot(cl) \/ RecoverInterrupted(cl)
    \/ Body(cl) \/ InsertRow(cl) \/ Register(cl) \/ Enqueue(cl)
    \/ RequestFails(cl) \/ OutOfIds(cl)
    \/ DrainSignal(cl) \/ DrainDone(cl) \/ DrainTimeout(cl)
    \/ DeleteCase(cl)

WorkerStep(w) ==
    \/ Take(w) \/ BeginCancelled(w) \/ Begin(w) \/ WaitDone(w)
    \/ EngineReturns(w) \/ EngineRaises(w) \/ Persist(w)
    \/ StateWriteRaises(w) \/ PersistFailure(w) \/ FailureLost(w) \/ Pop(w)

Next ==
    \/ \E cl \in Clients : ClientStep(cl)
    \/ \E w \in Workers : WorkerStep(w)
    \/ \E j \in Job : CancelJob(j)
    \/ \E c \in Cases : ImportCase(c)
    \/ Crash \/ CancelAll \/ Stopped \/ Restart

Spec == Init /\ [][Next]_vars

\* An engine comes to an end, a thread that can run does, and a thread that
\* holds _schedule_lock lets go of it; nothing forces a request to be made.
LockHolderStep(cl) == lock = cl /\ ClientStep(cl)
Fairness ==
    /\ \A w \in Workers : WF_vars(WorkerStep(w))
    /\ \A cl \in Clients : WF_vars(LockHolderStep(cl))
    /\ WF_vars(Stopped)
FairSpec == Spec /\ Fairness

-----------------------------------------------------------------------------
(* Properties.                                                             *)

TypeOK ==
    /\ rows \in [Job -> {"none"} \cup Pending \cup Terminal]
    /\ kind \in [Job -> Kinds]
    /\ waits \in [Job -> SUBSET Job]
    /\ live \subseteq Job /\ cancelled \subseteq Job
    /\ queue \in Seq(Job)
    /\ worker \in [Workers -> WorkerState]
    /\ client \in [Clients -> ClientState]
    /\ lock \in Clients \cup {None}
    /\ case \in [Cases -> {"open", "archived", "deleted"}]
    /\ mode \in {"up", "closing", "down"}
    /\ errors \in 0..MaxErrors /\ crashes \in 0..MaxCrashes

\* A job that a worker holds or that waits in the pool is in the registry, so
\* that wait_for never reports "all quiet" while an engine may still write.
WorkIsRegistered == \A j \in Job : InQueue(j) \/ Held(j) => IsLive(j)

\* recover_interrupted marks a row as interrupted only when no thread of this
\* process will ever touch the job again: not one that is just being
\* submitted, nor one that is queued or running.
InterruptsOnlyDeadJobs ==
    [][\A cl \in Clients : RecoverInterrupted(cl) =>
        \A j \in Stale(cl) : ~InFlight(j)]_vars

\* A row that has reached a terminal state keeps it.
TerminalIsFinal ==
    [][\A j \in Job : rows[j] \in Terminal => rows'[j] = rows[j]]_vars

\* Inside a case operation no job of the case runs but those it submitted
\* itself, and for hunt evidence those of a hunt batch.
InCaseOperation(cl) ==
    /\ client[cl].op \in CaseOps
    /\ client[cl].pc \in {"recover", "interrupt", "body", "insert", "register", "enqueue"}
CaseOperationIsExclusive ==
    \A cl \in Clients : InCaseOperation(cl) =>
        \A j \in JobsOf(client[cl].case) :
            InQueue(j) \/ Held(j) =>
                \/ client[cl].op = "analyze" /\ j \in client[cl].ids
                \/ client[cl].op = "apply" /\ kind[j] = "hunt_batch"

\* The archive of a case holds no job that is still queued or running, and no
\* thread of the process still works on that case.
ArchiveIsSettled ==
    \A j \in Job : case[CaseOf(j)] = "archived" =>
        ~(InQueue(j) \/ Held(j)) /\ rows[j] \notin Pending

\* Both ways out of a case, archive and delete, refuse while a job of the case
\* still runs (the comment of _drain_jobs, server/app.py:377).
DeleteIsQuiet ==
    \A j \in Job : case[CaseOf(j)] = "deleted" => ~(InQueue(j) \/ Held(j))

\* Every job that entered the registry leaves it: no worker waits for ever on
\* a job behind it in the queue.
EveryJobLeaves == \A j \in Job : IsLive(j) ~> ~IsLive(j)

\* A shutdown that has begun comes to its end.
ShutdownEnds == mode = "closing" ~> mode # "closing"

=============================================================================
