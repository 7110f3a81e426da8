----------------------------- MODULE JobsProofs -----------------------------
(***************************************************************************)
(* Proofs about Jobs for any number of cases, rows, threads and clients.   *)
(*                                                                         *)
(* The argument: a job is at one place at a time (Placed), its place says  *)
(* what its row says (RowsFollow), and whoever may still run it keeps it   *)
(* in the registry (InRegistry).  The schedule lock has one holder         *)
(* (Locking), so between the look at the registry and the transaction of   *)
(* recover_interrupted no job of the case appears (Known), and a case      *)
(* operation that has found its case idle stays alone in it (Exclusive).   *)
(***************************************************************************)
EXTENDS Jobs, TLAPS

-----------------------------------------------------------------------------
(* The inductive invariant.                                                *)

\* Where a request thread holds _schedule_lock.
Locked == {"recover", "interrupt", "insert", "register", "enqueue", "body"}

Locking == \A cl \in Clients : client[cl].pc \in Locked <=> lock = cl

\* A request thread is where its request leads it.
OnItsWay(s) ==
    /\ s.pc # "idle" => s.case \in Cases
    /\ s.job # None <=> s.pc \in {"register", "enqueue"}
    /\ s.job # None => s.job \in JobsOf(s.case)
    /\ s.pc \in {"recover", "interrupt"} => s.op \in CaseOps \cup {"list"}
    /\ s.pc \in {"insert", "register", "enqueue"} => s.op \in SubmitOps
    /\ s.pc = "body" => s.op \in {"apply", "archive", "list"}
    /\ s.pc = "acquire" => s.op \in AllOps \ {"delete", "cancel"}
    /\ s.pc \in {"drain", "drained"} => s.op \in {"archive", "delete"}

Requests == \A cl \in Clients : OnItsWay(client[cl])

NoDup(q) == \A m, n \in 1..Len(q) : q[m] = q[n] => m = n

\* A job waits in the queue once, or one thread works on it, or one request
\* is about to submit it.
Placed ==
    /\ NoDup(queue)
    /\ \A w \in Workers : worker[w].job = None <=> worker[w].pc = "idle"
    /\ \A v, w \in Workers :
          worker[v].job # None /\ worker[v].job = worker[w].job => v = w
    /\ \A w \in Workers : worker[w].job # None => ~InQueue(worker[w].job)
    /\ \A cl \in Clients : client[cl].job # None =>
          ~InQueue(client[cl].job) /\ ~Held(client[cl].job)

\* What the row of a job may say while a thread is at a given step.
Fits(pc, row) ==
    /\ pc = "begin" => row = "queued"
    /\ pc \in {"wait", "fn", "persist"} => row = "running"
    /\ pc = "fail" => row \in Pending
    /\ pc = "pop" => row # "none"

RowsFollow ==
    /\ \A j \in Job : InQueue(j) => rows[j] = "queued"
    /\ \A w \in Workers : worker[w].job # None => Fits(worker[w].pc, rows[worker[w].job])
    /\ \A cl \in Clients : client[cl].job # None => rows[client[cl].job] = "queued"

InRegistry ==
    /\ \A j \in Job : InQueue(j) => j \in live
    /\ \A w \in Workers : worker[w].job # None => worker[w].job \in live
    /\ \A cl \in Clients : client[cl].pc = "enqueue" => client[cl].job \in live

Known ==
    \A cl \in Clients : client[cl].pc = "interrupt" =>
        /\ \A j \in JobsOf(client[cl].case) : InQueue(j) \/ Held(j) => j \in client[cl].ids
        /\ client[cl].op \in CaseOps \ {"apply"} => client[cl].ids = {}

\* The live jobs of a case during a case operation.
Tolerated(s, j) ==
    \/ s.op = "apply" /\ kind[j] = "hunt_batch"
    \/ s.op = "analyze" /\ j \in s.ids /\ s.pc \in {"insert", "register", "enqueue"}
    \/ s.pc = "enqueue" /\ j = s.job

Exclusive ==
    \A cl \in Clients : InCaseOperation(cl) =>
        \A j \in JobsOf(client[cl].case) : j \in live => Tolerated(client[cl], j)

\* Nothing of a case is under way or unfinished.
Settled(c) ==
    /\ \A j \in JobsOf(c) : j \notin live /\ rows[j] \notin Pending

Archived ==
    /\ \A cl \in Clients : client[cl].pc = "body" /\ client[cl].op = "archive" =>
          Settled(client[cl].case)
    /\ \A c \in Cases : case[c] = "archived" => Settled(c)

Inv == /\ TypeOK /\ Locking /\ Requests /\ Placed /\ RowsFollow
       /\ InRegistry /\ Known /\ Exclusive /\ Archived

-----------------------------------------------------------------------------
(* Jobs, the registry and the queue.                                       *)

LEMMA KeyIsJob == \A j \in Job : Key(j) = j /\ (IsLive(j) <=> j \in live)
<1>1. \A j \in Job : j = <<j[1], j[2]>>
  BY DEF Job
<1> QED BY <1>1 DEF Key, IsLive

LEMMA JobFacts ==
    /\ None \notin Job /\ None \notin Clients
    /\ \A c : \A j \in JobsOf(c) : j \in Job
    /\ \A j \in Job : j \in JobsOf(CaseOf(j)) /\ CaseOf(j) \in Cases
    /\ \A c, d : \A j \in JobsOf(c) : j \in JobsOf(d) => c = d
BY NoneAssumption DEF JobsOf, CaseOf, Job

\* The queue after a job has been put at its end.
LEMMA QueuePut ==
    ASSUME queue \in Seq(Job), NoDup(queue), NEW j \in Job, ~InQueue(j),
           queue' = Append(queue, j)
    PROVE  /\ queue' \in Seq(Job) /\ NoDup(queue')
           /\ \A k : InQueue(k)' <=> InQueue(k) \/ k = j
<1>1. /\ queue' \in Seq(Job) /\ Len(queue') = Len(queue) + 1 /\ Len(queue) \in Nat
      /\ queue'[Len(queue) + 1] = j
      /\ \A n \in 1..Len(queue) : queue'[n] = queue[n]
  OBVIOUS
<1>2. NoDup(queue')
  BY <1>1 DEF NoDup, InQueue
<1>3. \A k : InQueue(k)' <=> InQueue(k) \/ k = j
  BY <1>1 DEF InQueue
<1> QED BY <1>1, <1>2, <1>3

\* The queue after its head has been taken.
LEMMA QueueTake ==
    ASSUME queue \in Seq(Job), NoDup(queue), queue # <<>>, queue' = Tail(queue)
    PROVE  /\ queue' \in Seq(Job) /\ NoDup(queue')
           /\ Head(queue) \in Job /\ InQueue(Head(queue))
           /\ \A k : InQueue(k)' <=> InQueue(k) /\ k # Head(queue)
<1>1. /\ queue' \in Seq(Job) /\ Len(queue) \in Nat /\ Len(queue) > 0
      /\ Len(queue') = Len(queue) - 1 /\ Head(queue) = queue[1]
      /\ \A n \in 1..Len(queue') : queue'[n] = queue[n + 1]
      /\ Head(queue) \in Job
  OBVIOUS
<1>2. NoDup(queue')
  BY <1>1 DEF NoDup
<1>3. InQueue(Head(queue))
  BY <1>1 DEF InQueue
<1>4. \A k : InQueue(k)' => InQueue(k) /\ k # Head(queue)
  BY <1>1 DEF InQueue, NoDup
<1>5. ASSUME NEW k, InQueue(k), k # Head(queue) PROVE InQueue(k)'
  <2>1. PICK n \in 1..Len(queue) : queue[n] = k
    BY <1>5 DEF InQueue
  <2>2. n - 1 \in 1..Len(queue') /\ queue'[n - 1] = k
    BY <1>1, <1>5, <2>1
  <2> QED BY <2>2 DEF InQueue
<1> QED BY <1>1, <1>2, <1>3, <1>4, <1>5

LEMMA InitInv == Init => Inv
<1> SUFFICES ASSUME Init PROVE Inv
  OBVIOUS
<1>1. TypeOK
  BY BoundsAssumption DEF Init, TypeOK, WorkerState, IdleWorker, WorkerPc, ClientState,
     IdleClient, ClientPc, Kinds, Terminal
<1>2. Locking /\ Requests /\ Known /\ Exclusive
  BY NoneAssumption DEF Init, IdleClient, Locking, Locked, Requests, OnItsWay, Known, Exclusive,
     InCaseOperation
<1>3. Placed /\ RowsFollow /\ InRegistry
  BY DEF Init, Placed, NoDup, RowsFollow, InRegistry, InQueue, Held, IdleWorker, IdleClient
<1>4. Archived
  BY DEF Init, IdleClient, Archived
<1> QED BY <1>1, <1>2, <1>3, <1>4 DEF Inv

-----------------------------------------------------------------------------
(* Pool threads.                                                           *)

\* What is known of a job that a thread works on.
LEMMA HeldFacts ==
    ASSUME Inv, NEW w \in Workers, worker[w].pc # "idle"
    PROVE  /\ worker[w].job \in Job /\ worker[w].job # None
           /\ worker[w].job \in live /\ Held(worker[w].job) /\ ~InQueue(worker[w].job)
           /\ Fits(worker[w].pc, rows[worker[w].job])
           /\ case[CaseOf(worker[w].job)] # "archived"
           /\ \A cl \in Clients : client[cl].job # worker[w].job
<1>1. worker[w].job \in Job /\ worker[w].job # None
  BY DEF Inv, Placed, TypeOK, WorkerState
<1>2. worker[w].job \in live /\ ~InQueue(worker[w].job) /\ Held(worker[w].job)
      /\ Fits(worker[w].pc, rows[worker[w].job])
  BY <1>1 DEF Inv, InRegistry, Placed, RowsFollow, Held
<1>3. case[CaseOf(worker[w].job)] # "archived"
  BY <1>1, <1>2, JobFacts DEF Inv, Archived, Settled
<1>4. \A cl \in Clients : client[cl].job # worker[w].job
  BY <1>1, <1>2 DEF Inv, Placed
<1> QED BY <1>1, <1>2, <1>3, <1>4

\* A thread goes on with its job: it may write the row of that job and nothing
\* else that others look at.
LEMMA ThreadGoesOn ==
    ASSUME Inv, NEW w \in Workers, worker[w].pc # "idle",
           worker' \in [Workers -> WorkerState],
           \A v \in Workers \ {w} : worker'[v] = worker[v],
           worker'[w].job = worker[w].job, worker'[w].pc # "idle",
           rows' \in [Job -> {"none"} \cup Pending \cup Terminal],
           \A j \in Job \ {worker[w].job} : rows'[j] = rows[j],
           Fits(worker'[w].pc, rows'[worker[w].job]), errors' \in 0..MaxErrors,
           UNCHANGED <<kind, waits, case, live, cancelled, queue, client, lock, mode, crashes>>
    PROVE  Inv'
<1>0. \A j : (InQueue(j)' <=> InQueue(j)) /\ (Held(j)' <=> Held(j))
  BY DEF InQueue, Held
<1>1. TypeOK'
  BY DEF Inv, TypeOK
<1>2. Locking' /\ Requests'
  BY DEF Inv, Locking, Requests
<1>3. Placed'
  BY <1>0, HeldFacts DEF Inv, Placed
<1>4. RowsFollow'
  <2>1. \A v \in Workers \ {w} : worker[v].job # None => worker[v].job # worker[w].job
    BY DEF Inv, Placed
  <2>2. \A j \in Job : InQueue(j)' => rows'[j] = "queued"
    BY <1>0, HeldFacts DEF Inv, RowsFollow
  <2>3. \A v \in Workers : worker'[v].job # None => Fits(worker'[v].pc, rows'[worker'[v].job])
    BY <2>1 DEF Inv, TypeOK, WorkerState, RowsFollow
  <2>4. \A cl \in Clients : client'[cl].job # None => rows'[client'[cl].job] = "queued"
    BY HeldFacts DEF Inv, TypeOK, ClientState, RowsFollow
  <2> QED BY <2>2, <2>3, <2>4 DEF RowsFollow
<1>5. InRegistry'
  BY <1>0 DEF Inv, InRegistry
<1>6. Known'
  BY <1>0 DEF Inv, Known
<1>7. Exclusive'
  BY DEF Inv, Exclusive, InCaseOperation, Tolerated
<1>8. Archived'
  BY HeldFacts, JobFacts DEF Inv, Archived, Settled
<1> QED BY <1>1, <1>2, <1>3, <1>4, <1>5, <1>6, <1>7, <1>8 DEF Inv

LEMMA WriteFailsKeepsBound ==
    ASSUME Inv, NEW c, WriteFails(c)
    PROVE  errors' \in 0..MaxErrors
BY BoundsAssumption DEF Inv, TypeOK, WriteFails

\* The steps of _run between taking a job and giving it up.
LEMMA RunInv ==
    ASSUME Inv, NEW w \in Workers,
           \/ BeginCancelled(w) \/ Begin(w) \/ WaitDone(w) \/ EngineReturns(w)
           \/ EngineRaises(w) \/ Persist(w) \/ StateWriteRaises(w)
           \/ PersistFailure(w) \/ FailureLost(w)
    PROVE  Inv'
<1> DEFINE j == worker[w].job
<1>0. /\ worker \in [Workers -> WorkerState] /\ worker[w] \in WorkerState
      /\ rows \in [Job -> {"none"} \cup Pending \cup Terminal]
      /\ errors \in 0..MaxErrors
  BY DEF Inv, TypeOK
<1>1. CASE BeginCancelled(w)
  <2>1. worker[w].pc # "idle" /\ j \in Job
    BY <1>1, HeldFacts DEF BeginCancelled
  <2>2. Fits("pop", "cancelled")
    BY DEF Fits
  <2> QED BY <1>0, <1>1, <2>1, <2>2, ThreadGoesOn
      DEF BeginCancelled, SetState, registry, process, WorkerState, WorkerPc, Terminal
<1>2. CASE Begin(w)
  <2>1. worker[w].pc # "idle" /\ j \in Job
    BY <1>2, HeldFacts DEF Begin
  <2>2. Fits("wait", "running") /\ Fits("fn", "running")
    BY DEF Fits
  <2> QED BY <1>0, <1>2, <2>1, <2>2, ThreadGoesOn
      DEF Begin, SetState, registry, process, WorkerState, WorkerPc, Pending
<1>3. CASE WaitDone(w)
  <2>1. worker[w].pc # "idle" /\ j \in Job /\ Fits("wait", rows[j])
    BY <1>3, HeldFacts DEF WaitDone
  <2>2. Fits("persist", rows[j]) /\ Fits("fn", rows[j])
    BY <2>1 DEF Fits
  <2> QED BY <1>0, <1>3, <2>1, <2>2, ThreadGoesOn
      DEF WaitDone, db, registry, process, WorkerState, WorkerPc, Terminal
<1>4. CASE EngineReturns(w)
  <2>1. worker[w].pc # "idle" /\ j \in Job /\ Fits("fn", rows[j])
    BY <1>4, HeldFacts DEF EngineReturns
  <2>2. Fits("persist", rows[j])
    BY <2>1 DEF Fits
  <2> QED BY <1>0, <1>4, <2>1, <2>2, ThreadGoesOn
      DEF EngineReturns, db, registry, process, WorkerState, WorkerPc, Terminal
<1>5. CASE EngineRaises(w)
  <2>1. worker[w].pc # "idle" /\ j \in Job /\ Fits("fn", rows[j])
    BY <1>5, HeldFacts DEF EngineRaises
  <2>2. Fits("fail", rows[j])
    BY <2>1 DEF Fits, Pending
  <2> QED BY <1>0, <1>5, <2>1, <2>2, ThreadGoesOn
      DEF EngineRaises, db, registry, process, WorkerState, WorkerPc, Terminal
<1>6. CASE Persist(w)
  <2>1. worker[w].pc # "idle" /\ j \in Job /\ worker[w].out \in Terminal
    BY <1>0, <1>6, HeldFacts DEF Persist, WorkerState
  <2>2. Fits("pop", worker[w].out)
    BY <2>1 DEF Fits, Terminal
  <2> QED BY <1>0, <1>6, <2>1, <2>2, ThreadGoesOn
      DEF Persist, SetState, registry, process, WorkerState, WorkerPc, Terminal
<1>7. CASE StateWriteRaises(w)
  <2>1. /\ worker[w].pc \in {"begin", "persist"} /\ worker[w].pc # "idle"
        /\ j \in Job /\ Fits(worker[w].pc, rows[j])
    BY <1>7, HeldFacts DEF StateWriteRaises
  <2>2. Fits("fail", rows[j]) /\ errors' \in 0..MaxErrors
    BY <1>7, <2>1, WriteFailsKeepsBound DEF Fits, Pending, StateWriteRaises
  <2> QED BY <1>0, <1>7, <2>1, <2>2, ThreadGoesOn
      DEF StateWriteRaises, db, registry, WorkerState, WorkerPc
<1>8. CASE PersistFailure(w)
  <2>1. worker[w].pc # "idle" /\ j \in Job
    BY <1>8, HeldFacts DEF PersistFailure
  <2>2. Fits("pop", "failed")
    BY DEF Fits
  <2> QED BY <1>0, <1>8, <2>1, <2>2, ThreadGoesOn
      DEF PersistFailure, SetState, registry, process, WorkerState, WorkerPc, Terminal
<1>9. CASE FailureLost(w)
  <2>1. worker[w].pc # "idle" /\ j \in Job /\ Fits("fail", rows[j])
    BY <1>9, HeldFacts DEF FailureLost
  <2>2. Fits("pop", rows[j]) /\ errors' \in 0..MaxErrors
    BY <1>9, <2>1, WriteFailsKeepsBound DEF Fits, Pending, FailureLost
  <2> QED BY <1>0, <1>9, <2>1, <2>2, ThreadGoesOn
      DEF FailureLost, db, registry, WorkerState, WorkerPc
<1> QED BY <1>1, <1>2, <1>3, <1>4, <1>5, <1>6, <1>7, <1>8, <1>9

LEMMA TakeInv == ASSUME Inv, NEW w \in Workers, Take(w) PROVE Inv'
<1> DEFINE j == Head(queue)
<1>1. /\ queue' \in Seq(Job) /\ NoDup(queue') /\ j \in Job /\ InQueue(j)
      /\ \A k : InQueue(k)' <=> InQueue(k) /\ k # j
  BY QueueTake DEF Inv, TypeOK, Placed, Take
<1>2. /\ worker[w].pc = "idle" /\ worker[w].job = None /\ j # None
      /\ worker' = [worker EXCEPT ![w] = [pc |-> "begin", job |-> j, out |-> "done"]]
      /\ worker \in [Workers -> WorkerState]
      /\ UNCHANGED <<rows, kind, waits, case, live, cancelled, client, lock, mode, errors, crashes>>
  BY <1>1, JobFacts DEF Take, db, process, Inv, Placed, TypeOK
<1>3. /\ worker'[w] = [pc |-> "begin", job |-> j, out |-> "done"]
      /\ \A v \in Workers \ {w} : worker'[v] = worker[v]
      /\ worker' \in [Workers -> WorkerState]
  BY <1>1, <1>2 DEF WorkerState, WorkerPc, Terminal
<1>4. \A k \in Job : Held(k)' <=> Held(k) \/ k = j
  BY <1>2, <1>3, JobFacts DEF Held
<1>5. TypeOK'
  BY <1>1, <1>2, <1>3 DEF Inv, TypeOK
<1>6. Locking' /\ Requests'
  BY <1>2 DEF Inv, Locking, Requests
<1>7. Placed'
  <2>1. \A v \in Workers : worker[v].job # j
    BY <1>1, <1>2 DEF Inv, Placed
  <2>2. \A cl \in Clients : client[cl].job # j
    BY <1>1, <1>2 DEF Inv, Placed
  <2>3. \A cl \in Clients : client'[cl].job # None =>
            ~InQueue(client[cl].job)' /\ ~Held(client[cl].job)'
    BY <1>1, <1>2, <1>3, <1>4, <2>2 DEF Inv, Placed, Held
  <2> QED BY <1>1, <1>2, <1>3, <2>1, <2>3 DEF Inv, Placed
<1>8. RowsFollow'
  BY <1>1, <1>2, <1>3 DEF Inv, RowsFollow, Fits
<1>9. InRegistry'
  BY <1>1, <1>2, <1>3 DEF Inv, InRegistry
<1>10. Known'
  BY <1>1, <1>2, <1>4, JobFacts DEF Inv, Known
<1>11. Exclusive' /\ Archived'
  BY <1>2 DEF Inv, Exclusive, InCaseOperation, Tolerated, Archived, Settled
<1> QED BY <1>5, <1>6, <1>7, <1>8, <1>9, <1>10, <1>11 DEF Inv

LEMMA PopInv == ASSUME Inv, NEW w \in Workers, Pop(w) PROVE Inv'
<1> DEFINE j == worker[w].job
<1>1. /\ worker[w].pc = "pop" /\ live' = live \ {j} /\ worker' = [worker EXCEPT ![w] = IdleWorker]
      /\ j \in Job /\ j # None /\ ~InQueue(j) /\ \A cl \in Clients : client[cl].job # j
      /\ worker \in [Workers -> WorkerState]
      /\ UNCHANGED <<rows, kind, waits, case, cancelled, queue, client, lock, mode, errors, crashes>>
  BY HeldFacts, KeyIsJob DEF Pop, db, process, Inv, TypeOK
<1>2. /\ worker'[w].pc = "idle" /\ worker'[w].job = None
      /\ \A v \in Workers \ {w} : worker'[v] = worker[v] /\ worker[v].job # j
      /\ worker' \in [Workers -> WorkerState]
  BY <1>1 DEF Inv, Placed, IdleWorker, WorkerState, WorkerPc, Terminal
<1>3. \A k : InQueue(k)' <=> InQueue(k)
  BY <1>1 DEF InQueue
<1>4. \A k \in Job : Held(k)' => Held(k)
  BY <1>1, <1>2, JobFacts DEF Held
<1>5. TypeOK'
  BY <1>1, <1>2 DEF Inv, TypeOK
<1>6. Locking' /\ Requests'
  BY <1>1 DEF Inv, Locking, Requests
<1>7. Placed'
  BY <1>1, <1>2, <1>3 DEF Inv, Placed, Held
<1>8. RowsFollow'
  BY <1>1, <1>2, <1>3 DEF Inv, RowsFollow
<1>9. InRegistry'
  BY <1>1, <1>2, <1>3 DEF Inv, InRegistry
<1>10. Known'
  BY <1>1, <1>3, <1>4, JobFacts DEF Inv, Known
<1>11. Exclusive' /\ Archived'
  BY <1>1 DEF Inv, Exclusive, InCaseOperation, Tolerated, Archived, Settled
<1> QED BY <1>5, <1>6, <1>7, <1>8, <1>9, <1>10, <1>11 DEF Inv

-----------------------------------------------------------------------------
(* Request threads.                                                        *)

\* Whoever holds _schedule_lock is the only one to do so.
LEMMA HolderIsAlone ==
    ASSUME Inv, NEW cl \in Clients, client[cl].pc \in Locked
    PROVE  /\ lock = cl
           /\ \A d \in Clients \ {cl} : client[d].pc \notin Locked /\ client[d].job = None
<1>1. lock = cl /\ \A d \in Clients \ {cl} : client[d].pc \notin Locked
  BY DEF Inv, Locking
<1>2. \A d \in Clients \ {cl} : client[d].job = None
  BY <1>1 DEF Inv, Requests, OnItsWay, Locked
<1> QED BY <1>1, <1>2

\* A request thread that submits nothing at the moment goes on outside the
\* lock, or leaves it; it may cancel jobs, and take away a settled case.
LEMMA OutsideTheLock ==
    ASSUME Inv, NEW cl \in Clients, client[cl].job = None,
           client' \in [Clients -> ClientState],
           \A d \in Clients \ {cl} : client'[d] = client[d],
           client'[cl].pc \notin Locked, OnItsWay(client'[cl]),
           lock' = IF lock = cl THEN None ELSE lock,
           case' \in [Cases -> {"open", "archived", "deleted"}],
           \A c \in Cases : case'[c] = "archived" => case[c] = "archived" \/ Settled(c),
           cancelled' \subseteq Job, errors' \in 0..MaxErrors,
           UNCHANGED <<rows, kind, waits, live, queue, worker, mode, crashes>>
    PROVE  Inv'
<1>0. /\ \A k : (InQueue(k)' <=> InQueue(k)) /\ (Held(k)' <=> Held(k))
      /\ client'[cl].job = None
      /\ \A d \in Clients : client'[d].pc \in Locked => d # cl /\ client'[d] = client[d]
  BY DEF InQueue, Held, OnItsWay, Locked
<1>1. TypeOK'
  BY DEF Inv, TypeOK
<1>2. Locking'
  BY <1>0, NoneAssumption DEF Inv, Locking
<1>3. Requests'
  BY DEF Inv, Requests
<1>4. Placed'
  BY <1>0 DEF Inv, Placed
<1>5. RowsFollow' /\ InRegistry'
  BY <1>0 DEF Inv, RowsFollow, InRegistry, Locked
<1>6. Known'
  BY <1>0 DEF Inv, Known, Locked
<1>7. Exclusive'
  BY <1>0 DEF Inv, Exclusive, InCaseOperation, Tolerated, Locked
<1>8. Archived'
  BY <1>0 DEF Inv, Archived, Settled, Locked
<1> QED BY <1>1, <1>2, <1>3, <1>4, <1>5, <1>6, <1>7, <1>8 DEF Inv

LEMMA ClientFacts ==
    ASSUME Inv, NEW cl \in Clients
    PROVE  /\ client \in [Clients -> ClientState] /\ client[cl] \in ClientState
           /\ OnItsWay(client[cl]) /\ IdleClient \in ClientState /\ OnItsWay(IdleClient)
           /\ case \in [Cases -> {"open", "archived", "deleted"}]
           /\ cancelled \subseteq Job /\ errors \in 0..MaxErrors
           /\ (client[cl].pc \notin Locked => lock # cl)
           /\ (client[cl].pc \in Locked => lock = cl)
BY DEF Inv, TypeOK, Requests, Locking, OnItsWay, IdleClient, ClientState, ClientPc

LEMMA OutsideInv ==
    ASSUME Inv, NEW cl \in Clients,
           \/ \E op \in Ops \ {"cancel"}, c \in Cases : Request(cl, op, c)
           \/ Refuse(cl) \/ DrainSignal(cl) \/ DrainDone(cl) \/ DrainTimeout(cl)
           \/ DeleteCase(cl)
    PROVE  Inv'
<1>0. /\ client \in [Clients -> ClientState] /\ client[cl] \in ClientState
      /\ OnItsWay(client[cl]) /\ IdleClient \in ClientState /\ OnItsWay(IdleClient)
      /\ case \in [Cases -> {"open", "archived", "deleted"}]
      /\ cancelled \subseteq Job /\ errors \in 0..MaxErrors
      /\ (client[cl].pc \notin Locked => lock # cl)
  BY ClientFacts
<1>1. CASE \E op \in Ops \ {"cancel"}, c \in Cases : Request(cl, op, c)
  <2>1. PICK op \in Ops \ {"cancel"}, c \in Cases : Request(cl, op, c)
    BY <1>1
  <2> DEFINE new == [pc |-> IF op \in {"archive", "delete"} THEN "drain" ELSE "acquire",
                     op |-> op, case |-> c, job |-> None, ids |-> {}]
  <2>2. client[cl].pc = "idle" /\ client[cl].job = None
    BY <1>0, <2>1 DEF Request, OnItsWay
  <2>3. new \in ClientState /\ OnItsWay(new) /\ new.pc \notin Locked
    BY OpsAssumption DEF ClientState, ClientPc, OnItsWay, AllOps, Locked
  <2>4. client' = [client EXCEPT ![cl] = new]
    BY <2>1 DEF Request
  <2> QED BY <1>0, <2>1, <2>2, <2>3, <2>4, OutsideTheLock
      DEF Request, db, registry, process, Locked
<1>2. CASE Refuse(cl)
  <2>1. client[cl].job = None /\ client[cl].pc \notin Locked
    BY <1>0, <1>2 DEF Refuse, MayEnter, OnItsWay, Locked
  <2> QED BY <1>0, <1>2, <2>1, OutsideTheLock
      DEF Refuse, db, registry, process, IdleClient, Locked
<1>3. CASE DrainSignal(cl)
  <2> DEFINE ids == {j \in JobsOf(client[cl].case) : rows[j] \in Pending}
  <2> DEFINE new == [client[cl] EXCEPT !.pc = "drained", !.ids = ids]
  <2>1. client[cl].job = None /\ client[cl].pc = "drain"
    BY <1>0, <1>3 DEF DrainSignal, OnItsWay
  <2>2. ids \subseteq Job
    BY DEF JobsOf
  <2>3. new \in ClientState /\ OnItsWay(new) /\ new.pc \notin Locked
    BY <1>0, <2>1, <2>2 DEF ClientState, ClientPc, OnItsWay, Locked
  <2>4. client' = [client EXCEPT ![cl] = new]
    BY <1>0, <1>3 DEF DrainSignal, ClientState
  <2>5. cancelled' \subseteq Job
    BY <1>0, <1>3, <2>2 DEF DrainSignal
  <2> QED BY <1>0, <1>3, <2>1, <2>3, <2>4, <2>5, OutsideTheLock
      DEF DrainSignal, db, process, Locked
<1>4. CASE DrainDone(cl)
  <2> DEFINE new == [client[cl] EXCEPT
                        !.pc = IF client[cl].op = "delete" THEN "delete" ELSE "acquire",
                        !.ids = {}]
  <2>1. client[cl].job = None /\ client[cl].pc = "drained"
    BY <1>0, <1>4 DEF DrainDone, OnItsWay
  <2>2. new \in ClientState /\ OnItsWay(new) /\ new.pc \notin Locked
    <3>1. /\ client[cl].case \in Cases /\ client[cl].op \in {"archive", "delete"}
          /\ new.job = None /\ new.case = client[cl].case /\ new.op = client[cl].op
          /\ new.pc = IF client[cl].op = "delete" THEN "delete" ELSE "acquire"
      BY <1>0, <2>1 DEF ClientState, OnItsWay
    <3>2. new \in ClientState
      BY <1>0 DEF ClientState, ClientPc
    <3> HIDE DEF new
    <3> QED BY <3>1, <3>2 DEF OnItsWay, Locked, AllOps
  <2>3. client' = [client EXCEPT ![cl] = new]
    BY <1>0, <1>4 DEF DrainDone, ClientState
  <2> QED BY <1>0, <1>4, <2>1, <2>2, <2>3, OutsideTheLock
      DEF DrainDone, db, registry, process, Locked
<1>5. CASE DrainTimeout(cl)
  <2>1. client[cl].job = None /\ client[cl].pc \notin Locked
    BY <1>0, <1>5 DEF DrainTimeout, OnItsWay, Locked
  <2> QED BY <1>0, <1>5, <2>1, OutsideTheLock
      DEF DrainTimeout, db, registry, process, IdleClient, Locked
<1>6. CASE DeleteCase(cl)
  <2>1. /\ client[cl].job = None /\ client[cl].pc \notin Locked
        /\ client[cl].case \in Cases
    BY <1>0, <1>6 DEF DeleteCase, OnItsWay, Locked
  <2> QED BY <1>0, <1>6, <2>1, OutsideTheLock
      DEF DeleteCase, registry, process, IdleClient, Locked
<1> QED BY <1>1, <1>2, <1>3, <1>4, <1>5, <1>6

\* The requests that let go of the lock without a job in their hands.
LEMMA LeaveInv ==
    ASSUME Inv, NEW cl \in Clients, Body(cl) \/ RequestFails(cl) \/ OutOfIds(cl)
    PROVE  Inv'
<1>0. /\ client \in [Clients -> ClientState] /\ client[cl] \in ClientState
      /\ OnItsWay(client[cl]) /\ IdleClient \in ClientState /\ OnItsWay(IdleClient)
      /\ case \in [Cases -> {"open", "archived", "deleted"}]
      /\ cancelled \subseteq Job /\ errors \in 0..MaxErrors
      /\ (client[cl].pc \in Locked => lock = cl)
      /\ IdleClient.pc \notin Locked
  BY ClientFacts DEF IdleClient, Locked
<1>1. CASE Body(cl)
  <2>1. client[cl].pc = "body" /\ client[cl].job = None /\ lock = cl /\ client[cl].case \in Cases
    BY <1>0, <1>1 DEF Body, OnItsWay, Locked
  <2>2. /\ case' \in [Cases -> {"open", "archived", "deleted"}]
        /\ \A c \in Cases : case'[c] = "archived" => case[c] = "archived" \/ Settled(c)
    BY <1>0, <1>1, <2>1 DEF Body, Inv, Archived
  <2> QED BY <1>0, <1>1, <2>1, <2>2, OutsideTheLock DEF Body, Release, registry
<1>2. CASE RequestFails(cl)
  <2>1. client[cl].job = None /\ lock = cl
    BY <1>0, <1>2 DEF RequestFails, OnItsWay, Locked
  <2>2. errors' \in 0..MaxErrors
    BY <1>0, <1>2, BoundsAssumption DEF RequestFails
  <2> QED BY <1>0, <1>2, <2>1, <2>2, OutsideTheLock DEF RequestFails, Release, db, registry
<1>3. CASE OutOfIds(cl)
  <2>1. client[cl].job = None /\ lock = cl
    BY <1>0, <1>3 DEF OutOfIds, OnItsWay, Locked
  <2> QED BY <1>0, <1>3, <2>1, OutsideTheLock DEF OutOfIds, Release, db, registry
<1> QED BY <1>1, <1>2, <1>3

-----------------------------------------------------------------------------
(* The holder of the lock.                                                 *)

\* A request enters: the case of a case operation has no live jobs but those
\* of a hunt batch, and nobody else is inside.
LEMMA AcquireInv == ASSUME Inv, NEW cl \in Clients, Acquire(cl) PROVE Inv'
<1> DEFINE new == [client[cl] EXCEPT
                      !.pc = IF client[cl].op \in CaseOps \cup {"list"}
                             THEN "recover" ELSE "insert"]
<1>1. /\ client \in [Clients -> ClientState] /\ client[cl] \in ClientState
      /\ OnItsWay(client[cl]) /\ client[cl].pc = "acquire" /\ lock = None
      /\ lock' = cl /\ client' = [client EXCEPT ![cl] = new]
      /\ client[cl].op \in CaseOps => ~Busy(client[cl].op, client[cl].case)
      /\ UNCHANGED <<rows, kind, waits, case, live, cancelled, queue, worker, mode, errors, crashes>>
  BY ClientFacts DEF Acquire, MayEnter, db, registry, ClientState
<1>2. /\ client'[cl].op = client[cl].op /\ client'[cl].case = client[cl].case
      /\ client'[cl].job = None /\ client[cl].job = None /\ client[cl].case \in Cases
      /\ client'[cl].pc \in {"recover", "insert"}
      /\ client'[cl].pc = "recover" <=> client[cl].op \in CaseOps \cup {"list"}
      /\ client[cl].op \in AllOps \ {"delete", "cancel"}
      /\ \A d \in Clients \ {cl} : client'[d] = client[d]
      /\ client' \in [Clients -> ClientState]
  BY <1>1 DEF ClientState, ClientPc, OnItsWay
<1>3. \A k : (InQueue(k)' <=> InQueue(k)) /\ (Held(k)' <=> Held(k))
  BY <1>1 DEF InQueue, Held
<1>4. \A d \in Clients : client[d].pc \notin Locked
  BY <1>1, NoneAssumption DEF Inv, Locking
<1>5. TypeOK'
  BY <1>1, <1>2 DEF Inv, TypeOK
<1>6. Locking'
  BY <1>1, <1>2, <1>4 DEF Locking, Locked
<1>7. Requests'
  <2>1. OnItsWay(client'[cl])
    BY <1>2 DEF OnItsWay, AllOps, CaseOps, SubmitOps
  <2> QED BY <1>2, <2>1 DEF Inv, Requests
<1>8. Placed' /\ RowsFollow' /\ InRegistry'
  BY <1>1, <1>2, <1>3 DEF Inv, Placed, RowsFollow, InRegistry
<1>9. Known' /\ Archived'
  BY <1>1, <1>2, <1>3, <1>4 DEF Inv, Known, Archived, Settled, Locked
<1>10. Exclusive'
  <2>1. ASSUME InCaseOperation(cl)', NEW j \in JobsOf(client[cl].case), j \in live
        PROVE  client[cl].op = "apply" /\ kind[j] = "hunt_batch"
    BY <1>1, <1>2, <2>1, KeyIsJob, JobFacts DEF InCaseOperation, Busy, LiveOf
  <2> QED BY <1>1, <1>2, <1>4, <2>1 DEF Exclusive, InCaseOperation, Tolerated, Locked
<1> QED BY <1>5, <1>6, <1>7, <1>8, <1>9, <1>10 DEF Inv

LEMMA SnapshotInv == ASSUME Inv, NEW cl \in Clients, RecoverSnapshot(cl) PROVE Inv'
<1> DEFINE s == client[cl]
<1> DEFINE new == [s EXCEPT !.pc = "interrupt", !.ids = LiveOf(s.case)]
<1>1. /\ client \in [Clients -> ClientState] /\ s \in ClientState /\ OnItsWay(s)
      /\ s.pc = "recover" /\ client' = [client EXCEPT ![cl] = new] /\ lock = cl
      /\ UNCHANGED <<rows, kind, waits, case, live, cancelled, queue, worker, lock, mode, errors, crashes>>
  BY ClientFacts DEF RecoverSnapshot, db, registry, process, ClientState, Locked
<1>2. LiveOf(s.case) \subseteq Job /\ \A j \in JobsOf(s.case) : j \in LiveOf(s.case) <=> j \in live
  BY KeyIsJob, JobFacts DEF LiveOf, JobsOf
<1>3. /\ client'[cl].op = s.op /\ client'[cl].case = s.case
      /\ client'[cl].job = s.job /\ s.job = None /\ client'[cl].pc = "interrupt"
      /\ client'[cl].ids = LiveOf(s.case)
      /\ \A d \in Clients \ {cl} : client'[d] = client[d] /\ client[d].pc \notin Locked
      /\ client' \in [Clients -> ClientState]
  BY <1>1, <1>2, HolderIsAlone DEF ClientState, ClientPc, OnItsWay, Locked
<1>4. \A k : (InQueue(k)' <=> InQueue(k)) /\ (Held(k)' <=> Held(k))
  BY <1>1 DEF InQueue, Held
<1>5. TypeOK'
  BY <1>1, <1>3 DEF Inv, TypeOK
<1>6. Locking' /\ Requests'
  BY <1>1, <1>3 DEF Inv, Locking, Locked, Requests, OnItsWay
<1>7. Placed' /\ RowsFollow' /\ InRegistry'
  BY <1>1, <1>3, <1>4 DEF Inv, Placed, RowsFollow, InRegistry
<1>8. Exclusive'
  BY <1>1, <1>3 DEF Inv, Exclusive, InCaseOperation, Tolerated, Locked
<1>9. Known'
  <2>1. \A j \in JobsOf(s.case) : InQueue(j) \/ Held(j) => j \in live
    BY JobFacts DEF Inv, InRegistry, Held
  <2>2. s.op \in CaseOps \ {"apply"} => \A j \in JobsOf(s.case) : j \notin live
    BY <1>1, <1>3 DEF Inv, Exclusive, InCaseOperation, Tolerated
  <2>3. s.op \in CaseOps \ {"apply"} => LiveOf(s.case) = {}
    BY <1>2, <2>2 DEF LiveOf
  <2> QED BY <1>2, <1>3, <1>4, <2>1, <2>3 DEF Known, Locked
<1>10. Archived'
  BY <1>1, <1>3 DEF Inv, Archived, Settled, Locked
<1> QED BY <1>5, <1>6, <1>7, <1>8, <1>9, <1>10 DEF Inv

\* Recovery touches no job that this process still works on.
LEMMA StaleIsDead ==
    ASSUME Inv, NEW cl \in Clients, client[cl].pc = "interrupt"
    PROVE  \A j \in Stale(cl) : j \in Job /\ rows[j] \in Pending /\ ~InFlight(j)
<1>1. \A j \in Stale(cl) : /\ j \in Job /\ j \in JobsOf(client[cl].case) /\ j \notin client[cl].ids
                           /\ rows[j] \in Pending
  BY DEF Stale, JobsOf
<1>2. \A j \in Stale(cl) : ~InQueue(j) /\ ~Held(j)
  BY <1>1 DEF Inv, Known
<1>3. \A d \in Clients : client[d].job = None
  BY HolderIsAlone DEF Inv, Requests, OnItsWay, Locked
<1> QED BY <1>1, <1>2, <1>3, JobFacts DEF InFlight, BeingSubmitted

LEMMA RecoverInv == ASSUME Inv, NEW cl \in Clients, RecoverInterrupted(cl) PROVE Inv'
<1> DEFINE s == client[cl]
<1> DEFINE new == [s EXCEPT !.pc = AfterRecovery(s.op), !.ids = {}]
<1>1. /\ client \in [Clients -> ClientState] /\ s \in ClientState /\ OnItsWay(s)
      /\ s.pc = "interrupt" /\ client' = [client EXCEPT ![cl] = new] /\ lock = cl
      /\ rows' = [j \in Job |-> IF j \in Stale(cl) THEN "failed" ELSE rows[j]]
      /\ UNCHANGED <<kind, waits, case, live, cancelled, queue, worker, lock, mode, errors, crashes>>
  BY ClientFacts DEF RecoverInterrupted, db, registry, process, ClientState, Locked
<1>2. AfterRecovery(s.op) = IF s.op \in {"analyze", "hunt"} THEN "insert" ELSE "body"
  BY DEF AfterRecovery
<1>3. /\ client'[cl].op = s.op /\ client'[cl].case = s.case
      /\ client'[cl].job = s.job /\ s.job = None /\ client'[cl].pc = AfterRecovery(s.op)
      /\ \A d \in Clients \ {cl} : client'[d] = client[d] /\ client[d].pc \notin Locked
                                   /\ client[d].job = None
      /\ client' \in [Clients -> ClientState]
  BY <1>1, <1>2, HolderIsAlone DEF ClientState, ClientPc, OnItsWay, Locked
<1>4. \A k : (InQueue(k)' <=> InQueue(k)) /\ (Held(k)' <=> Held(k))
  BY <1>1 DEF InQueue, Held
<1>5. \A j \in Stale(cl) : j \in Job /\ rows[j] \in Pending /\ ~InFlight(j)
  BY <1>1, StaleIsDead
<1>6. TypeOK'
  BY <1>1, <1>3 DEF Inv, TypeOK, Terminal
<1>7. Locking' /\ Requests'
  BY <1>1, <1>2, <1>3 DEF Inv, Locking, Locked, Requests, OnItsWay, CaseOps, SubmitOps
<1>8. Placed' /\ InRegistry'
  BY <1>1, <1>2, <1>3, <1>4 DEF Inv, Placed, InRegistry
<1>9. RowsFollow'
  <2>1. \A w \in Workers : worker[w].job # None => worker[w].job \in Job \ Stale(cl)
    BY <1>5 DEF Inv, TypeOK, WorkerState, InFlight, Held
  <2>2. \A j \in Job : InQueue(j) => j \notin Stale(cl)
    BY <1>5 DEF InFlight
  <2> QED BY <1>1, <1>3, <1>4, <2>1, <2>2 DEF Inv, RowsFollow
<1>10. Known'
  BY <1>1, <1>2, <1>3, <1>4 DEF Inv, Known, Locked
<1>11. s.op # "apply" /\ s.op \in CaseOps =>
          \A j \in JobsOf(s.case) : j \notin live /\ rows'[j] \notin Pending
  <2>1. s.op # "apply" /\ s.op \in CaseOps => \A j \in JobsOf(s.case) : j \notin live
    BY <1>1 DEF Inv, Exclusive, InCaseOperation, Tolerated
  <2>2. s.op # "apply" /\ s.op \in CaseOps => s.ids = {}
    BY <1>1 DEF Inv, Known
  <2> QED BY <1>1, <2>1, <2>2, JobFacts DEF Stale, Pending
<1>12. Exclusive'
  BY <1>1, <1>2, <1>3, <1>11 DEF Inv, Exclusive, InCaseOperation, Tolerated, Locked
<1>13. Archived'
  <2>1. \A c \in Cases : Settled(c) => Settled(c)'
    BY <1>1, JobFacts DEF Settled, Pending
  <2>2. s.op = "archive" => Settled(s.case)'
    BY <1>1, <1>11 DEF Settled, CaseOps
  <2> QED BY <1>1, <1>3, <2>1, <2>2 DEF Inv, Archived, Locked
<1> QED BY <1>6, <1>7, <1>8, <1>9, <1>10, <1>12, <1>13 DEF Inv

LEMMA InsertInv == ASSUME Inv, NEW cl \in Clients, InsertRow(cl) PROVE Inv'
<1> DEFINE s == client[cl]
<1>0. PICK j \in JobsOf(s.case) :
        /\ IsNextId(j)
        /\ rows' = [rows EXCEPT ![j] = "queued"]
        /\ kind' = [kind EXCEPT ![j] = KindOf(s.op)]
        /\ waits' = [waits EXCEPT ![j] = IF s.op = "submit_after" THEN LiveOf(s.case) ELSE {}]
        /\ client' = [client EXCEPT ![cl].pc = "register", ![cl].job = j]
  BY DEF InsertRow
<1> DEFINE new == [s EXCEPT !.pc = "register", !.job = j]
<1>1. /\ client \in [Clients -> ClientState] /\ s \in ClientState /\ OnItsWay(s)
      /\ s.pc = "insert" /\ client' = [client EXCEPT ![cl] = new] /\ lock = cl
      /\ case[s.case] = "open" /\ j \in Job /\ j # None /\ rows[j] = "none"
      /\ UNCHANGED <<case, live, cancelled, queue, worker, lock, mode, errors, crashes>>
  <2>1. /\ s.pc = "insert" /\ case[s.case] = "open"
        /\ UNCHANGED <<case, live, cancelled, queue, worker, lock, mode, errors, crashes>>
    BY DEF InsertRow, registry, process
  <2>2. /\ client \in [Clients -> ClientState] /\ s \in ClientState /\ OnItsWay(s) /\ lock = cl
    BY <2>1, ClientFacts DEF Locked
  <2>3. client' = [client EXCEPT ![cl] = new]
    BY <1>0, <2>2 DEF ClientState
  <2>4. j \in Job /\ j # None /\ rows[j] = "none"
    BY <1>0, JobFacts DEF IsNextId
  <2> QED BY <2>1, <2>2, <2>3, <2>4
<1>2. /\ client'[cl].op = s.op /\ client'[cl].case = s.case /\ client'[cl].job = j
      /\ client'[cl].pc = "register" /\ client'[cl].ids = s.ids
      /\ \A d \in Clients \ {cl} : client'[d] = client[d] /\ client[d].pc \notin Locked
                                   /\ client[d].job = None
      /\ client' \in [Clients -> ClientState]
  BY <1>1, HolderIsAlone DEF ClientState, ClientPc, OnItsWay, Locked
<1>3. \A k : (InQueue(k)' <=> InQueue(k)) /\ (Held(k)' <=> Held(k))
  BY <1>1 DEF InQueue, Held
<1>4. ~InQueue(j) /\ ~Held(j)
  BY <1>1 DEF Inv, RowsFollow, Held, Fits, Pending, Placed, TypeOK, WorkerState, WorkerPc
<1>5. TypeOK'
  <2>1. KindOf(s.op) \in Kinds
    BY DEF KindOf, Kinds
  <2>2. LiveOf(s.case) \subseteq Job
    BY DEF LiveOf, JobsOf
  <2> QED BY <1>0, <1>1, <1>2, <2>1, <2>2 DEF Inv, TypeOK, Pending
<1>6. Locking' /\ Requests'
  BY <1>1, <1>2 DEF Inv, Locking, Locked, Requests, OnItsWay
<1>7. Placed'
  BY <1>1, <1>2, <1>3, <1>4 DEF Inv, Placed
<1>8. RowsFollow'
  BY <1>0, <1>1, <1>2, <1>3, <1>4 DEF Inv, RowsFollow, Held, TypeOK
<1>9. InRegistry' /\ Known'
  BY <1>1, <1>2, <1>3 DEF Inv, InRegistry, Known, Locked
<1>10. Exclusive'
  BY <1>1, <1>2 DEF Inv, Exclusive, InCaseOperation, Tolerated, Locked, OnItsWay, SubmitOps
<1>11. Archived'
  <2>1. \A c \in Cases : c # s.case /\ Settled(c) => Settled(c)'
    BY <1>0, <1>1, JobFacts DEF Settled
  <2> QED BY <1>1, <1>2, <2>1 DEF Inv, Archived, Locked
<1> QED BY <1>5, <1>6, <1>7, <1>8, <1>9, <1>10, <1>11 DEF Inv

LEMMA RegisterInv == ASSUME Inv, NEW cl \in Clients, Register(cl) PROVE Inv'
<1> DEFINE s == client[cl]
<1> DEFINE new == [s EXCEPT !.pc = "enqueue"]
<1>1. /\ client \in [Clients -> ClientState] /\ s \in ClientState /\ OnItsWay(s)
      /\ s.pc = "register" /\ client' = [client EXCEPT ![cl] = new] /\ lock = cl
      /\ s.job # None /\ s.job \in Job /\ live' = live \cup {s.job}
      /\ UNCHANGED <<rows, kind, waits, case, cancelled, queue, worker, lock, mode, errors, crashes>>
  BY ClientFacts, JobFacts, KeyIsJob DEF Register, db, process, ClientState, Locked, OnItsWay
<1>2. /\ client'[cl].op = s.op /\ client'[cl].case = s.case /\ client'[cl].job = s.job
      /\ client'[cl].pc = "enqueue" /\ client'[cl].ids = s.ids
      /\ \A d \in Clients \ {cl} : client'[d] = client[d] /\ client[d].pc \notin Locked
                                   /\ client[d].job = None
      /\ client' \in [Clients -> ClientState]
  BY <1>1, HolderIsAlone DEF ClientState, ClientPc, OnItsWay, Locked
<1>3. \A k : (InQueue(k)' <=> InQueue(k)) /\ (Held(k)' <=> Held(k))
  BY <1>1 DEF InQueue, Held
<1>4. TypeOK'
  BY <1>1, <1>2 DEF Inv, TypeOK
<1>5. Locking' /\ Requests'
  BY <1>1, <1>2 DEF Inv, Locking, Locked, Requests, OnItsWay
<1>6. Placed' /\ RowsFollow'
  BY <1>1, <1>2, <1>3 DEF Inv, Placed, RowsFollow
<1>7. InRegistry' /\ Known'
  BY <1>1, <1>2, <1>3 DEF Inv, InRegistry, Known, Locked
<1>8. Exclusive'
  BY <1>1, <1>2 DEF Inv, Exclusive, InCaseOperation, Tolerated, Locked, OnItsWay, SubmitOps
<1>9. Archived'
  <2>1. rows[s.job] = "queued"
    BY <1>1 DEF Inv, RowsFollow
  <2>2. \A c \in Cases : Settled(c) => Settled(c)'
    BY <1>1, <2>1, JobFacts DEF Settled, Pending
  <2> QED BY <1>1, <1>2, <2>2 DEF Inv, Archived, Locked
<1> QED BY <1>4, <1>5, <1>6, <1>7, <1>8, <1>9 DEF Inv

LEMMA EnqueueInv == ASSUME Inv, NEW cl \in Clients, Enqueue(cl) PROVE Inv'
<1> DEFINE s == client[cl]
<1> DEFINE j == s.job
<1> DEFINE new == [s EXCEPT !.pc = "insert", !.job = None, !.ids = s.ids \cup {j}]
<1>1. /\ client \in [Clients -> ClientState] /\ s \in ClientState /\ OnItsWay(s)
      /\ s.pc = "enqueue" /\ lock = cl /\ j # None /\ j \in Job
      /\ queue' = Append(queue, j)
      /\ \/ client' = [client EXCEPT ![cl] = IdleClient] /\ lock' = None
         \/ s.op = "analyze" /\ client' = [client EXCEPT ![cl] = new] /\ lock' = lock
      /\ UNCHANGED <<rows, kind, waits, case, live, cancelled, worker, mode, errors, crashes>>
  BY ClientFacts, JobFacts DEF Enqueue, Put, Release, db, ClientState, Locked, OnItsWay
<1>2. ~InQueue(j) /\ ~Held(j) /\ rows[j] = "queued" /\ j \in live
  BY <1>1 DEF Inv, Placed, RowsFollow, InRegistry
<1>3. /\ queue' \in Seq(Job) /\ NoDup(queue')
      /\ \A k : InQueue(k)' <=> InQueue(k) \/ k = j
  BY <1>1, <1>2, QueuePut DEF Inv, TypeOK, Placed
<1>4. \A k : Held(k)' <=> Held(k)
  BY <1>1 DEF Held
<1>5. \A d \in Clients \ {cl} : client'[d] = client[d] /\ client[d].pc \notin Locked
                                /\ client[d].job = None
  BY <1>1, HolderIsAlone DEF Locked
<1>6. client'[cl].job = None /\ client' \in [Clients -> ClientState]
  <2>1. IdleClient \in ClientState /\ new \in ClientState
    BY <1>1, ClientFacts DEF ClientState, ClientPc
  <2>2. IdleClient.job = None /\ new.job = None
    BY <1>1 DEF IdleClient, ClientState
  <2>3. client'[cl] \in {IdleClient, new} /\ client' \in [Clients -> ClientState]
    BY <1>1, <2>1
  <2> QED BY <2>2, <2>3
<1>7. \/ client'[cl] = IdleClient /\ lock' = None
      \/ /\ s.op = "analyze" /\ lock' = lock
         /\ client'[cl].pc = "insert" /\ client'[cl].op = s.op
         /\ client'[cl].case = s.case /\ client'[cl].ids = s.ids \cup {j}
  <2>1. /\ new.pc = "insert" /\ new.op = s.op /\ new.case = s.case
        /\ new.ids = s.ids \cup {j}
    BY <1>1 DEF ClientState
  <2>2. \/ client'[cl] = IdleClient /\ lock' = None
        \/ s.op = "analyze" /\ lock' = lock /\ client'[cl] = new
    BY <1>1
  <2> QED BY <2>1, <2>2
<1>8. TypeOK'
  BY <1>1, <1>3, <1>6 DEF Inv, TypeOK
<1>9. Locking'
  BY <1>1, <1>5, <1>7, NoneAssumption DEF Inv, Locking, Locked, IdleClient
<1>10. Requests'
  <2>1. OnItsWay(IdleClient)
    BY ClientFacts
  <2>2. OnItsWay(client'[cl])
    BY <1>1, <1>6, <1>7, <2>1 DEF OnItsWay, SubmitOps
  <2> QED BY <1>5, <2>2 DEF Inv, Requests
<1>11. Placed'
  BY <1>1, <1>2, <1>3, <1>4, <1>5, <1>6 DEF Inv, Placed, Held
<1>12. RowsFollow' /\ InRegistry'
  BY <1>1, <1>2, <1>3, <1>5, <1>6, <1>7 DEF Inv, RowsFollow, InRegistry, IdleClient
<1>13. Known' /\ Archived'
  BY <1>1, <1>5, <1>7 DEF Inv, Known, Archived, Settled, Locked, IdleClient
<1>14. Exclusive'
  BY <1>1, <1>5, <1>7 DEF Inv, Exclusive, InCaseOperation, Tolerated, Locked, IdleClient
<1> QED BY <1>8, <1>9, <1>10, <1>11, <1>12, <1>13, <1>14 DEF Inv

-----------------------------------------------------------------------------
(* The steps of the process.                                               *)

LEMMA ProcessInv ==
    ASSUME Inv,
           \/ \E j \in Job : CancelJob(j)
           \/ \E c \in Cases : ImportCase(c)
           \/ CancelAll \/ Stopped \/ Restart
    PROVE  Inv'
<1>1. /\ cancelled' \subseteq Job /\ mode' \in {"up", "closing", "down"}
      /\ case' \in [Cases -> {"open", "archived", "deleted"}]
      /\ \A c \in Cases : case'[c] = "archived" => case[c] = "archived"
      /\ UNCHANGED <<rows, kind, waits, live, queue, worker, client, lock, errors, crashes>>
  BY DEF Inv, TypeOK, CancelJob, ImportCase, CancelAll, Stopped, Restart, db, registry, process
<1>2. TypeOK'
  BY <1>1 DEF Inv, TypeOK
<1>3. \A k : (InQueue(k)' <=> InQueue(k)) /\ (Held(k)' <=> Held(k))
  BY <1>1 DEF InQueue, Held
<1>4. Locking' /\ Requests' /\ Placed' /\ RowsFollow' /\ InRegistry' /\ Known'
  BY <1>1, <1>3 DEF Inv, Locking, Requests, Placed, RowsFollow, InRegistry, Known
<1>5. Exclusive'
  BY <1>1 DEF Inv, Exclusive, InCaseOperation, Tolerated
<1>6. Archived'
  BY <1>1 DEF Inv, Archived, Settled
<1> QED BY <1>2, <1>4, <1>5, <1>6 DEF Inv

\* A crash leaves the databases, and no thread that knows of them.
LEMMA CrashInv == ASSUME Inv, Crash PROVE Inv'
<1>1. /\ IdleWorker \in WorkerState /\ IdleClient \in ClientState
      /\ IdleWorker.job = None /\ IdleWorker.pc = "idle"
      /\ IdleClient.job = None /\ IdleClient.pc = "idle"
  BY DEF IdleWorker, WorkerState, WorkerPc, Terminal, IdleClient, ClientState, ClientPc
<1>2. crashes' \in 0..MaxCrashes
  BY BoundsAssumption DEF Inv, TypeOK, Crash
<1>3. TypeOK'
  BY <1>1, <1>2 DEF Inv, TypeOK, Crash, db
<1>4. Locking' /\ Requests' /\ Known' /\ Exclusive'
  BY <1>1, NoneAssumption DEF Crash, Locking, Locked, Requests, OnItsWay, Known, Exclusive,
     InCaseOperation
<1>5. Placed' /\ RowsFollow' /\ InRegistry'
  BY <1>1 DEF Crash, Placed, NoDup, RowsFollow, InRegistry, InQueue, Held
<1>6. Archived'
  BY <1>1 DEF Inv, Crash, db, Archived, Settled
<1> QED BY <1>3, <1>4, <1>5, <1>6 DEF Inv

LEMMA StepInv == Inv /\ [Next]_vars => Inv'
<1> SUFFICES ASSUME Inv, [Next]_vars PROVE Inv'
  OBVIOUS
<1>1. CASE \E cl \in Clients : ClientStep(cl)
  BY <1>1, OutsideInv, LeaveInv, AcquireInv, SnapshotInv, RecoverInv, InsertInv, RegisterInv,
     EnqueueInv DEF ClientStep
<1>2. CASE \E w \in Workers : WorkerStep(w)
  BY <1>2, RunInv, TakeInv, PopInv DEF WorkerStep
<1>3. CASE \/ \E j \in Job : CancelJob(j)
           \/ \E c \in Cases : ImportCase(c)
           \/ CancelAll \/ Stopped \/ Restart
  BY <1>3, ProcessInv
<1>4. CASE Crash
  BY <1>4, CrashInv
<1>5. CASE UNCHANGED vars
  BY <1>5 DEF vars, Inv, TypeOK, Locking, Requests, Placed, RowsFollow, InRegistry, Known,
     Exclusive, Archived, Settled, InCaseOperation, Tolerated, InQueue, Held
<1> QED BY <1>1, <1>2, <1>3, <1>4, <1>5 DEF Next

-----------------------------------------------------------------------------
(* The theorems.                                                           *)

\* Every reachable state satisfies the inductive invariant: a job has one
\* place, its row and the registry agree with that place, and the schedule
\* lock keeps the case operations of server/jobs.py apart.
THEOREM Invariance == Spec => []Inv
<1> QED BY InitInv, StepInv, PTL DEF Spec

\* The rows, the registry, the queue and all threads keep their shape.
THEOREM TypeCorrect == Spec => []TypeOK
<1>1. Inv => TypeOK
  BY DEF Inv
<1> QED BY <1>1, Invariance, PTL

\* A job in the pool is in JobManager.live until _run has finished with it,
\* whatever write fails and whenever the process crashes: an empty registry
\* means that no engine writes.
THEOREM AllWorkRegistered == Spec => []WorkIsRegistered
<1>1. Inv => WorkIsRegistered
  BY KeyIsJob, JobFacts DEF Inv, InRegistry, WorkIsRegistered, Held
<1> QED BY <1>1, Invariance, PTL

\* recover_interrupted never marks a job that a thread of this process still
\* has in hand, although it reads the registry and the database one after the
\* other.
THEOREM RecoveryIsSafe == Spec => InterruptsOnlyDeadJobs
<1>1. Inv => \A cl \in Clients : RecoverInterrupted(cl) => \A j \in Stale(cl) : ~InFlight(j)
  BY StaleIsDead DEF RecoverInterrupted
<1> QED BY <1>1, Invariance, PTL DEF InterruptsOnlyDeadJobs

\* Only pending rows and rows that do not exist yet are ever written.
LEMMA StepKeepsEnded ==
    ASSUME Inv, [Next]_vars, NEW k \in Job, rows[k] \in Terminal
    PROVE  rows'[k] = rows[k]
<1>1. rows \in [Job -> {"none"} \cup Pending \cup Terminal] /\ rows[k] \notin Pending \cup {"none"}
  BY DEF Inv, TypeOK, Pending, Terminal
<1>2. CASE \E w \in Workers : WorkerStep(w)
  <2>1. PICK w \in Workers : WorkerStep(w)
    BY <1>2
  <2> DEFINE j == worker[w].job
  <2>2. CASE \/ BeginCancelled(w) \/ Begin(w) \/ Persist(w) \/ PersistFailure(w)
    <3>1. \E r : rows' = [rows EXCEPT ![j] = r]
      BY <2>2 DEF BeginCancelled, Begin, Persist, PersistFailure, SetState
    <3>2. worker[w].pc \in {"begin", "persist", "fail"}
      BY <2>2 DEF BeginCancelled, Begin, Persist, PersistFailure
    <3>3. rows[j] \in Pending
      BY <3>2, HeldFacts DEF Fits, Pending
    <3> QED BY <1>1, <3>1, <3>3
  <2>3. CASE ~(BeginCancelled(w) \/ Begin(w) \/ Persist(w) \/ PersistFailure(w))
    BY <2>1, <2>3 DEF WorkerStep, Take, WaitDone, EngineReturns, EngineRaises, StateWriteRaises,
       FailureLost, Pop, db
  <2> QED BY <2>2, <2>3
<1>3. CASE \E cl \in Clients : RecoverInterrupted(cl)
  <2>1. PICK cl \in Clients : RecoverInterrupted(cl)
    BY <1>3
  <2>2. k \notin Stale(cl)
    BY <1>1, <2>1, StaleIsDead DEF RecoverInterrupted
  <2> QED BY <2>1, <2>2 DEF RecoverInterrupted
<1>4. CASE \E cl \in Clients : InsertRow(cl)
  <2>1. PICK j \in Job : IsNextId(j) /\ rows' = [rows EXCEPT ![j] = "queued"]
    BY <1>4, JobFacts DEF InsertRow
  <2> QED BY <1>1, <2>1 DEF IsNextId
<1>5. CASE \E cl \in Clients : ClientStep(cl) /\ ~RecoverInterrupted(cl) /\ ~InsertRow(cl)
  BY <1>5 DEF ClientStep, Request, Acquire, Refuse, RecoverSnapshot, Body, Register, Enqueue,
     RequestFails, OutOfIds, DrainSignal, DrainDone, DrainTimeout, DeleteCase, db
<1>6. CASE \/ \E j \in Job : CancelJob(j)
           \/ \E c \in Cases : ImportCase(c)
           \/ Crash \/ CancelAll \/ Stopped \/ Restart \/ UNCHANGED vars
  BY <1>6 DEF CancelJob, ImportCase, Crash, CancelAll, Stopped, Restart, vars, db
<1> QED BY <1>2, <1>3, <1>4, <1>5, <1>6 DEF Next

\* A job that is done, failed or cancelled stays so: neither a late thread nor
\* recover_interrupted writes its row again.
THEOREM EndedStaysEnded == Spec => TerminalIsFinal
<1>1. Inv /\ [Next]_vars =>
        \A j \in Job : rows[j] \in Terminal => rows'[j] = rows[j]
  BY StepKeepsEnded
<1> QED BY <1>1, Invariance, PTL DEF Spec, TerminalIsFinal

\* case_operation keeps its promise: until it ends, no job of the case is in
\* the pool but those it has submitted itself and the hunts that applying
\* hunt evidence tolerates.
THEOREM ExclusiveCase == Spec => []CaseOperationIsExclusive
<1>1. ASSUME Inv, NEW cl \in Clients, InCaseOperation(cl),
             NEW j \in JobsOf(client[cl].case), InQueue(j) \/ Held(j)
      PROVE  \/ client[cl].op = "analyze" /\ j \in client[cl].ids
             \/ client[cl].op = "apply" /\ kind[j] = "hunt_batch"
  <2>1. j \in Job /\ j # None
    BY JobFacts
  <2>2. j \in live
    BY <1>1, <2>1 DEF Inv, InRegistry, Held
  <2>3. client[cl].job # j
    BY <1>1, <2>1 DEF Inv, Placed
  <2> QED BY <1>1, <2>2, <2>3 DEF Inv, Exclusive, Tolerated
<1>2. Inv => CaseOperationIsExclusive
  BY <1>1 DEF CaseOperationIsExclusive
<1> QED BY <1>2, Invariance, PTL

\* A case is packed only when it is at rest: no thread works on it and no row
\* of it is pending, although the lock is not held while the jobs are drained.
THEOREM ArchiveSettled == Spec => []ArchiveIsSettled
<1>1. ASSUME Inv, NEW j \in Job, case[CaseOf(j)] = "archived"
      PROVE  ~(InQueue(j) \/ Held(j)) /\ rows[j] \notin Pending
  <2>1. j \notin live /\ rows[j] \notin Pending
    BY <1>1, JobFacts DEF Inv, Archived, Settled
  <2>2. ~InQueue(j) /\ ~Held(j)
    BY <1>1, <2>1, JobFacts DEF Inv, InRegistry, Held
  <2> QED BY <2>1, <2>2
<1>2. Inv => ArchiveIsSettled
  BY <1>1 DEF ArchiveIsSettled
<1> QED BY <1>2, Invariance, PTL

=============================================================================
