--------------------------- MODULE AnalysisProofs ---------------------------
(***************************************************************************)
(* Proofs about Analysis for any number of runs, jobs and threads, and any *)
(* registered evidence.                                                    *)
(*                                                                         *)
(* The steps of Analysis are steps of Jobs or leave its variables alone,   *)
(* or end a request or an engine as Jobs does, so the invariant of Jobs    *)
(* holds here too.  On top of it: a run is started only when no job of the *)
(* case is left (Current), its jobs are numbered in the order of its plan  *)
(* (Planned), the pool takes them in that order (Ordered), and what is     *)
(* set in `done` and `result` follows where the job is (Threads, Over).    *)
(***************************************************************************)
EXTENDS Analysis, JobsProofs

-----------------------------------------------------------------------------
(* The inductive invariant.                                                *)

Stages == {"off", "wait", "work", "record", "return"}

\* The receipt of a run: a state for each of some engines.
IsReceipt(a) ==
    /\ a \in [run : 0..runs, engines : {a.engines}]
    /\ \A e \in DOMAIN a.engines : e \in Engines /\ a.engines[e] \in States

ATypeOK ==
    /\ engine \in [Job -> Engines \cup {None}] /\ run \in [Job -> 0..runs]
    /\ result \in [Job -> {"none", "complete", "partial"}]
    /\ stage \in [Workers -> Stages] /\ done \subseteq Job
    /\ chosen \in [Runs -> SUBSET EvidenceKinds]
    /\ runs \in 0..MaxRuns /\ next \in Nat
    /\ outcome \in [Engines -> States] /\ finished \subseteq Job
    /\ \A k \in EvidenceKinds : IsReceipt(attempt[k])
    /\ scanned \in [EvidenceKinds -> 0..runs]

\* The case stays open, and only engines are submitted.
Quiet ==
    /\ \A c \in Cases : case[c] = "open"
    /\ \A j \in Job : kind[j] = "engine"
    /\ \A cl \in Clients : client[cl].pc # "idle" => client[cl].op \in {"analyze", "list"}

Inside(cl) == client[cl].pc \in {"insert", "register", "enqueue"}

\* A plan is being submitted by the request that holds the lock.
Submission ==
    /\ next > 0 => /\ runs > 0 /\ next <= Len(CurrentTasks)
                   /\ \E cl \in Clients : Inside(cl)
    /\ \A cl \in Clients : client[cl].pc \in {"register", "enqueue"} => next > 0
    /\ \A cl \in Clients : client[cl].pc = "insert" /\ next = 0 => client[cl].ids = {}

\* Whatever is still under way belongs to the current run.
Current == \A j \in Job : InFlight(j) => run[j] = runs

\* The rows are numbered without gaps, and a row has a run as soon as it is there.
Rowed ==
    /\ \A j \in Job : rows[j] = "none" <=> run[j] = 0
    /\ \A i, j \in Job : i[2] < j[2] /\ rows[j] # "none" => rows[i] # "none"

\* What is nearer to its end was submitted earlier.
Ordered ==
    /\ \A m, n \in 1..Len(queue) : m < n => queue[m][2] < queue[n][2]
    /\ \A w \in Workers, n \in 1..Len(queue) :
          worker[w].job # None => worker[w].job[2] < queue[n][2]
    /\ \A cl \in Clients : client[cl].job # None =>
          /\ \A n \in 1..Len(queue) : queue[n][2] < client[cl].job[2]
          /\ \A w \in Workers : worker[w].job # None => worker[w].job[2] < client[cl].job[2]

Correlating == {"log_events", "content_index"}

\* The jobs of a run and their engines.
Planned ==
    /\ \A j \in Job : run[j] # 0 => engine[j] \in Engines
    /\ next > 0 =>
          \A j \in Job : run[j] = runs =>
              \E m \in 1..next : engine[j] = CurrentTasks[m] /\ (m = next => BeingSubmitted(j))
    /\ \A j, d \in Job : run[j] # 0 /\ run[d] = run[j] =>
          /\ engine[d] = engine[j] => d = j
          /\ engine[d] \in DependsOn(engine[j]) => d[2] < j[2]
          /\ engine[j] \in Correlating /\ d[2] < j[2] => engine[d] \in DependsOn(engine[j])

\* What a thread has done for its job, at each step.
Fitting(errs, pc, at, over, res) ==
    /\ pc # "wait" /\ (at # "off" <=> pc = "fn")
    /\ pc = "begin" => ~over
    /\ at \in {"wait", "work"} => ~over /\ res = "none"
    /\ at \in {"record", "return"} \/ pc = "persist" => over /\ res # "none"
    /\ errs = 0 /\ pc \in {"fail", "pop"} => over

Threads ==
    \A w \in Workers :
        Fitting(errors, worker[w].pc, stage[w], worker[w].job \in done,
                IF worker[w].job = None THEN "none" ELSE result[worker[w].job])

\* A job that is over has been taken from the queue, and one that is done has
\* a result.
Over ==
    /\ \A j \in done : rows[j] # "none" /\ ~InQueue(j) /\ ~BeingSubmitted(j)
    /\ \A j \in Job : rows[j] \in {"none", "queued"} => result[j] = "none"
    /\ \A j \in Job : rows[j] = "done" => result[j] # "none"

\* An engine at work has waited for the engines it depends on.
Waited == \A w \in Workers : stage[w] = "work" => Dependencies(worker[w].job) \subseteq done

\* While a run is under way, each of its jobs is still to be taken, or some
\* thread is at it, or its event is set.
AtIt(d) == \E v \in Workers : worker[v].job = d /\ worker[v].pc \in {"begin", "fn"}
Whereabouts ==
    errors = 0 /\ (next > 0 \/ \E j \in Job : InFlight(j)) =>
        \A d \in Job : run[d] # 0 /\ run[d] = runs =>
            d \in done \/ InQueue(d) \/ BeingSubmitted(d) \/ AtIt(d)

Succeeded(r, e) == \E j \in Job : run[j] = r /\ engine[j] = e /\ result[j] = "complete"
HasJob(r, e) == \E j \in Job : run[j] = r /\ engine[j] = e
PendingIn(r) == \E j \in Job : run[j] = r /\ rows[j] \in Pending

\* What a receipt says of an engine.
Says(r, e, s) ==
    /\ s = "complete" => Succeeded(r, e)
    /\ s = "running" /\ HasJob(r, e) => PendingIn(r)

\* What the wrappers of the current run have reported.
Outcomes ==
    /\ \A e \in Engines : outcome[e] = "complete" => runs # 0 /\ Succeeded(runs, e)
    /\ \A j \in finished : runs # 0 /\ run[j] = runs /\ result[j] = "complete"

Attempted(k) ==
    attempt[k].run # 0 =>
        /\ DOMAIN attempt[k].engines = Required(k, chosen[attempt[k].run])
        /\ \A e \in DOMAIN attempt[k].engines :
              Says(attempt[k].run, e, attempt[k].engines[e])

Receipts ==
    Outcomes /\ ScannedMeansComplete /\ \A k \in EvidenceKinds : Attempted(k)

Plan == Quiet /\ Submission /\ Current /\ Rowed /\ Ordered /\ Planned

Pool == Threads /\ Over /\ Waited /\ Whereabouts

AInv == Inv /\ ATypeOK /\ Plan /\ Pool /\ Receipts

-----------------------------------------------------------------------------
(* The plan of a run: the order of its engines.                            *)

\* The place of an engine in a plan; "errorlog" has two, the late one when the
\* plan is about the webroot and no logs.
Place(late) ==
    [e \in Engines |->
        CASE e = "index_logs" -> 1
          [] e = "errorlog" -> IF late THEN 8 ELSE 2
          [] e = "sigma" -> 3 [] e = "webshell" -> 4 [] e = "cms" -> 5
          [] e = "yara" -> 6 [] e = "sqldb" -> 7
          [] e = "log_events" -> 9 [] e = "content_index" -> 10]

\* A piece of a plan with its engines at increasing places from a to b.
Piece(q, p, a, b) ==
    /\ q \in Seq(Engines)
    /\ \A n \in 1..Len(q) : a <= p[q[n]] /\ p[q[n]] <= b
    /\ \A m, n \in 1..Len(q) : m < n => p[q[m]] < p[q[n]]

LEMMA PieceJoined ==
    ASSUME NEW p \in [Engines -> Nat], NEW q, NEW s, NEW a \in Nat, NEW b \in Nat, NEW c \in Nat,
           NEW d \in Nat, Piece(q, p, a, b), Piece(s, p, c, d), a <= c, b < c, b <= d
    PROVE  Piece(q \o s, p, a, d)
<1> DEFINE t == q \o s
<1>1. /\ q \in Seq(Engines) /\ s \in Seq(Engines) /\ t \in Seq(Engines)
      /\ Len(q) \in Nat /\ Len(s) \in Nat /\ Len(t) = Len(q) + Len(s)
  BY DEF Piece
<1>2. /\ \A n \in 1..Len(q) : n \in 1..Len(t) /\ t[n] = q[n]
      /\ \A n \in 1..Len(t) : n \notin 1..Len(q) => n - Len(q) \in 1..Len(s) /\ t[n] = s[n - Len(q)]
  BY <1>1
<1>3. \A n \in 1..Len(t) : t[n] \in Engines /\ p[t[n]] \in Nat
  BY <1>1
<1> HIDE DEF t
<1>4. \A n \in 1..Len(t) : a <= p[t[n]] /\ p[t[n]] <= d
  <2> SUFFICES ASSUME NEW n \in 1..Len(t) PROVE a <= p[t[n]] /\ p[t[n]] <= d
    OBVIOUS
  <2>1. CASE n \in 1..Len(q)
    BY <1>2, <1>3, <2>1 DEF Piece
  <2>2. CASE n \notin 1..Len(q)
    <3>1. c <= p[s[n - Len(q)]] /\ p[s[n - Len(q)]] <= d
      BY <1>2, <2>2 DEF Piece
    <3> QED BY <1>2, <1>3, <2>2, <3>1
  <2> QED BY <2>1, <2>2
<1>5. ASSUME NEW m \in 1..Len(t), NEW n \in 1..Len(t), m < n
      PROVE  p[t[m]] < p[t[n]]
  <2>1. CASE n \in 1..Len(q)
    <3>1. m \in 1..Len(q)
      BY <1>1, <1>5, <2>1
    <3> QED BY <1>2, <1>5, <2>1, <3>1 DEF Piece
  <2>2. CASE n \notin 1..Len(q) /\ m \in 1..Len(q)
    <3>1. p[t[m]] <= b /\ c <= p[t[n]]
      BY <1>2, <2>2 DEF Piece
    <3> QED BY <1>3, <3>1
  <2>3. CASE n \notin 1..Len(q) /\ m \notin 1..Len(q)
    <3>1. m - Len(q) < n - Len(q)
      BY <1>1, <1>5
    <3> QED BY <1>2, <2>3, <3>1 DEF Piece
  <2> QED BY <2>1, <2>2, <2>3
<1>6. Piece(t, p, a, d)
  BY <1>1, <1>4, <1>5 DEF Piece
<1> QED BY <1>6 DEF t

LEMMA OnePiece ==
    ASSUME NEW p \in [Engines -> Nat], NEW e \in Engines, NEW c \in BOOLEAN, NEW a \in Nat,
           c => p[e] = a
    PROVE  Piece(WhenSeq(c, <<e>>), p, a, a)
BY DEF Piece, WhenSeq

\* The plan of any set of kinds has increasing places.
LEMMA PlanPlaced ==
    ASSUME NEW kinds
    PROVE  Piece(Tasks(kinds), Place(Logs(kinds) = {}), 1, 10)
<1> DEFINE p == Place(Logs(kinds) = {})
<1> DEFINE withErrors == "logs" \notin Registered
<1> DEFINE refreshErrors == Logs(kinds) = {} /\ "webroot" \in kinds /\ "access_logs" \in Registered
<1> DEFINE logs == "logs" \in Registered /\ kinds \cap {"logs", "access_logs", "webroot"} # {}
<1> DEFINE t1 == WhenSeq(Logs(kinds) # {}, <<"index_logs">>)
<1> DEFINE t2 == WhenSeq(Logs(kinds) # {} /\ withErrors, <<"errorlog">>)
<1> DEFINE t3 == WhenSeq(Logs(kinds) # {}, <<"sigma">>)
<1> DEFINE t4 == WhenSeq("webroot" \in kinds, <<"webshell", "cms">>)
<1> DEFINE t6 == WhenSeq("webroot" \in kinds /\ YaraRules, <<"yara">>)
<1> DEFINE t7 == WhenSeq("sql_dump" \in kinds, <<"sqldb">>)
<1> DEFINE t8 == WhenSeq(refreshErrors /\ withErrors, <<"errorlog">>)
<1> DEFINE t9 == WhenSeq(logs, <<"log_events">>)
<1> DEFINE t10 == WhenSeq("webroot" \in kinds, <<"content_index">>)
<1>1. /\ p \in [Engines -> Nat]
      /\ p["index_logs"] = 1 /\ p["sigma"] = 3 /\ p["webshell"] = 4 /\ p["cms"] = 5
      /\ p["yara"] = 6 /\ p["sqldb"] = 7 /\ p["log_events"] = 9 /\ p["content_index"] = 10
      /\ (Logs(kinds) # {} => p["errorlog"] = 2) /\ (Logs(kinds) = {} => p["errorlog"] = 8)
  BY DEF Place, Engines
<1>2. {"index_logs", "errorlog", "sigma", "webshell", "cms", "yara", "sqldb", "log_events",
       "content_index"} = Engines
  BY DEF Engines
<1>3. Tasks(kinds) = t1 \o t2 \o t3 \o t4 \o t6 \o t7 \o t8 \o t9 \o t10
  BY DEF Tasks
<1> HIDE DEF p
<1>4. Piece(t1, p, 1, 1) /\ Piece(t2, p, 2, 2) /\ Piece(t3, p, 3, 3)
  BY <1>1, <1>2, OnePiece
<1>5. Piece(t4, p, 4, 5)
  <2>1. p["webshell"] = 4 /\ p["cms"] = 4 + 1 /\ 4 \in Nat
        /\ "webshell" \in Engines /\ "cms" \in Engines
    BY <1>1, <1>2
  <2>2. Piece(t4, p, 4, 4 + 1)
    BY <1>1, <2>1 DEF Piece, WhenSeq
  <2> QED BY <2>2
<1>6. Piece(t6, p, 6, 6) /\ Piece(t7, p, 7, 7) /\ Piece(t8, p, 8, 8)
  <2>1. Piece(t6, p, 6, 6)
    BY <1>1, <1>2, YaraAssumption, OnePiece
  <2>2. Piece(t7, p, 7, 7)
    BY <1>1, <1>2 DEF Piece, WhenSeq
  <2>3. refreshErrors /\ withErrors => p["errorlog"] = 8
    BY <1>1
  <2>4. Piece(t8, p, 8, 8)
    BY <1>1, <1>2, <2>3, OnePiece
  <2> QED BY <2>1, <2>2, <2>4
<1>7. Piece(t9, p, 9, 9) /\ Piece(t10, p, 10, 10)
  <2>1. Piece(t9, p, 9, 9)
    BY <1>1, <1>2, OnePiece
  <2>2. Piece(t10, p, 10, 10)
    BY <1>1, <1>2 DEF Piece, WhenSeq
  <2> QED BY <2>1, <2>2
<1> HIDE DEF t1, t2, t3, t4, t6, t7, t8, t9, t10
<1>8. Piece(t1 \o t2 \o t3, p, 1, 3)
  <2>1. Piece(t1 \o t2, p, 1, 2)
    BY <1>1, <1>4, PieceJoined
  <2> QED BY <1>1, <1>4, <2>1, PieceJoined
<1>9. Piece(t1 \o t2 \o t3 \o t4, p, 1, 5)
  BY <1>1, <1>5, <1>8, PieceJoined
<1>10. Piece(t1 \o t2 \o t3 \o t4 \o t6, p, 1, 6)
  BY <1>1, <1>6, <1>9, PieceJoined
<1>11. Piece(t1 \o t2 \o t3 \o t4 \o t6 \o t7, p, 1, 7)
  BY <1>1, <1>6, <1>10, PieceJoined
<1>12. Piece(t1 \o t2 \o t3 \o t4 \o t6 \o t7 \o t8, p, 1, 8)
  BY <1>1, <1>6, <1>11, PieceJoined
<1>13. Piece(t1 \o t2 \o t3 \o t4 \o t6 \o t7 \o t8 \o t9, p, 1, 9)
  BY <1>1, <1>7, <1>12, PieceJoined
<1>14. Piece(t1 \o t2 \o t3 \o t4 \o t6 \o t7 \o t8 \o t9 \o t10, p, 1, 10)
  BY <1>1, <1>7, <1>13, PieceJoined
<1> QED BY <1>3, <1>14 DEF p

\* In every plan an engine comes once, after the engines it depends on, and the
\* engines that correlate come after all that are not behind them.
LEMMA PlanFacts ==
    ASSUME NEW kinds
    PROVE  /\ Tasks(kinds) \in Seq(Engines)
           /\ \A m, n \in 1..Len(Tasks(kinds)) :
                /\ Tasks(kinds)[m] = Tasks(kinds)[n] => m = n
                /\ Tasks(kinds)[m] \in DependsOn(Tasks(kinds)[n]) => m < n
                /\ Tasks(kinds)[n] \in Correlating /\ m < n =>
                      Tasks(kinds)[m] \in DependsOn(Tasks(kinds)[n])
           /\ \A k : Required(k, kinds) \subseteq Engines
<1> DEFINE t == Tasks(kinds)
<1> DEFINE p == Place(Logs(kinds) = {})
<1>1. /\ t \in Seq(Engines) /\ Len(t) \in Nat
      /\ \A m, n \in 1..Len(t) : m < n => p[t[m]] < p[t[n]]
  BY PlanPlaced DEF Piece
<1>2. /\ \A n \in 1..Len(t) : t[n] \in Engines
      /\ \A k : Required(k, kinds) \subseteq Engines
  BY <1>1 DEF Required, ToSet
<1>3. /\ \A e \in Engines : p[e] \in Nat
      /\ \A d, e \in Engines : d \in DependsOn(e) => p[d] < p[e]
      /\ \A d, e \in Engines : e \in Correlating /\ p[d] < p[e] => d \in DependsOn(e)
  BY DEF Place, Engines, DependsOn, Correlating
<1> HIDE DEF t, p
<1>4. ASSUME NEW m \in 1..Len(t), NEW n \in 1..Len(t)
      PROVE  /\ t[m] = t[n] => m = n
             /\ t[m] \in DependsOn(t[n]) => m < n
             /\ t[n] \in Correlating /\ m < n => t[m] \in DependsOn(t[n])
  <2>1. /\ m < n => p[t[m]] < p[t[n]]
        /\ n < m => p[t[n]] < p[t[m]]
        /\ p[t[m]] \in Nat /\ p[t[n]] \in Nat /\ t[m] \in Engines /\ t[n] \in Engines
        /\ m < n \/ n < m \/ m = n
    BY <1>1, <1>2, <1>3
  <2>2. t[m] = t[n] => m = n
    BY <2>1
  <2>3. t[m] \in DependsOn(t[n]) => m < n
    BY <1>3, <2>1
  <2>4. t[n] \in Correlating /\ m < n => t[m] \in DependsOn(t[n])
    BY <1>3, <2>1
  <2> QED BY <2>2, <2>3, <2>4
<1> QED BY <1>1, <1>2, <1>4 DEF t

-----------------------------------------------------------------------------
(* The steps of Analysis keep the invariant of Jobs.                       *)

LEMMA Parts ==
    ASSUME AInv
    PROVE  /\ Inv /\ TypeOK /\ ATypeOK
           /\ Quiet /\ Submission /\ Current /\ Rowed /\ Ordered /\ Planned
           /\ Threads /\ Over /\ Waited /\ Whereabouts
           /\ Outcomes /\ ScannedMeansComplete /\ \A k \in EvidenceKinds : Attempted(k)
BY DEF AInv, Plan, Pool, Receipts, Inv

\* There is one case.
LEMMA OneCase ==
    /\ \A i, j \in Job : CaseOf(i) = CaseOf(j) /\ (i[2] = j[2] => i = j)
    /\ \A j \in Job : j[2] \in Ids /\ j[2] \in Nat /\ j = <<j[1], j[2]>>
    /\ \A c \in Cases, j \in Job : j \in JobsOf(c)
<1>1. \A j \in Job : j[1] \in Cases /\ j[2] \in Ids /\ j[2] \in Nat /\ j = <<j[1], j[2]>>
  BY BoundsAssumption DEF Job, Ids
<1>2. \A i, j \in Job : i[1] = j[1]
  BY <1>1, CaseAssumption
<1>3. \A i, j \in Job : i[2] = j[2] => i = j
  BY <1>1, <1>2
<1>4. \A c \in Cases, j \in Job : j \in JobsOf(c)
  BY <1>1, CaseAssumption DEF JobsOf, CaseOf
<1> QED BY <1>1, <1>2, <1>3, <1>4 DEF CaseOf

LEMMA ReceiptRaisesInv == ASSUME AInv, NEW w \in Workers, ReceiptRaises(w) PROVE Inv'
<1> DEFINE j == worker[w].job
<1>1. /\ worker \in [Workers -> WorkerState] /\ worker[w] \in WorkerState
      /\ rows \in [Job -> {"none"} \cup Pending \cup Terminal] /\ errors \in 0..MaxErrors
      /\ Inv
  BY Parts DEF TypeOK
<1>2. worker[w].pc = "fn"
  BY Parts DEF ReceiptRaises, Threads, Fitting
<1>3. Fits("fail", rows[j]) /\ j \in Job
  BY <1>1, <1>2, HeldFacts DEF Fits, Pending
<1>4. errors' \in 0..MaxErrors
  BY <1>1, BoundsAssumption DEF ReceiptRaises
<1>5. /\ worker' = [worker EXCEPT ![w].pc = "fail"]
      /\ UNCHANGED <<rows, kind, waits, case, live, cancelled, queue, client, lock, mode, crashes>>
  BY DEF ReceiptRaises, db, registry
<1>6. /\ worker' \in [Workers -> WorkerState] /\ worker'[w].pc = "fail" /\ worker'[w].job = j
      /\ \A v \in Workers \ {w} : worker'[v] = worker[v]
  BY <1>1, <1>5 DEF WorkerState, WorkerPc
<1> QED BY <1>1, <1>2, <1>3, <1>4, <1>5, <1>6, ThreadGoesOn

LEMMA RejectRunInv == ASSUME AInv, NEW cl \in Clients, RejectRun(cl) PROVE Inv'
<1>1. /\ client \in [Clients -> ClientState] /\ client[cl] \in ClientState /\ Inv
      /\ OnItsWay(client[cl]) /\ IdleClient \in ClientState /\ OnItsWay(IdleClient)
      /\ case \in [Cases -> {"open", "archived", "deleted"}]
      /\ cancelled \subseteq Job /\ errors \in 0..MaxErrors
      /\ (client[cl].pc \in Locked => lock = cl)
      /\ IdleClient.pc \notin Locked
  BY Parts, ClientFacts DEF IdleClient, Locked
<1>2. client[cl].pc = "insert" /\ client[cl].job = None /\ lock = cl
  BY <1>1 DEF RejectRun, OnItsWay, Locked
<1> QED BY <1>1, <1>2, OutsideTheLock DEF RejectRun, Release, db, registry

LEMMA JobsSteps == ASSUME AInv, [ANext]_avs PROVE Inv'
<1>0. Inv
  BY Parts
<1>1. ASSUME NEW cl \in Clients, SubmitStep(cl) PROVE Inv'
  <2>1. CASE RejectRun(cl)
    BY <2>1, RejectRunInv
  <2>2. CASE StartRun(cl)
    BY <1>0, <2>2, StepInv DEF StartRun
  <2>3. CASE SubmitEngine(cl) \/ EnqueueEngine(cl) \/ SubmitFails(cl) \/ RecoverAndRefresh(cl)
    BY <1>0, <2>3, InsertInv, EnqueueInv, LeaveInv, RecoverInv
       DEF SubmitEngine, EnqueueEngine, SubmitFails, RecoverAndRefresh
  <2>4. CASE \E op \in {"analyze", "list"} \cap Ops, c \in Cases : Request(cl, op, c)
    BY <1>0, <2>4, OutsideInv
  <2>5. CASE \/ Acquire(cl) \/ Refuse(cl) \/ RecoverSnapshot(cl) \/ Register(cl) \/ Body(cl)
    BY <1>0, <2>5, AcquireInv, OutsideInv, SnapshotInv, RegisterInv, LeaveInv
  <2> QED BY <1>1, <2>1, <2>2, <2>3, <2>4, <2>5 DEF SubmitStep
<1>2. ASSUME NEW w \in Workers, EngineStep(w) PROVE Inv'
  <2>1. CASE ReceiptRaises(w)
    BY <2>1, ReceiptRaisesInv
  <2>2. CASE WaitOver(w) \/ WaitCancelled(w) \/ EngineWorks(w) \/ WriteReceipt(w)
    BY <1>0, <2>2, StepInv DEF WaitOver, WaitCancelled, EngineWorks, WriteReceipt, Returns
  <2>3. CASE \/ BeginEngine(w) \/ CancelEngine(w) \/ EngineFails(w) \/ EngineDone(w)
             \/ PersistAndRefresh(w) \/ StateWriteFails(w)
    BY <1>0, <2>3, RunInv DEF BeginEngine, CancelEngine, EngineFails, EngineDone,
       PersistAndRefresh, StateWriteFails
  <2>4. CASE Untouched(w)
    BY <1>0, <2>4, TakeInv, RunInv, PopInv DEF Untouched
  <2> QED BY <1>2, <2>1, <2>2, <2>3, <2>4 DEF EngineStep
<1>3. CASE \E j \in Job : CancelJob(j) /\ UNCHANGED avars
  BY <1>0, <1>3, ProcessInv
<1>4. CASE ACrash
  BY <1>0, <1>4, CrashInv DEF ACrash
<1>5. CASE UNCHANGED avs
  BY <1>0, <1>5, StepInv DEF avs
<1> QED BY <1>1, <1>2, <1>3, <1>4, <1>5 DEF ANext

-----------------------------------------------------------------------------
(* Pool threads.                                                           *)

\* A thread goes on with its job.
GoesOn(w) ==
    LET j == worker[w].job IN
    /\ worker[w].pc # "idle" /\ worker'[w].pc # "idle" /\ worker'[w].job = j
    /\ \A v \in Workers \ {w} : worker'[v] = worker[v] /\ stage'[v] = stage[v]
    /\ \A i \in Job \ {j} : rows'[i] = rows[i] /\ result'[i] = result[i]
    /\ rows'[j] \in Pending \cup Terminal /\ done' \in {done, done \cup {j}}
    /\ (rows'[j] = "queued" => result'[j] = "none") /\ (rows'[j] = "done" => result'[j] # "none")
    /\ (stage'[w] = "work" => stage[w] = "work" \/ Dependencies(j) \subseteq done)
    /\ (errors' = 0 => errors = 0) /\ worker'[w].pc \in WorkerPc
    /\ Fitting(errors', worker'[w].pc, stage'[w], j \in done', result'[j])
    /\ UNCHANGED <<kind, case, queue, client, engine, run, chosen, runs, next>>

LEMMA GoesOnPlan ==
    ASSUME AInv, NEW w \in Workers, GoesOn(w)
    PROVE  /\ Plan'
           /\ \A i : (InQueue(i)' <=> InQueue(i)) /\ (BeingSubmitted(i)' <=> BeingSubmitted(i))
                           /\ (InFlight(i)' <=> InFlight(i))
<1> DEFINE j == worker[w].job
<1>1. /\ worker[w].pc # "idle" /\ worker'[w].job = j
      /\ \A v \in Workers \ {w} : worker'[v] = worker[v]
      /\ \A i \in Job \ {j} : rows'[i] = rows[i]
      /\ rows'[j] \in Pending \cup Terminal
      /\ UNCHANGED <<kind, case, queue, client, engine, run, chosen, runs, next>>
  BY DEF GoesOn
<1>2. /\ j \in Job /\ rows[j] # "none" /\ rows'[j] # "none"
  BY <1>1, Parts, HeldFacts DEF TypeOK, Fits, WorkerPc, WorkerState, Pending, Terminal
<1>3. /\ \A v \in Workers : worker'[v].job = worker[v].job
      /\ \A i : (InQueue(i)' <=> InQueue(i)) /\ (BeingSubmitted(i)' <=> BeingSubmitted(i))
  BY <1>1 DEF InQueue, BeingSubmitted
<1>4. \A i : InFlight(i)' <=> InFlight(i)
  BY <1>3 DEF InFlight, Held
<1>5. Quiet' /\ Submission' /\ Planned'
  BY <1>1, <1>3, Parts DEF Quiet, Submission, Planned, Inside, CurrentTasks
<1>6. Current'
  BY <1>1, <1>4, Parts DEF Current
<1>7. Rowed'
  BY <1>1, <1>2, Parts DEF Rowed
<1>8. Ordered'
  BY <1>1, <1>3, Parts DEF Ordered
<1> QED BY <1>3, <1>4, <1>5, <1>6, <1>7, <1>8 DEF Plan

LEMMA GoesOnPool ==
    ASSUME AInv, NEW w \in Workers, GoesOn(w)
    PROVE  Pool'
<1> DEFINE j == worker[w].job
<1>1. /\ worker[w].pc # "idle" /\ worker'[w].pc # "idle" /\ worker'[w].job = j
      /\ \A v \in Workers \ {w} : worker'[v] = worker[v] /\ stage'[v] = stage[v]
      /\ \A i \in Job \ {j} : rows'[i] = rows[i] /\ result'[i] = result[i]
      /\ rows'[j] \in Pending \cup Terminal /\ done' \in {done, done \cup {j}}
      /\ (rows'[j] = "queued" => result'[j] = "none")
      /\ (rows'[j] = "done" => result'[j] # "none")
      /\ (stage'[w] = "work" => stage[w] = "work" \/ Dependencies(j) \subseteq done)
      /\ (errors' = 0 => errors = 0) /\ worker'[w].pc \in WorkerPc
      /\ Fitting(errors', worker'[w].pc, stage'[w], j \in done', result'[j])
      /\ UNCHANGED <<kind, case, queue, client, engine, run, chosen, runs, next>>
  BY DEF GoesOn
<1>2. /\ j \in Job /\ j # None /\ ~InQueue(j) /\ ~BeingSubmitted(j)
      /\ \A v \in Workers \ {w} : worker[v].job # j
      /\ rows'[j] # "none" /\ done \subseteq done'
      /\ \A v \in Workers : worker[v].job # None => worker[v].job \in Job
  BY <1>1, Parts, HeldFacts
     DEF BeingSubmitted, Inv, Placed, Pending, Terminal, TypeOK, WorkerState
<1>3. /\ \A i : (InQueue(i)' <=> InQueue(i)) /\ (BeingSubmitted(i)' <=> BeingSubmitted(i))
                /\ (InFlight(i)' <=> InFlight(i))
  BY GoesOnPlan
<1>4. Threads'
  <2>1. ASSUME NEW v \in Workers \ {w}
        PROVE  Fitting(errors', worker'[v].pc, stage'[v], worker'[v].job \in done',
                   IF worker'[v].job = None THEN "none" ELSE result'[worker'[v].job])
    <3> DEFINE i == worker[v].job
    <3>1. Fitting(errors, worker[v].pc, stage[v], i \in done,
                  IF i = None THEN "none" ELSE result[i])
      BY Parts DEF Threads
    <3>2. worker'[v] = worker[v] /\ stage'[v] = stage[v] /\ (i \in done' <=> i \in done)
      BY <1>1, <1>2
    <3>3. i # None => result'[i] = result[i]
      BY <1>1, <1>2
    <3> QED BY <1>1, <3>1, <3>2, <3>3 DEF Fitting
  <2> QED BY <1>1, <1>2, <2>1 DEF Threads
<1>5. Over'
  <2>1. done \subseteq Job /\ Over
    BY Parts DEF ATypeOK
  <2>2. \A i \in done' : rows'[i] # "none" /\ ~InQueue(i)' /\ ~BeingSubmitted(i)'
    BY <1>1, <1>2, <1>3, <2>1 DEF Over
  <2>3. \A i \in Job : /\ rows'[i] \in {"none", "queued"} => result'[i] = "none"
                       /\ rows'[i] = "done" => result'[i] # "none"
    BY <1>1, <1>2, <2>1 DEF Over
  <2> QED BY <2>2, <2>3 DEF Over
<1>6. Waited'
  <2>1. \A i : Dependencies(i)' = Dependencies(i)
    BY <1>1 DEF Dependencies, Siblings
  <2> QED BY <1>1, <1>2, <2>1, Parts DEF Waited
<1>7. Whereabouts'
  <2>1. ASSUME errors' = 0, worker'[w].pc \notin {"begin", "fn"}
        PROVE  j \in done'
    BY <1>1, <2>1 DEF Fitting, WorkerPc
  <2>2. errors' = 0 => \A d : AtIt(d) => d \in done' \/ AtIt(d)'
    BY <1>1, <2>1 DEF AtIt
  <2> QED BY <1>1, <1>2, <1>3, <2>2, Parts DEF Whereabouts
<1> QED BY <1>4, <1>5, <1>6, <1>7 DEF Pool

\* What is known of a thread that has a job.
LEMMA AtWork ==
    ASSUME AInv, NEW w \in Workers, NEW j, j = worker[w].job,
           worker[w].pc # "idle" \/ stage[w] # "off"
    PROVE  /\ worker \in [Workers -> WorkerState] /\ stage \in [Workers -> Stages]
           /\ rows \in [Job -> {"none"} \cup Pending \cup Terminal]
           /\ result \in [Job -> {"none", "complete", "partial"}]
           /\ worker[w].pc # "idle" /\ worker[w].out \in Terminal
           /\ j \in Job /\ j # None /\ Fits(worker[w].pc, rows[j]) /\ rows[j] # "none"
           /\ Fitting(errors, worker[w].pc, stage[w], j \in done, result[j])
           /\ run[j] = runs /\ runs # 0 /\ engine[j] \in Engines /\ kind[j] = "engine"
           /\ case[CaseOf(j)] = "open" /\ errors \in Nat
           /\ (result[j] # "none" => rows[j] # "queued")
<1>1. /\ worker \in [Workers -> WorkerState] /\ stage \in [Workers -> Stages]
      /\ rows \in [Job -> {"none"} \cup Pending \cup Terminal]
      /\ result \in [Job -> {"none", "complete", "partial"}] /\ run \in [Job -> 0..runs]
      /\ errors \in Nat /\ worker[w].out \in Terminal /\ worker[w].pc \in WorkerPc
  BY Parts, BoundsAssumption DEF TypeOK, ATypeOK, WorkerState
<1>2. worker[w].pc # "idle"
  BY Parts DEF Threads, Fitting
<1>3. j \in Job /\ j # None /\ Held(j) /\ Fits(worker[w].pc, rows[j])
  BY <1>2, Parts, HeldFacts
<1>4. rows[j] # "none"
  BY <1>1, <1>2, <1>3 DEF Fits, WorkerPc, Pending
<1>5. run[j] = runs /\ runs # 0 /\ engine[j] \in Engines
  BY <1>3, <1>4, Parts DEF Current, InFlight, Rowed, Planned
<1>6. Fitting(errors, worker[w].pc, stage[w], j \in done, result[j])
  BY <1>3, Parts DEF Threads
<1>7. kind[j] = "engine" /\ case[CaseOf(j)] = "open"
  BY <1>3, Parts, JobFacts DEF Quiet
<1>8. result[j] # "none" => rows[j] # "queued"
  BY <1>3, Parts DEF Over
<1> QED BY <1>1, <1>2, <1>3, <1>4, <1>5, <1>6, <1>7, <1>8

\* The steps of a thread between taking a job and giving it up.
LEMMA EngineGoesOn ==
    ASSUME AInv, NEW w \in Workers,
           \/ BeginEngine(w) \/ CancelEngine(w) \/ WaitOver(w) \/ WaitCancelled(w)
           \/ EngineWorks(w) \/ EngineFails(w) \/ WriteReceipt(w) \/ ReceiptRaises(w)
           \/ EngineDone(w) \/ PersistAndRefresh(w) \/ StateWriteFails(w)
           \/ FailureLost(w) /\ UNCHANGED avars
    PROVE  GoesOn(w)
<1> DEFINE j == worker[w].job
<1>0. worker[w].pc # "idle" \/ stage[w] # "off"
  BY DEF BeginEngine, CancelEngine, WaitOver, WaitCancelled, EngineWorks, EngineFails,
     WriteReceipt, ReceiptRaises, EngineDone, PersistAndRefresh, StateWriteFails, FailureLost,
     Begin, BeginCancelled, Persist, PersistFailure, StateWriteRaises
<1>1. /\ worker \in [Workers -> WorkerState] /\ worker[w] \in WorkerState
      /\ stage \in [Workers -> Stages]
      /\ rows \in [Job -> {"none"} \cup Pending \cup Terminal]
      /\ result \in [Job -> {"none", "complete", "partial"}]
      /\ worker[w].pc # "idle" /\ worker[w].pc \in WorkerPc /\ worker[w].out \in Terminal
      /\ j \in Job /\ j # None /\ Fits(worker[w].pc, rows[j]) /\ rows[j] # "none"
      /\ Fitting(errors, worker[w].pc, stage[w], j \in done, result[j])
      /\ kind[j] = "engine" /\ case[CaseOf(j)] = "open" /\ errors \in Nat
      /\ (result[j] # "none" => rows[j] # "queued")
  BY <1>0, AtWork DEF WorkerState
<1>2. CASE BeginEngine(w)
  BY <1>1, <1>2 DEF GoesOn, BeginEngine, Begin, Started, SetState, Fits, Fitting, plan, registry,
     process, receipts, evidence, Pending, Terminal, WorkerPc, WorkerState
<1>3. CASE CancelEngine(w)
  BY <1>1, <1>3 DEF GoesOn, CancelEngine, BeginCancelled, JobOf, SetState, Fits, Fitting, plan,
     registry, process, Pending, Terminal, WorkerPc, WorkerState
<1>4. CASE WaitOver(w)
  BY <1>1, <1>4 DEF GoesOn, WaitOver, JobOf, Fits, Fitting, plan, vars, Pending, Terminal, WorkerPc
<1>5. CASE WaitCancelled(w) \/ EngineWorks(w)
  <2>1. PICK res \in {"complete", "partial"} : stage[w] \in {"wait", "work"} /\ Returns(w, res)
    BY <1>5 DEF WaitCancelled, EngineWorks
  <2> QED BY <1>1, <2>1 DEF GoesOn, Returns, JobOf, Fits, Fitting, vars, Pending, Terminal, WorkerPc
<1>6. CASE EngineFails(w)
  BY <1>1, <1>6 DEF GoesOn, EngineFails, EngineRaises, JobOf, Fits, Fitting, plan, db, registry,
     process, Pending, Terminal, WorkerPc, WorkerState
<1>7. CASE WriteReceipt(w)
  BY <1>1, <1>7 DEF GoesOn, WriteReceipt, Fits, Fitting, plan, vars, Pending, Terminal, WorkerPc
<1>8. CASE ReceiptRaises(w)
  BY <1>1, <1>8 DEF GoesOn, ReceiptRaises, Fits, Fitting, plan, db, registry, Pending, Terminal,
     WorkerPc, WorkerState
<1>9. CASE EngineDone(w)
  BY <1>1, <1>9 DEF GoesOn, EngineDone, EngineReturns, Fits, Fitting, plan, db, registry, process,
     Pending, Terminal, WorkerPc, WorkerState
<1>10. CASE PersistAndRefresh(w)
  BY <1>1, <1>10 DEF GoesOn, PersistAndRefresh, Persist, PersistFailure, SetState, Fits, Fitting,
     plan, registry, process, Pending, Terminal, WorkerPc, WorkerState
<1>11. CASE StateWriteFails(w)
  BY <1>1, <1>11 DEF GoesOn, StateWriteFails, StateWriteRaises, WriteFails, JobOf, Fits, Fitting,
     plan, db, registry, Pending, Terminal, WorkerPc, WorkerState
<1>12. CASE FailureLost(w) /\ UNCHANGED avars
  BY <1>1, <1>12 DEF GoesOn, FailureLost, WriteFails, Fits, Fitting, avars, db, registry, Pending,
     Terminal, WorkerPc, WorkerState
<1> QED BY <1>2, <1>3, <1>4, <1>5, <1>6, <1>7, <1>8, <1>9, <1>10, <1>11, <1>12

-----------------------------------------------------------------------------
(* Request threads.                                                        *)

\* What is known of a request thread.
LEMMA AtRequest ==
    ASSUME AInv, NEW cl \in Clients
    PROVE  /\ client \in [Clients -> ClientState] /\ client[cl] \in ClientState
           /\ OnItsWay(client[cl]) /\ None \notin Clients
           /\ (client[cl].pc \in Locked <=> lock = cl)
           /\ (client[cl].pc # "idle" => client[cl].op \in {"analyze", "list"})
           /\ (Inside(cl) => \A d \in Clients \ {cl} : ~Inside(d) /\ client[d].job = None)
           /\ (Inside(cl) => client[cl].op = "analyze" /\ lock = cl)
           /\ (client[cl].pc \in {"register", "enqueue"} => next > 0)
           /\ next \in Nat
<1>1. /\ client \in [Clients -> ClientState] /\ client[cl] \in ClientState
      /\ OnItsWay(client[cl]) /\ None \notin Clients
      /\ (client[cl].pc \in Locked <=> lock = cl)
      /\ (client[cl].pc # "idle" => client[cl].op \in {"analyze", "list"})
      /\ next \in Nat
      /\ (client[cl].pc \in {"register", "enqueue"} => next > 0)
  BY Parts, NoneAssumption DEF TypeOK, Inv, Requests, Locking, Quiet, Submission, ATypeOK
<1>2. Inside(cl) => \A d \in Clients \ {cl} : ~Inside(d) /\ client[d].job = None
  BY Parts, HolderIsAlone DEF Inside, Locked
<1>3. Inside(cl) => /\ client[cl].pc \in Locked /\ client[cl].pc # "idle"
                    /\ client[cl].op \in SubmitOps
  BY <1>1 DEF Inside, OnItsWay, Locked
<1> QED BY <1>1, <1>2, <1>3 DEF SubmitOps

\* A request goes on, or ends, without submitting a job; recovery may have
\* marked rows on the way.
LEMMA RequestGoesOn ==
    ASSUME AInv, NEW cl \in Clients, client' \in [Clients -> ClientState],
           \A d \in Clients \ {cl} : client'[d] = client[d],
           client'[cl].job = client[cl].job,
           client'[cl].pc # "idle" => client'[cl].op \in {"analyze", "list"},
           \A j \in Job : /\ rows'[j] = "none" <=> rows[j] = "none"
                          /\ rows'[j] = "queued" => rows[j] = "queued"
                          /\ rows'[j] = "done" => rows[j] = "done",
           \/ next' = next /\ (Inside(cl) => Inside(cl)')
           \/ next' = 0 /\ \A d \in Clients \ {cl} : ~Inside(d),
           client'[cl].pc \in {"register", "enqueue"} => next' > 0,
           client'[cl].pc = "insert" /\ next' = 0 => client'[cl].ids = {},
           errors' = 0 => errors = 0,
           UNCHANGED <<kind, case, queue, worker, stage, done, engine, run, result, chosen, runs>>
    PROVE  Plan' /\ Pool'
<1>1. \A d \in Clients : client'[d].job = client[d].job
  OBVIOUS
<1>2. \A i : /\ InQueue(i)' <=> InQueue(i)
             /\ Held(i)' <=> Held(i)
             /\ BeingSubmitted(i)' <=> BeingSubmitted(i)
             /\ InFlight(i)' <=> InFlight(i)
  BY <1>1 DEF InQueue, Held, BeingSubmitted, InFlight
<1>3. next' > 0 => next' = next /\ next > 0
  OBVIOUS
<1>4. Quiet'
  BY Parts DEF Quiet
<1>5. Submission'
  <2>1. ASSUME next' > 0
        PROVE  runs' > 0 /\ next' <= Len(CurrentTasks') /\ \E d \in Clients : Inside(d)'
    <3>1. next' = next /\ runs > 0 /\ next <= Len(CurrentTasks) /\ CurrentTasks' = CurrentTasks
      BY <1>3, <2>1, Parts DEF Submission, CurrentTasks
    <3>2. PICK d \in Clients : Inside(d)
      BY <1>3, <2>1, Parts DEF Submission
    <3>3. \E c \in Clients : Inside(c)'
      BY <2>1, <3>1, <3>2 DEF Inside
    <3> QED BY <3>1, <3>3
  <2>2. ASSUME NEW d \in Clients
        PROVE  /\ client'[d].pc \in {"register", "enqueue"} => next' > 0
               /\ client'[d].pc = "insert" /\ next' = 0 => client'[d].ids = {}
    BY Parts DEF Submission, Inside
  <2> QED BY <2>1, <2>2 DEF Submission
<1>6. Current' /\ Rowed'
  BY <1>2, Parts DEF Current, Rowed
<1>7. Ordered'
  BY <1>1, Parts DEF Ordered
<1>8. Planned'
  BY <1>2, <1>3, Parts DEF Planned, CurrentTasks
<1>9. Threads'
  BY Parts DEF Threads, Fitting
<1>10. Over'
  BY <1>2, Parts DEF Over, ATypeOK
<1>11. Waited'
  BY Parts DEF Waited, Dependencies, Siblings
<1>12. Whereabouts'
  BY <1>2, <1>3, Parts DEF Whereabouts, AtIt
<1> QED BY <1>4, <1>5, <1>6, <1>7, <1>8, <1>9, <1>10, <1>11, <1>12 DEF Plan, Pool

\* The requests that leave the state of the analysis alone.
LEMMA RequestSteps ==
    ASSUME AInv, Inv', NEW cl \in Clients, UNCHANGED avars,
           \/ \E op \in {"analyze", "list"} \cap Ops, c \in Cases : Request(cl, op, c)
           \/ Acquire(cl) \/ Refuse(cl) \/ RecoverSnapshot(cl) \/ Register(cl)
           \/ (client[cl].op = "list" /\ Body(cl))
    PROVE  Plan' /\ Pool'
<1>0. /\ client \in [Clients -> ClientState] /\ client[cl] \in ClientState
      /\ OnItsWay(client[cl]) /\ client' \in [Clients -> ClientState]
      /\ (client[cl].pc # "idle" => client[cl].op \in {"analyze", "list"})
      /\ (client[cl].pc \in {"register", "enqueue"} => next > 0)
      /\ next' = next /\ IdleClient.pc = "idle" /\ IdleClient.job = None
      /\ UNCHANGED <<stage, done, engine, run, result, chosen, runs>>
  BY AtRequest DEF Inv, TypeOK, IdleClient, avars
<1>1. CASE \E op \in {"analyze", "list"} \cap Ops, c \in Cases : Request(cl, op, c)
  <2>1. PICK op \in {"analyze", "list"}, c \in Cases : Request(cl, op, c)
    BY <1>1
  <2>2. /\ client[cl].pc = "idle" /\ client[cl].job = None /\ ~Inside(cl)
        /\ client'[cl] = [pc |-> "acquire", op |-> op, case |-> c, job |-> None, ids |-> {}]
        /\ \A d \in Clients \ {cl} : client'[d] = client[d]
        /\ UNCHANGED <<rows, kind, case, queue, worker, errors>>
    BY <1>0, <2>1 DEF Request, OnItsWay, Inside, db, registry, process
  <2> QED BY <1>0, <2>2, RequestGoesOn
<1>2. CASE Acquire(cl)
  <2>1. client[cl].op \in {"analyze", "list"}
    BY <1>0, <1>2 DEF Acquire, MayEnter
  <2>2. /\ client'[cl].job = client[cl].job /\ client'[cl].op = client[cl].op
        /\ client'[cl].pc = "recover" /\ ~Inside(cl)
        /\ \A d \in Clients \ {cl} : client'[d] = client[d]
        /\ UNCHANGED <<rows, kind, case, queue, worker, errors>>
    BY <1>0, <1>2, <2>1 DEF Acquire, MayEnter, Inside, CaseOps, db, registry, ClientState
  <2> QED BY <1>0, <2>1, <2>2, RequestGoesOn
<1>3. CASE Refuse(cl)
  <2>1. /\ client[cl].job = None /\ client'[cl] = IdleClient /\ ~Inside(cl)
        /\ \A d \in Clients \ {cl} : client'[d] = client[d]
        /\ UNCHANGED <<rows, kind, case, queue, worker, errors>>
    BY <1>0, <1>3 DEF Refuse, MayEnter, Inside, OnItsWay, db, registry, process
  <2> QED BY <1>0, <2>1, RequestGoesOn
<1>4. CASE RecoverSnapshot(cl)
  <2>1. /\ client'[cl].job = client[cl].job /\ client'[cl].op = client[cl].op
        /\ client[cl].pc = "recover" /\ client'[cl].pc = "interrupt" /\ ~Inside(cl)
        /\ \A d \in Clients \ {cl} : client'[d] = client[d]
        /\ UNCHANGED <<rows, kind, case, queue, worker, errors>>
    BY <1>0, <1>4 DEF RecoverSnapshot, Inside, db, registry, process, ClientState
  <2> QED BY <1>0, <2>1, RequestGoesOn
<1>5. CASE Register(cl)
  <2>1. /\ client'[cl].job = client[cl].job /\ client'[cl].op = client[cl].op
        /\ client[cl].pc = "register" /\ client'[cl].pc = "enqueue" /\ Inside(cl)'
        /\ \A d \in Clients \ {cl} : client'[d] = client[d]
        /\ UNCHANGED <<rows, kind, case, queue, worker, errors>>
    BY <1>0, <1>5 DEF Register, Inside, db, process, ClientState
  <2> QED BY <1>0, <2>1, RequestGoesOn
<1>6. CASE client[cl].op = "list" /\ Body(cl)
  <2>1. /\ client[cl].job = None /\ client'[cl] = IdleClient /\ ~Inside(cl)
        /\ \A d \in Clients \ {cl} : client'[d] = client[d]
        /\ UNCHANGED <<rows, kind, case, queue, worker, errors>>
    BY <1>0, <1>6 DEF Body, Release, Inside, OnItsWay, registry
  <2> QED BY <1>0, <2>1, RequestGoesOn
<1> QED BY <1>1, <1>2, <1>3, <1>4, <1>5, <1>6

\* The requests that recover the rows, or end the submission of a plan.
LEMMA SubmissionEnds ==
    ASSUME AInv, Inv', NEW cl \in Clients,
           SubmitFails(cl) \/ RejectRun(cl) \/ RecoverAndRefresh(cl)
    PROVE  Plan' /\ Pool'
<1>0. /\ client \in [Clients -> ClientState] /\ client[cl] \in ClientState
      /\ OnItsWay(client[cl]) /\ client' \in [Clients -> ClientState]
      /\ (client[cl].pc # "idle" => client[cl].op \in {"analyze", "list"})
      /\ (client[cl].pc \in {"register", "enqueue"} => next > 0)
      /\ next \in Nat /\ IdleClient.pc = "idle" /\ IdleClient.job = None
      /\ errors \in Nat
  BY AtRequest, Parts, BoundsAssumption DEF Inv, TypeOK, IdleClient
<1>1. CASE SubmitFails(cl) \/ RejectRun(cl)
  <2>1. /\ client[cl].pc \in {"interrupt", "insert"} /\ client[cl].job = None
        /\ client'[cl] = IdleClient /\ \A d \in Clients \ {cl} : client'[d] = client[d]
        /\ next' = 0 /\ (errors' = 0 => errors = 0)
        /\ UNCHANGED <<rows, kind, case, queue, worker, stage, done, engine, run, result,
                       chosen, runs>>
    BY <1>0, <1>1 DEF SubmitFails, RejectRun, RequestFails, OutOfIds, Release, OnItsWay, db,
       registry, avars
  <2>2. \A d \in Clients \ {cl} : ~Inside(d)
    BY <2>1, Parts, HolderIsAlone DEF Inside, Locked
  <2> QED BY <1>0, <2>1, <2>2, RequestGoesOn
<1>2. CASE RecoverAndRefresh(cl)
  <2>1. /\ client[cl].pc = "interrupt" /\ client'[cl].job = client[cl].job /\ ~Inside(cl)
        /\ client'[cl].op = client[cl].op /\ client'[cl].ids = {}
        /\ client'[cl].pc \in {"insert", "body"}
        /\ \A d \in Clients \ {cl} : client'[d] = client[d]
        /\ next' = next
        /\ UNCHANGED <<kind, case, queue, worker, errors, stage, done, engine, run, result,
                       chosen, runs>>
    BY <1>0, <1>2 DEF RecoverAndRefresh, RecoverInterrupted, AfterRecovery, Inside, registry,
       process, plan, ClientState
  <2>2. \A j \in Job : /\ rows'[j] = "none" <=> rows[j] = "none"
                       /\ rows'[j] = "queued" => rows[j] = "queued"
                       /\ rows'[j] = "done" => rows[j] = "done"
    BY <1>2 DEF RecoverAndRefresh, RecoverInterrupted, Stale, Pending
  <2> QED BY <1>0, <2>1, <2>2, RequestGoesOn
<1> QED BY <1>1, <1>2

\* A cancellation changes nothing of this.
LEMMA CancelStep ==
    ASSUME AInv, NEW j \in Job, CancelJob(j), UNCHANGED avars
    PROVE  Plan' /\ Pool'
<1>1. UNCHANGED <<rows, kind, case, queue, worker, client, errors, avars>>
  BY DEF CancelJob, db, process
<1>2. Plan'
  BY <1>1, Parts DEF Plan, Quiet, Submission, Current, Rowed, Ordered, Planned, Inside, InFlight,
     InQueue, Held, BeingSubmitted, CurrentTasks, avars
<1>3. Pool'
  BY <1>1, Parts DEF Pool, Threads, Over, Waited, Whereabouts, AtIt, Dependencies, Siblings,
     Fitting, InFlight, InQueue, Held, BeingSubmitted, avars
<1> QED BY <1>2, <1>3

-----------------------------------------------------------------------------
(* The start of a run and its submission.                                  *)

\* Before a plan is recorded, no job is on its way.
LEMMA NothingIsLeft ==
    ASSUME AInv, NEW cl \in Clients, client[cl].pc = "insert", next = 0
    PROVE  \A j \in Job : ~InFlight(j)
<1>1. /\ client[cl] \in ClientState /\ client[cl].op = "analyze" /\ client[cl].ids = {}
      /\ client[cl].job = None /\ client[cl].case \in Cases
      /\ \A d \in Clients \ {cl} : client[d].job = None
  BY AtRequest, Parts DEF Inside, Submission, OnItsWay
<1>2. \A j \in Job : j \notin live
  BY <1>1, Parts, OneCase DEF Inv, Exclusive, InCaseOperation, Tolerated, CaseOps
<1>3. \A j \in Job : ~InQueue(j) /\ ~Held(j)
  BY <1>2, Parts, JobFacts DEF Inv, InRegistry, Held
<1>4. \A j \in Job : ~BeingSubmitted(j)
  BY <1>1, JobFacts DEF BeingSubmitted
<1> QED BY <1>3, <1>4 DEF InFlight

LEMMA StartStep ==
    ASSUME AInv, NEW cl \in Clients, StartRun(cl)
    PROVE  Plan' /\ Pool'
<1>0. PICK kinds : /\ Tasks(kinds) # <<>> /\ kinds \in SUBSET EvidenceKinds
                   /\ chosen' = [chosen EXCEPT ![runs + 1] = kinds]
  BY RegisteredAssumption DEF StartRun, Logs, EvidenceKinds
<1>1. /\ client[cl].pc = "insert" /\ next = 0 /\ next' = 1 /\ runs' = runs + 1
      /\ runs \in Nat /\ runs + 1 \in Runs /\ chosen \in [Runs -> SUBSET EvidenceKinds]
      /\ run \in [Job -> 0..runs]
      /\ UNCHANGED <<rows, kind, case, queue, worker, client, errors, stage, done, engine, run,
                     result>>
  BY Parts, RunsAssumption DEF StartRun, ATypeOK, Runs, vars
<1>2. \A j \in Job : ~InFlight(j) /\ ~InFlight(j)' /\ run[j] # runs'
  BY <1>1, NothingIsLeft DEF InFlight, InQueue, Held, BeingSubmitted
<1>3. Quiet' /\ Rowed' /\ Ordered'
  BY <1>1, Parts DEF Quiet, Rowed, Ordered
<1>4. Submission'
  <2>1. CurrentTasks' = Tasks(kinds) /\ Tasks(kinds) \in Seq(Engines)
    BY <1>0, <1>1, PlanFacts DEF CurrentTasks
  <2>2. next' <= Len(CurrentTasks')
    BY <1>0, <1>1, <2>1
  <2> QED BY <1>1, <2>2 DEF Submission, Inside
<1>5. Current'
  BY <1>2 DEF Current
<1>6. Planned'
  BY <1>1, <1>2, Parts DEF Planned
<1>7. Threads' /\ Over' /\ Waited'
  BY <1>1, Parts DEF Threads, Fitting, Over, Waited, Dependencies, Siblings, InQueue, BeingSubmitted
<1>8. Whereabouts'
  BY <1>1, <1>2 DEF Whereabouts
<1> QED BY <1>3, <1>4, <1>5, <1>6, <1>7, <1>8 DEF Plan, Pool

\* A job that is somewhere has a row.
LEMMA PlacedHasRow ==
    ASSUME AInv
    PROVE  \A j \in Job : InFlight(j) \/ j \in done => rows[j] # "none"
<1>1. \A w \in Workers : worker[w].job # None => rows[worker[w].job] # "none"
  BY Parts, AtWork DEF Inv, Placed
<1> QED BY <1>1, Parts, JobFacts DEF Inv, RowsFollow, InFlight, Held, BeingSubmitted, Over

LEMMA SubmitStepPlan ==
    ASSUME AInv, NEW cl \in Clients, SubmitEngine(cl)
    PROVE  Plan' /\ Pool'
<1>0. PICK j \in Job :
        /\ IsNextId(j)
        /\ rows' = [rows EXCEPT ![j] = "queued"]
        /\ kind' = [kind EXCEPT ![j] = KindOf(client[cl].op)]
        /\ client' = [client EXCEPT ![cl].pc = "register", ![cl].job = j]
  BY JobFacts DEF SubmitEngine, InsertRow
<1> DEFINE t == CurrentTasks[next]
<1>1. /\ client[cl].pc = "insert" /\ next > 0 /\ next \in Nat /\ runs > 0 /\ runs \in Nat
      /\ next \in 1..Len(CurrentTasks)
      /\ client \in [Clients -> ClientState] /\ client[cl] \in ClientState
      /\ client[cl].op = "analyze" /\ client[cl].job = None /\ Inside(cl)
      /\ \A d \in Clients \ {cl} : client[d].job = None /\ ~Inside(d)
      /\ rows \in [Job -> {"none"} \cup Pending \cup Terminal]
      /\ kind \in [Job -> Kinds] /\ run \in [Job -> 0..runs]
      /\ engine \in [Job -> Engines \cup {None}]
      /\ UNCHANGED <<case, queue, worker, errors, stage, done, result, chosen, runs, next>>
  BY AtRequest, Parts DEF SubmitEngine, InsertRow, Inside, OnItsWay, Submission, ATypeOK, TypeOK,
     registry, process
<1>2. /\ client'[cl].job = j /\ client'[cl].op = "analyze" /\ client'[cl].pc = "register"
      /\ \A d \in Clients \ {cl} : client'[d] = client[d]
  BY <1>0, <1>1 DEF ClientState
<1>3. /\ engine' = [engine EXCEPT ![j] = t] /\ run' = [run EXCEPT ![j] = runs]
  BY <1>2 DEF SubmitEngine
<1>4. /\ rows[j] = "none" /\ rows' = [rows EXCEPT ![j] = "queued"]
      /\ kind' = [kind EXCEPT ![j] = "engine"] /\ run[j] = 0 /\ j # None
      /\ \A i \in Job : rows[i] # "none" => i[2] < j[2]
      /\ \A i \in Job : i[2] < j[2] => rows[i] # "none"
  <2>1. \A i \in Job : i[2] < j[2] => i[2] \in 1..(j[2] - 1) /\ i = <<CaseOf(j), i[2]>>
    BY OneCase DEF CaseOf, Ids
  <2>2. \A i \in Job : i[2] < j[2] \/ i = j \/ j[2] < i[2]
    BY OneCase
  <2> QED BY <1>0, <1>1, <2>1, <2>2, Parts, JobFacts DEF IsNextId, KindOf, Rowed
<1>5. CurrentTasks' = CurrentTasks
  BY <1>1 DEF CurrentTasks
<1>6. /\ \A i : (InQueue(i)' <=> InQueue(i)) /\ (Held(i)' <=> Held(i))
      /\ \A i \in Job : ~BeingSubmitted(i) /\ (BeingSubmitted(i)' <=> i = j)
  <2>1. \A i : (InQueue(i)' <=> InQueue(i)) /\ (Held(i)' <=> Held(i))
    BY <1>1 DEF InQueue, Held
  <2>2. \A d \in Clients : client[d].job = None
    BY <1>1
  <2>3. \A d \in Clients : client'[d].job = IF d = cl THEN j ELSE None
    BY <1>1, <1>2
  <2> QED BY <2>1, <2>2, <2>3, JobFacts DEF BeingSubmitted
<1>7. Quiet'
  BY <1>1, <1>2, <1>4, Parts DEF Quiet
<1>8. Submission'
  <2>1. /\ Inside(cl)'
        /\ \A d \in Clients \ {cl} : client'[d].pc \notin {"insert", "register", "enqueue"}
    BY <1>1, <1>2 DEF Inside
  <2> QED BY <1>1, <1>5, <2>1, Parts DEF Submission
<1>9. Current'
  BY <1>1, <1>3, <1>6, Parts DEF Current, InFlight
<1>10. Rowed'
  BY <1>1, <1>3, <1>4, OneCase, Parts DEF Rowed
<1>11. Ordered'
  <2>1. /\ \A n \in 1..Len(queue) : queue[n] \in Job /\ InFlight(queue[n])
        /\ \A w \in Workers : worker[w].job # None =>
              worker[w].job \in Job /\ InFlight(worker[w].job)
    BY Parts DEF TypeOK, WorkerState, InFlight, InQueue, Held
  <2>2. /\ \A n \in 1..Len(queue) : queue[n][2] < j[2]
        /\ \A w \in Workers : worker[w].job # None => worker[w].job[2] < j[2]
    BY <1>4, <2>1, PlacedHasRow
  <2> QED BY <1>1, <1>2, <2>2, Parts DEF Ordered
<1>12. \A i \in Job \ {j} : run[i] = runs =>
          /\ run[i] # 0 /\ i[2] < j[2] /\ engine[i] # t /\ t \notin DependsOn(engine[i])
          /\ (t \in Correlating => engine[i] \in DependsOn(t))
          /\ \E m \in 1..next : engine[i] = CurrentTasks[m] /\ m # next
  <2> SUFFICES ASSUME NEW i \in Job \ {j}, run[i] = runs
      PROVE  /\ run[i] # 0 /\ i[2] < j[2] /\ engine[i] # t /\ t \notin DependsOn(engine[i])
             /\ (t \in Correlating => engine[i] \in DependsOn(t))
             /\ \E m \in 1..next : engine[i] = CurrentTasks[m] /\ m # next
    OBVIOUS
  <2>1. PICK m \in 1..next : engine[i] = CurrentTasks[m] /\ (m = next => BeingSubmitted(i))
    BY <1>1, Parts DEF Planned
  <2>2. m # next /\ m < next /\ m \in 1..Len(CurrentTasks)
    BY <1>1, <1>6, <2>1
  <2>3. run[i] # 0 /\ i[2] < j[2]
    BY <1>1, <1>4, Parts DEF Rowed
  <2>4. /\ engine[i] # t /\ t \notin DependsOn(engine[i])
        /\ (t \in Correlating => engine[i] \in DependsOn(t))
    BY <1>1, <2>1, <2>2, PlanFacts DEF CurrentTasks
  <2> QED BY <2>1, <2>2, <2>3, <2>4
<1>13. t \in Engines /\ t \notin DependsOn(t)
  <2>1. CurrentTasks \in Seq(Engines)
    BY PlanFacts DEF CurrentTasks
  <2>2. t \in DependsOn(t) => next < next
    BY <1>1, PlanFacts DEF CurrentTasks
  <2> QED BY <1>1, <2>1, <2>2
<1> HIDE DEF t
<1>14. Planned'
  <2>1. \A i \in Job : run'[i] # 0 => engine'[i] \in Engines
    BY <1>1, <1>3, <1>13, Parts DEF Planned
  <2>2. ASSUME NEW i \in Job, run'[i] = runs
        PROVE  \E m \in 1..next : engine'[i] = CurrentTasks[m] /\ (m = next => BeingSubmitted(i)')
    <3>1. CASE i = j
      BY <1>1, <1>3, <1>6, <3>1 DEF t
    <3>2. CASE i # j
      BY <1>1, <1>3, <1>12, <2>2, <3>2
    <3> QED BY <3>1, <3>2
  <2>3. ASSUME NEW i \in Job, NEW d \in Job, run'[i] # 0, run'[d] = run'[i]
        PROVE  /\ engine'[d] = engine'[i] => d = i
               /\ engine'[d] \in DependsOn(engine'[i]) => d[2] < i[2]
               /\ engine'[i] \in Correlating /\ d[2] < i[2] => engine'[d] \in DependsOn(engine'[i])
    <3>1. CASE i # j /\ d # j
      BY <1>1, <1>3, <2>3, <3>1, Parts DEF Planned
    <3>2. CASE i = j /\ d # j
      BY <1>1, <1>3, <1>12, <2>3, <3>2
    <3>3. CASE i # j /\ d = j
      <4>1. /\ run[i] = runs /\ engine'[i] = engine[i] /\ engine'[d] = t
        BY <1>1, <1>3, <2>3, <3>3
      <4> QED BY <1>12, <3>3, <4>1, OneCase
    <3>4. CASE i = j /\ d = j
      BY <1>1, <1>3, <1>13, <3>4, OneCase
    <3> QED BY <3>1, <3>2, <3>3, <3>4
  <2> QED BY <1>1, <1>5, <2>1, <2>2, <2>3 DEF Planned
<1>15. Threads'
  BY <1>1, Parts DEF Threads, Fitting
<1>16. Over'
  BY <1>1, <1>4, <1>6, Parts, PlacedHasRow DEF Over, ATypeOK
<1>17. Waited'
  <2> SUFFICES ASSUME NEW w \in Workers, stage[w] = "work", NEW i, i = worker[w].job
               PROVE  Dependencies(i)' \subseteq done
    BY <1>1 DEF Waited
  <2>1. i \in Job /\ i # None /\ run[i] = runs /\ rows[i] # "none" /\ i # j
    BY <1>4, AtWork
  <2>2. t \notin DependsOn(engine[i])
    BY <1>12, <2>1
  <2>3. \A d \in Job : d \in Dependencies(i)' => d # j /\ d \in Dependencies(i)
    BY <1>1, <1>3, <2>1, <2>2 DEF Dependencies, Siblings
  <2>4. Dependencies(i)' \subseteq Job
    BY DEF Dependencies, Siblings
  <2> QED BY <2>3, <2>4, Parts DEF Waited
<1>18. Whereabouts'
  <2>1. \A d \in Job \ {j} : run'[d] = run[d]
    BY <1>1, <1>3
  <2> QED BY <1>1, <1>6, <2>1, Parts DEF Whereabouts, AtIt
<1> QED BY <1>7, <1>8, <1>9, <1>10, <1>11, <1>14, <1>15, <1>16, <1>17, <1>18 DEF Plan, Pool

LEMMA EnqueueStep ==
    ASSUME AInv, Inv', NEW cl \in Clients, EnqueueEngine(cl)
    PROVE  Plan' /\ Pool'
<1> DEFINE j == client[cl].job
<1>1. /\ client[cl].pc = "enqueue" /\ client \in [Clients -> ClientState]
      /\ client[cl] \in ClientState /\ client' \in [Clients -> ClientState]
      /\ j \in Job /\ j # None /\ lock = cl /\ cl # None /\ Inside(cl)
      /\ client[cl].op = "analyze"
      /\ \A d \in Clients \ {cl} : client[d].job = None /\ ~Inside(d)
      /\ next > 0 /\ next \in Nat /\ runs > 0 /\ next <= Len(CurrentTasks)
      /\ queue' = Append(queue, j) /\ queue \in Seq(Job) /\ NoDup(queue) /\ ~InQueue(j)
      /\ next' = IF next = Len(CurrentTasks) THEN 0 ELSE next + 1
      /\ lock' = IF next' = 0 THEN None ELSE lock
      /\ UNCHANGED <<rows, kind, case, worker, errors, stage, done, engine, run, result, chosen,
                     runs>>
  BY AtRequest, Parts, JobFacts, PlanFacts
     DEF EnqueueEngine, Enqueue, Put, Inside, OnItsWay, Submission, ATypeOK, TypeOK, Inv, Placed,
         db, receipts, evidence, CurrentTasks
<1>2. /\ \A d \in Clients \ {cl} : client'[d] = client[d]
      /\ client'[cl].job = None
      /\ IF next' = 0 THEN client'[cl].pc = "idle"
                      ELSE client'[cl].pc = "insert" /\ client'[cl].op = "analyze"
  <2>1. \/ Release(cl)
        \/ /\ client' = [client EXCEPT ![cl].pc = "insert", ![cl].job = None,
                                       ![cl].ids = @ \cup {j}]
           /\ UNCHANGED lock
    BY DEF EnqueueEngine, Enqueue
  <2>2. CASE Release(cl)
    BY <1>1, <2>2 DEF Release, IdleClient
  <2>3. CASE /\ client' = [client EXCEPT ![cl].pc = "insert", ![cl].job = None,
                                         ![cl].ids = @ \cup {j}]
             /\ UNCHANGED lock
    BY <1>1, <2>3 DEF ClientState
  <2> QED BY <2>1, <2>2, <2>3
<1> HIDE DEF j
<1>3. /\ queue' \in Seq(Job)
      /\ \A k : InQueue(k)' <=> InQueue(k) \/ k = j
  BY <1>1, QueuePut
<1>4. /\ Len(queue) \in Nat /\ Len(queue') = Len(queue) + 1
      /\ \A n \in 1..Len(queue) : queue'[n] = queue[n]
      /\ queue'[Len(queue) + 1] = j
  BY <1>1
<1>5. /\ \A i \in Job : (BeingSubmitted(i) <=> i = j) /\ ~BeingSubmitted(i)'
      /\ \A i \in Job : InFlight(i)' <=> InFlight(i)
  <2>1. \A d \in Clients : client'[d].job = None
    BY <1>1, <1>2
  <2>2. \A d \in Clients : client[d].job = IF d = cl THEN j ELSE None
    BY <1>1 DEF j
  <2>3. \A i \in Job : (BeingSubmitted(i) <=> i = j) /\ ~BeingSubmitted(i)'
    BY <1>1, <2>1, <2>2, JobFacts DEF BeingSubmitted
  <2> QED BY <1>1, <1>3, <2>3 DEF InFlight, Held
<1>6. Quiet'
  BY <1>1, <1>2, Parts DEF Quiet
<1>7. CurrentTasks' = CurrentTasks /\ Len(CurrentTasks) \in Nat
  BY <1>1, PlanFacts DEF CurrentTasks
<1>8. Submission'
  <2>1. next' > 0 => next' = next + 1 /\ next' <= Len(CurrentTasks) /\ Inside(cl)'
    BY <1>1, <1>2, <1>7 DEF Inside
  <2>2. \A d \in Clients : /\ client'[d].pc \notin {"register", "enqueue"}
                           /\ client'[d].pc = "insert" => next' # 0
    BY <1>1, <1>2 DEF Inside
  <2> QED BY <1>1, <1>7, <2>1, <2>2 DEF Submission
<1>9. Current' /\ Rowed'
  BY <1>1, <1>5, Parts DEF Current, Rowed
<1>10. Ordered'
  <2>1. /\ \A n \in 1..Len(queue) : queue[n][2] < j[2]
        /\ \A w \in Workers : worker[w].job # None => worker[w].job[2] < j[2]
    BY <1>1, Parts DEF Ordered, j
  <2>2. ASSUME NEW m \in 1..Len(queue'), NEW n \in 1..Len(queue'), m < n
        PROVE  queue'[m][2] < queue'[n][2]
    <3>1. m \in 1..Len(queue) /\ (n \in 1..Len(queue) \/ n = Len(queue) + 1)
      BY <1>4, <2>2
    <3> QED BY <1>4, <2>1, <2>2, <3>1, Parts DEF Ordered
  <2>3. ASSUME NEW w \in Workers, NEW n \in 1..Len(queue'), worker[w].job # None
        PROVE  worker[w].job[2] < queue'[n][2]
    <3>1. n \in 1..Len(queue) \/ n = Len(queue) + 1
      BY <1>4
    <3> QED BY <1>4, <2>1, <2>3, <3>1, Parts DEF Ordered
  <2>4. \A d \in Clients : client'[d].job = None
    BY <1>1, <1>2
  <2> QED BY <1>1, <2>2, <2>3, <2>4 DEF Ordered
<1>11. Planned'
  <2>1. ASSUME next' > 0, NEW i \in Job, run[i] = runs
        PROVE  \E m \in 1..next' : engine[i] = CurrentTasks[m] /\ m # next'
    <3>1. PICK m \in 1..next : engine[i] = CurrentTasks[m]
      BY <1>1, <2>1, Parts DEF Planned
    <3> QED BY <1>1, <2>1, <3>1
  <2> QED BY <1>1, <1>7, <2>1, Parts DEF Planned
<1>12. Threads' /\ Waited'
  BY <1>1, Parts DEF Threads, Fitting, Waited, Dependencies, Siblings
<1>13. Over'
  BY <1>1, <1>3, <1>5, Parts DEF Over, ATypeOK
<1>14. Whereabouts'
  BY <1>1, <1>3, <1>5, Parts DEF Whereabouts, AtIt
<1> QED BY <1>6, <1>8, <1>9, <1>10, <1>11, <1>12, <1>13, <1>14 DEF Plan, Pool

-----------------------------------------------------------------------------
(* Taking a job, giving it up, and a crash.                                *)

LEMMA TakeStep ==
    ASSUME AInv, NEW w \in Workers, Take(w), UNCHANGED avars
    PROVE  Plan' /\ Pool'
<1>0. PICK j : j = Head(queue)
  OBVIOUS
<1>1. /\ worker[w].pc = "idle" /\ worker[w].job = None /\ stage[w] = "off"
      /\ worker \in [Workers -> WorkerState]
      /\ queue # <<>> /\ queue \in Seq(Job) /\ NoDup(queue) /\ queue' = Tail(queue)
      /\ worker'[w] = [pc |-> "begin", job |-> j, out |-> "done"]
      /\ \A v \in Workers \ {w} : worker'[v] = worker[v]
      /\ UNCHANGED <<rows, kind, case, client, errors, stage, done, engine, run, result, chosen,
                     runs, next>>
  BY <1>0, Parts DEF Take, db, process, avars, TypeOK, Inv, Placed, Threads, Fitting
<1>2. /\ j \in Job /\ j # None /\ InQueue(j)
      /\ \A k : InQueue(k)' <=> InQueue(k) /\ k # j
  BY <1>0, <1>1, QueueTake, JobFacts
<1>3. /\ Len(queue) \in Nat /\ Len(queue) > 0 /\ Len(queue') = Len(queue) - 1 /\ j = queue[1]
      /\ \A n \in 1..Len(queue') : queue'[n] = queue[n + 1] /\ n + 1 \in 1..Len(queue)
  BY <1>0, <1>1
<1>4. /\ \A k \in Job : Held(k)' <=> Held(k) \/ k = j
      /\ \A k : BeingSubmitted(k)' <=> BeingSubmitted(k)
      /\ \A k \in Job : InFlight(k)' <=> InFlight(k)
  <2>1. \A k \in Job : Held(k)' <=> Held(k) \/ k = j
    BY <1>1, <1>2, JobFacts DEF Held
  <2>2. \A k : BeingSubmitted(k)' <=> BeingSubmitted(k)
    BY <1>1 DEF BeingSubmitted
  <2> QED BY <1>2, <2>1, <2>2 DEF InFlight
<1>5. Quiet' /\ Submission' /\ Planned'
  BY <1>1, <1>4, Parts DEF Quiet, Submission, Planned, Inside, CurrentTasks
<1>6. Current' /\ Rowed'
  BY <1>1, <1>4, Parts DEF Current, Rowed
<1>7. Ordered'
  <2>1. ASSUME NEW m \in 1..Len(queue'), NEW n \in 1..Len(queue'), m < n
        PROVE  queue'[m][2] < queue'[n][2]
    <3>1. /\ m + 1 < n + 1 /\ m + 1 \in 1..Len(queue) /\ n + 1 \in 1..Len(queue)
          /\ queue'[m] = queue[m + 1] /\ queue'[n] = queue[n + 1]
      BY <1>3, <2>1
    <3> QED BY <3>1, Parts DEF Ordered
  <2>2. \A n \in 1..Len(queue') : j[2] < queue'[n][2]
    BY <1>3, Parts DEF Ordered
  <2>3. \A v \in Workers, n \in 1..Len(queue') :
            worker'[v].job # None => worker'[v].job[2] < queue'[n][2]
    BY <1>1, <1>3, <2>2, Parts DEF Ordered
  <2>4. ASSUME NEW cl \in Clients, client[cl].job # None
        PROVE  /\ \A n \in 1..Len(queue') : queue'[n][2] < client[cl].job[2]
               /\ \A v \in Workers : worker'[v].job # None => worker'[v].job[2] < client[cl].job[2]
    <3>1. j[2] < client[cl].job[2]
      BY <1>3, <2>4, Parts DEF Ordered
    <3> QED BY <1>1, <1>3, <2>4, <3>1, Parts DEF Ordered
  <2> QED BY <1>1, <2>1, <2>3, <2>4 DEF Ordered
<1>8. Threads'
  <2>1. j \notin done
    BY <1>2, Parts DEF Over
  <2> QED BY <1>1, <1>2, <2>1, Parts DEF Threads, Fitting
<1>9. Over'
  BY <1>1, <1>2, <1>4, Parts DEF Over
<1>10. Waited'
  <2> SUFFICES ASSUME NEW v \in Workers, stage[v] = "work", NEW i, i = worker'[v].job
               PROVE  Dependencies(i)' \subseteq done
    BY <1>1 DEF Waited
  <2>1. v # w /\ i = worker[v].job
    BY <1>1
  <2> QED BY <1>1, <2>1, Parts DEF Waited, Dependencies, Siblings
<1>11. Whereabouts'
  <2>1. \A d \in Job : AtIt(d) \/ d = j => AtIt(d)'
    BY <1>1 DEF AtIt
  <2> QED BY <1>1, <1>2, <1>4, <2>1, Parts DEF Whereabouts
<1> QED BY <1>5, <1>6, <1>7, <1>8, <1>9, <1>10, <1>11 DEF Plan, Pool

LEMMA PopStep ==
    ASSUME AInv, NEW w \in Workers, Pop(w), UNCHANGED avars
    PROVE  Plan' /\ Pool'
<1>1. /\ worker[w].pc = "pop" /\ stage[w] = "off" /\ worker'[w] = IdleWorker
      /\ IdleWorker.pc = "idle" /\ IdleWorker.job = None
      /\ \A v \in Workers \ {w} : worker'[v] = worker[v]
      /\ UNCHANGED <<rows, kind, case, queue, client, errors, stage, done, engine, run, result,
                     chosen, runs, next>>
  BY Parts DEF Pop, db, process, avars, TypeOK, Threads, Fitting, IdleWorker
<1>2. /\ \A k : (InQueue(k)' <=> InQueue(k)) /\ (BeingSubmitted(k)' <=> BeingSubmitted(k))
      /\ \A k \in Job : InFlight(k)' => InFlight(k)
  BY <1>1, JobFacts DEF InQueue, BeingSubmitted, Held, InFlight
<1>3. Quiet' /\ Submission' /\ Planned'
  BY <1>1, <1>2, Parts DEF Quiet, Submission, Planned, Inside, CurrentTasks
<1>4. Current' /\ Rowed'
  BY <1>1, <1>2, Parts DEF Current, Rowed
<1>5. Ordered'
  BY <1>1, Parts DEF Ordered
<1>6. Threads'
  BY <1>1, Parts DEF Threads, Fitting
<1>7. Over'
  BY <1>1, <1>2, Parts DEF Over
<1>8. Waited'
  <2> SUFFICES ASSUME NEW v \in Workers, stage[v] = "work", NEW i, i = worker'[v].job
               PROVE  Dependencies(i)' \subseteq done
    BY <1>1 DEF Waited
  <2>1. v # w /\ i = worker[v].job
    BY <1>1
  <2> QED BY <1>1, <2>1, Parts DEF Waited, Dependencies, Siblings
<1>9. Whereabouts'
  <2>1. \A d : AtIt(d) => AtIt(d)'
    BY <1>1 DEF AtIt
  <2> QED BY <1>1, <1>2, <2>1, Parts DEF Whereabouts
<1> QED BY <1>3, <1>4, <1>5, <1>6, <1>7, <1>8, <1>9 DEF Plan, Pool

LEMMA CrashStep == ASSUME AInv, ACrash PROVE Plan' /\ Pool'
<1>1. /\ queue' = <<>> /\ worker' = [w \in Workers |-> IdleWorker]
      /\ client' = [cl \in Clients |-> IdleClient]
      /\ IdleWorker.pc = "idle" /\ IdleWorker.job = None
      /\ IdleClient.pc = "idle" /\ IdleClient.job = None
      /\ stage' = [w \in Workers |-> "off"] /\ done' = {} /\ next' = 0
      /\ UNCHANGED <<rows, kind, case, errors, engine, run, result, chosen, runs>>
  BY DEF ACrash, Crash, db, IdleWorker, IdleClient
<1>2. \A k \in Job : ~InFlight(k)' /\ ~InQueue(k)'
  BY <1>1, JobFacts DEF InQueue, BeingSubmitted, Held, InFlight
<1>3. Quiet' /\ Submission' /\ Current' /\ Rowed' /\ Ordered' /\ Planned'
  BY <1>1, <1>2, Parts DEF Quiet, Submission, Current, Rowed, Ordered, Planned
<1>4. Threads' /\ Over' /\ Waited' /\ Whereabouts'
  BY <1>1, <1>2, Parts DEF Threads, Fitting, Over, Waited, Whereabouts
<1> QED BY <1>3, <1>4 DEF Plan, Pool

LEMMA PlanPoolSteps == ASSUME AInv, Inv', [ANext]_avs PROVE Plan' /\ Pool'
<1>1. ASSUME NEW cl \in Clients, SubmitStep(cl) PROVE Plan' /\ Pool'
  BY <1>1, StartStep, SubmitStepPlan, EnqueueStep, SubmissionEnds, RequestSteps DEF SubmitStep
<1>2. ASSUME NEW w \in Workers, EngineStep(w) PROVE Plan' /\ Pool'
  <2>1. CASE Untouched(w) /\ ~FailureLost(w)
    BY <2>1, TakeStep, PopStep DEF Untouched
  <2>2. CASE ~(Untouched(w) /\ ~FailureLost(w))
    BY <1>2, <2>2, EngineGoesOn, GoesOnPlan, GoesOnPool DEF EngineStep, Untouched
  <2> QED BY <2>1, <2>2
<1>3. CASE \E j \in Job : CancelJob(j) /\ UNCHANGED avars
  BY <1>3, CancelStep
<1>4. CASE ACrash
  BY <1>4, CrashStep
<1>5. CASE UNCHANGED avs
  <2>1. Plan'
    BY <1>5, Parts DEF Plan, Quiet, Submission, Current, Rowed, Ordered, Planned, Inside, InFlight,
       InQueue, Held, BeingSubmitted, CurrentTasks, avs, avars, vars
  <2>2. Pool'
    BY <1>5, Parts DEF Pool, Threads, Over, Waited, Whereabouts, AtIt, Dependencies, Siblings,
       Fitting, InFlight, InQueue, Held, BeingSubmitted, avs, avars, vars
  <2> QED BY <2>1, <2>2
<1> QED BY <1>1, <1>2, <1>3, <1>4, <1>5 DEF ANext

-----------------------------------------------------------------------------
(* The receipts.                                                           *)

\* What a step never takes back: the run and the engine of a job, a complete
\* result and the plan of a run that has been started.
Keeps ==
    /\ \A j \in Job : run[j] # 0 =>
          /\ run'[j] = run[j] /\ engine'[j] = engine[j]
          /\ result[j] = "complete" => result'[j] = "complete"
    /\ \A r \in 1..runs : chosen'[r] = chosen[r]
    /\ runs' \in Nat /\ runs <= runs'

\* A step that takes no job from the pending ones, and adds none that is not.
KeepsPending ==
    /\ \A j \in Job : rows[j] \in Pending => rows'[j] \in Pending
    /\ \A j \in Job : run'[j] = run[j] \/ rows'[j] \in Pending

LEMMA SuccessKept ==
    ASSUME Keeps, NEW r, NEW e, r # 0, Succeeded(r, e)
    PROVE  Succeeded(r, e)'
<1>1. PICK j \in Job : run[j] = r /\ engine[j] = e /\ result[j] = "complete"
  BY DEF Succeeded
<1>2. run'[j] = r /\ engine'[j] = e /\ result'[j] = "complete"
  BY <1>1 DEF Keeps
<1> QED BY <1>2 DEF Succeeded

LEMMA MarkKept ==
    ASSUME AInv, Keeps, NEW k \in EvidenceKinds, NEW r, r = scanned[k], r # 0,
           NEW e \in Required(k, chosen'[r])
    PROVE  Succeeded(r, e)'
<1>1. r \in 1..runs /\ chosen'[r] = chosen[r]
  BY Parts DEF ATypeOK, Keeps
<1>2. Succeeded(r, e)
  BY <1>1, Parts DEF ScannedMeansComplete, Succeeded
<1> QED BY <1>1, <1>2, SuccessKept

LEMMA AttemptKept ==
    ASSUME AInv, Keeps, KeepsPending, NEW k \in EvidenceKinds, attempt'[k] = attempt[k]
    PROVE  Attempted(k)' /\ IsReceipt(attempt[k])'
<1> DEFINE a == attempt[k]
<1>1. IsReceipt(a) /\ Attempted(k) /\ run \in [Job -> 0..runs] /\ runs \in Nat
  BY Parts, RunsAssumption DEF ATypeOK
<1>2. IsReceipt(attempt[k])'
  BY <1>1 DEF IsReceipt, Keeps
<1>3. ASSUME a.run # 0
      PROVE  DOMAIN a.engines = Required(k, chosen'[a.run])
  BY <1>1, <1>3 DEF IsReceipt, Attempted, Keeps
<1>4. ASSUME a.run # 0, NEW e \in DOMAIN a.engines, NEW r, r = a.run, NEW s, s = a.engines[e]
      PROVE  Says(r, e, s)'
  <2>1. Says(r, e, s) /\ r # 0
    BY <1>1, <1>4 DEF Attempted
  <2>2. s = "complete" => Succeeded(r, e)'
    BY <2>1, SuccessKept DEF Says
  <2>3. PendingIn(r) => PendingIn(r)'
    <3>1. ASSUME NEW j \in Job, run[j] = r, rows[j] \in Pending
          PROVE  run'[j] = r /\ rows'[j] \in Pending
      BY <2>1, <3>1 DEF Keeps, KeepsPending
    <3> QED BY <3>1 DEF PendingIn
  <2>4. HasJob(r, e)' => HasJob(r, e) \/ PendingIn(r)'
    <3>1. ASSUME NEW j \in Job, run'[j] = r, engine'[j] = e
          PROVE  (run[j] = r /\ engine[j] = e) \/ rows'[j] \in Pending
      BY <2>1, <3>1 DEF Keeps, KeepsPending
    <3> QED BY <3>1 DEF PendingIn, HasJob
  <2> QED BY <2>1, <2>2, <2>3, <2>4 DEF Says
<1> QED BY <1>2, <1>3, <1>4 DEF Attempted

\* The wrapper writes what this run has reported.
LEMMA AttemptRecorded ==
    ASSUME AInv, Keeps, KeepsPending, NEW r \in 1..runs', NEW o \in [Engines -> States],
           NEW kinds, kinds = chosen'[r], attempt' = RecordedBy(r, kinds, o),
           \A e \in Engines : Says(r, e, o[e])', NEW k \in EvidenceKinds
    PROVE  Attempted(k)' /\ IsReceipt(attempt[k])'
<1>1. CASE Required(k, kinds) = {}
  <2>1. attempt'[k] = attempt[k]
    BY <1>1 DEF RecordedBy
  <2> QED BY <2>1, AttemptKept
<1>2. CASE Required(k, kinds) # {}
  <2>1. attempt'[k] = [run |-> r, engines |-> [e \in Required(k, kinds) |-> o[e]]]
    BY <1>2 DEF RecordedBy
  <2>2. Required(k, kinds) \subseteq Engines
    BY PlanFacts
  <2>3. IsReceipt(attempt[k])'
    BY <2>1, <2>2 DEF IsReceipt, Keeps
  <2>4. Attempted(k)'
    BY <2>1, <2>2 DEF Attempted
  <2> QED BY <2>3, <2>4
<1> QED BY <1>1, <1>2

\* Refreshed from the rows, a receipt is complete only if each engine has
\* returned complete results.
LEMMA AttemptRefreshed ==
    ASSUME AInv, Inv', NEW st, st = rows', NEW k \in EvidenceKinds, NEW a, a = attempt[k],
           NEW b, b = IF a.run = 0 THEN a ELSE Refreshed(a, st), attempt'[k] = b,
           \A j \in Job : rows[j] # "none" => rows'[j] # "none",
           \A j \in Job : rows'[j] = "done" => result[j] # "none",
           UNCHANGED <<engine, run, result, chosen, runs>>
    PROVE  /\ Attempted(k)' /\ IsReceipt(attempt[k])'
           /\ b.run = a.run
           /\ b.run # 0 /\ Status(b.engines) = "complete" =>
                 b.run \in 1..runs
                 /\ \A e \in Required(k, chosen[b.run]) : Succeeded(b.run, e)
<1>1. /\ IsReceipt(a) /\ Attempted(k) /\ runs \in Nat /\ run \in [Job -> 0..runs]
      /\ result \in [Job -> {"none", "complete", "partial"}]
      /\ \A j \in Job : st[j] \in {"none"} \cup Pending \cup Terminal
  BY Parts, RunsAssumption DEF ATypeOK, Inv, TypeOK
<1>2. CASE a.run = 0
  BY <1>1, <1>2 DEF Attempted, IsReceipt
<1>3. CASE a.run # 0
  <2> DEFINE r == a.run
  <2> DEFINE jobs(e) == {j \in Job : st[j] # "none" /\ run[j] = r /\ engine[j] = e}
  <2> DEFINE says(e) == IF jobs(e) = {} THEN a.engines[e]
                        ELSE JobState(CHOOSE j \in jobs(e) : \A i \in jobs(e) : i[2] <= j[2], st)
  <2>1. r \in 1..runs /\ r \in Nat
    BY <1>1, <1>3 DEF IsReceipt
  <2>2. /\ b.run = r /\ DOMAIN b.engines = DOMAIN a.engines
        /\ \A e \in DOMAIN a.engines : b.engines[e] = says(e)
        /\ b \in [run : 0..runs, engines : {b.engines}]
    <3> DEFINE f == [e \in DOMAIN a.engines |-> says(e)]
    <3>1. b = [a EXCEPT !.engines = f]
      BY <1>3 DEF Refreshed
    <3>2. DOMAIN f = DOMAIN a.engines /\ \A e \in DOMAIN a.engines : f[e] = says(e)
      OBVIOUS
    <3> HIDE DEF f, says
    <3>3. b.run = r /\ b.engines = f /\ b \in [run : 0..runs, engines : {f}]
      BY <1>1, <2>1, <3>1 DEF IsReceipt
    <3> QED BY <3>2, <3>3
  <2>3. ASSUME NEW e, NEW j \in Job, run[j] = r, engine[j] = e
        PROVE  jobs(e) = {j} /\ says(e) = JobState(j, st)
    <3>1. st[j] # "none"
      BY <2>1, <2>3, Parts DEF Rowed
    <3>2. \A i \in jobs(e) : i = j
      BY <2>1, <2>3, Parts DEF Planned
    <3>3. jobs(e) = {j}
      BY <2>3, <3>1, <3>2
    <3>4. (CHOOSE i \in jobs(e) : \A h \in jobs(e) : h[2] <= i[2]) = j
      <4>1. j[2] <= j[2]
        BY OneCase
      <4> QED BY <3>3, <4>1
    <3> QED BY <3>3, <3>4
  <2>4. ASSUME NEW e, ~HasJob(r, e)
        PROVE  says(e) = a.engines[e]
    BY <2>4 DEF HasJob
  <2>5. ASSUME NEW j \in Job, run[j] = r
        PROVE  /\ JobState(j, st) \in States
               /\ JobState(j, st) = "complete" => result[j] = "complete"
               /\ JobState(j, st) = "running" => st[j] \in Pending
    <3>1. st[j] \in Pending \cup Terminal
      BY <1>1, <2>1, <2>5, Parts DEF Rowed
    <3> QED BY <1>1, <3>1 DEF JobState, States, Pending, Terminal
  <2> HIDE DEF says, jobs
  <2>6. ASSUME NEW e \in DOMAIN a.engines
        PROVE  /\ says(e) \in States
               /\ says(e) = "complete" => Succeeded(r, e)
               /\ says(e) = "running" /\ HasJob(r, e) =>
                     \E j \in Job : run[j] = r /\ st[j] \in Pending
    <3>1. CASE ~HasJob(r, e)
      BY <1>1, <1>3, <2>4, <3>1 DEF IsReceipt, Attempted, Says
    <3>2. CASE HasJob(r, e)
      <4>1. PICK j \in Job : run[j] = r /\ engine[j] = e
        BY <3>2 DEF HasJob
      <4>2. says(e) = JobState(j, st)
        BY <2>3, <4>1
      <4> QED BY <2>5, <4>1, <4>2 DEF Succeeded
    <3> QED BY <3>1, <3>2
  <2>7. IsReceipt(attempt[k])'
    BY <1>1, <2>2, <2>6 DEF IsReceipt
  <2>8. DOMAIN b.engines = Required(k, chosen[r])
    BY <1>1, <1>3, <2>2 DEF Attempted
  <2>9. PICK n : n = r
    OBVIOUS
  <2>10. ASSUME NEW e \in DOMAIN b.engines, NEW s, s = b.engines[e]
         PROVE  Says(n, e, s)'
    <3>1. /\ s = "complete" => Succeeded(n, e)
          /\ s = "running" /\ HasJob(n, e) => \E j \in Job : run[j] = n /\ rows'[j] \in Pending
      BY <2>2, <2>6, <2>9, <2>10
    <3> QED BY <3>1 DEF Says, Succeeded, HasJob, PendingIn
  <2>11. Attempted(k)'
    BY <2>2, <2>8, <2>9, <2>10 DEF Attempted
  <2>12. ASSUME Status(b.engines) = "complete", NEW e \in DOMAIN b.engines
         PROVE  Succeeded(r, e)
    <3>1. b.engines[e] \in Range(b.engines) /\ b.engines[e] \in States
      BY <2>2, <2>6, <2>12 DEF Range
    <3>2. b.engines[e] = "complete"
      BY <2>12, <3>1 DEF Status, States
    <3> QED BY <2>2, <2>6, <3>2
  <2> QED BY <2>1, <2>2, <2>7, <2>8, <2>11, <2>12
<1> QED BY <1>2, <1>3

LEMMA ReceiptsRefreshed ==
    ASSUME AInv, Inv', RefreshReceipts(rows'),
           \A j \in Job : rows[j] # "none" => rows'[j] # "none",
           \A j \in Job : rows'[j] = "done" => result[j] # "none",
           UNCHANGED <<engine, run, result, chosen, runs>>
    PROVE  /\ \A k \in EvidenceKinds : Attempted(k)' /\ IsReceipt(attempt[k])'
           /\ ScannedMeansComplete' /\ scanned' \in [EvidenceKinds -> 0..runs]
<1>1. PICK st : st = rows'
  OBVIOUS
<1> DEFINE new(k) == IF attempt[k].run = 0 THEN attempt[k] ELSE Refreshed(attempt[k], st)
<1>2. /\ \A k \in EvidenceKinds : attempt'[k] = new(k)
      /\ scanned' = [k \in EvidenceKinds |->
            IF scanned[k] = 0 /\ new(k).run # 0 /\ Status(new(k).engines) = "complete"
            THEN new(k).run ELSE scanned[k]]
  BY <1>1 DEF RefreshReceipts
<1>3. ASSUME NEW k \in EvidenceKinds
      PROVE  /\ Attempted(k)' /\ IsReceipt(attempt[k])'
             /\ new(k).run # 0 /\ Status(new(k).engines) = "complete" =>
                   new(k).run \in 1..runs
                   /\ \A e \in Required(k, chosen[new(k).run]) : Succeeded(new(k).run, e)
  BY <1>1, <1>2, AttemptRefreshed
<1> HIDE DEF new
<1>4. scanned \in [EvidenceKinds -> 0..runs] /\ runs \in Nat
  BY Parts, RunsAssumption DEF ATypeOK
<1>5. scanned' \in [EvidenceKinds -> 0..runs]
  BY <1>2, <1>3, <1>4
<1>6. ASSUME NEW k \in EvidenceKinds, scanned'[k] # 0,
             NEW e \in Required(k, chosen[scanned'[k]])
      PROVE  Succeeded(scanned'[k], e)
  <2>1. CASE scanned[k] = 0 /\ new(k).run # 0 /\ Status(new(k).engines) = "complete"
    <3>1. scanned'[k] = new(k).run
      BY <1>2, <2>1
    <3> QED BY <1>3, <1>6, <2>1, <3>1
  <2>2. CASE ~(scanned[k] = 0 /\ new(k).run # 0 /\ Status(new(k).engines) = "complete")
    <3>1. scanned'[k] = scanned[k]
      BY <1>2, <2>2
    <3> QED BY <1>6, <3>1, Parts DEF ScannedMeansComplete, Succeeded
  <2> QED BY <2>1, <2>2
<1>7. ScannedMeansComplete'
  BY <1>6 DEF ScannedMeansComplete, Succeeded
<1> QED BY <1>3, <1>5, <1>7

\* The reports of the current run and the marks, as a step leaves them.
LEMMA OutcomesKept ==
    ASSUME AInv, Keeps, runs' = runs,
           \A e \in Engines : outcome'[e] = "complete" =>
               outcome[e] = "complete" \/ (runs # 0 /\ Succeeded(runs, e)),
           \A j \in finished' :
              j \in finished \/ (runs # 0 /\ run[j] = runs /\ result[j] = "complete"),
           finished' \subseteq Job
    PROVE  Outcomes'
<1>1. finished \subseteq Job
  BY Parts DEF ATypeOK
<1>2. ASSUME NEW e \in Engines, outcome'[e] = "complete", NEW r, r = runs
      PROVE  runs # 0 /\ Succeeded(r, e)'
  <2>1. r # 0 /\ Succeeded(r, e)
    BY <1>2, Parts DEF Outcomes
  <2> QED BY <1>2, <2>1, SuccessKept
<1>3. ASSUME NEW j \in finished'
      PROVE  runs' # 0 /\ run'[j] = runs' /\ result'[j] = "complete"
  <2>1. runs # 0 /\ run[j] = runs /\ result[j] = "complete" /\ j \in Job
    BY <1>1, <1>3, Parts DEF Outcomes
  <2> QED BY <2>1 DEF Keeps
<1> QED BY <1>2, <1>3 DEF Outcomes, Succeeded

LEMMA MarksKept ==
    ASSUME AInv, Keeps, scanned' = scanned
    PROVE  ScannedMeansComplete'
<1>1. ASSUME NEW k \in EvidenceKinds, NEW r, r = scanned[k], r # 0,
             NEW e \in Required(k, chosen'[r])
      PROVE  Succeeded(r, e)'
  BY <1>1, MarkKept
<1> QED BY <1>1 DEF ScannedMeansComplete, Succeeded

\* A step that writes no receipt and reports nothing.
LEMMA NothingReported ==
    ASSUME AInv, KeepsPending, stage' \in [Workers -> Stages], done' \subseteq Job, next' \in Nat,
           UNCHANGED <<engine, run, result, chosen, runs, receipts, evidence>>
    PROVE  ATypeOK' /\ Receipts'
<1>1. /\ UNCHANGED <<engine, run, result, chosen, runs, outcome, finished, attempt, scanned>>
      /\ runs \in Nat /\ finished \subseteq Job
  BY Parts, RunsAssumption DEF receipts, evidence, ATypeOK
<1>2. Keeps
  BY <1>1 DEF Keeps
<1>3. \A k \in EvidenceKinds : Attempted(k)' /\ IsReceipt(attempt[k])'
  BY <1>1, <1>2, AttemptKept
<1>4. Outcomes'
  BY <1>1, <1>2, OutcomesKept
<1>5. ScannedMeansComplete'
  BY <1>1, <1>2, MarksKept
<1>6. ATypeOK'
  BY <1>1, <1>3, Parts DEF ATypeOK
<1> QED BY <1>3, <1>4, <1>5, <1>6 DEF Receipts

LEMMA StartReceipts ==
    ASSUME AInv, NEW cl \in Clients, StartRun(cl)
    PROVE  ATypeOK' /\ Receipts'
<1>0. PICK kinds : /\ kinds \in SUBSET EvidenceKinds
                   /\ chosen' = [chosen EXCEPT ![runs + 1] = kinds]
                   /\ attempt' = RecordedBy(runs + 1, kinds, outcome')
  BY RegisteredAssumption DEF StartRun, Logs, EvidenceKinds
<1>1. /\ runs < MaxRuns /\ next' = 1 /\ runs' = runs + 1 /\ runs \in Nat /\ runs + 1 \in Runs
      /\ outcome' = [e \in Engines |-> "running"] /\ finished' = {}
      /\ chosen \in [Runs -> SUBSET EvidenceKinds] /\ run \in [Job -> 0..runs]
      /\ scanned \in [EvidenceKinds -> 0..runs]
      /\ UNCHANGED <<rows, engine, run, result, stage, done, scanned>>
  BY Parts, RunsAssumption DEF StartRun, ATypeOK, Runs, vars
<1>2. Keeps /\ KeepsPending
  BY <1>0, <1>1 DEF Keeps, KeepsPending
<1>3. outcome' \in [Engines -> States]
  BY <1>1 DEF States
<1>4. \A r : \A e \in Engines : r = runs + 1 => Says(r, e, "running")'
  <2>1. \A r, e : r = runs + 1 => ~HasJob(r, e)'
    BY <1>1 DEF HasJob
  <2> QED BY <2>1 DEF Says
<1>5. ASSUME NEW k \in EvidenceKinds PROVE Attempted(k)' /\ IsReceipt(attempt[k])'
  <2>1. PICK r, o : r = runs + 1 /\ o = outcome'
    OBVIOUS
  <2>2. /\ r \in 1..runs' /\ o \in [Engines -> States] /\ kinds = chosen'[r]
        /\ attempt' = RecordedBy(r, kinds, o)
    BY <1>0, <1>1, <1>3, <2>1
  <2>3. \A e \in Engines : Says(r, e, o[e])'
    BY <1>1, <1>4, <2>1
  <2> QED BY <1>2, <2>2, <2>3, AttemptRecorded
<1>6. Outcomes'
  BY <1>1 DEF Outcomes
<1>7. ScannedMeansComplete'
  BY <1>1, <1>2, MarksKept
<1>8. ATypeOK'
  BY <1>0, <1>1, <1>3, <1>5, Parts DEF ATypeOK, Runs
<1> QED BY <1>5, <1>6, <1>7, <1>8 DEF Receipts

LEMMA SubmitReceipts ==
    ASSUME AInv, NEW cl \in Clients, SubmitEngine(cl)
    PROVE  ATypeOK' /\ Receipts'
<1>0. PICK j \in Job :
        /\ rows[j] = "none" /\ rows' = [rows EXCEPT ![j] = "queued"]
        /\ client' = [client EXCEPT ![cl].pc = "register", ![cl].job = j]
  BY JobFacts DEF SubmitEngine, InsertRow, IsNextId
<1>1. /\ runs > 0 /\ runs \in Nat /\ next \in 1..Len(CurrentTasks)
      /\ client \in [Clients -> ClientState] /\ run[j] = 0
      /\ rows \in [Job -> {"none"} \cup Pending \cup Terminal]
      /\ run \in [Job -> 0..runs] /\ engine \in [Job -> Engines \cup {None}]
      /\ finished \subseteq Job
      /\ UNCHANGED <<stage, done, result, chosen, runs, next, outcome, finished, attempt, scanned>>
  BY <1>0, Parts, RunsAssumption
     DEF SubmitEngine, Submission, Rowed, ATypeOK, TypeOK, receipts, evidence
<1>2. client'[cl].job = j
  BY <1>0, <1>1 DEF ClientState
<1>3. /\ engine' = [engine EXCEPT ![j] = CurrentTasks[next]] /\ run' = [run EXCEPT ![j] = runs]
  BY <1>2 DEF SubmitEngine
<1>4. CurrentTasks[next] \in Engines
  <2>1. CurrentTasks \in Seq(Engines)
    BY PlanFacts DEF CurrentTasks
  <2> QED BY <1>1, <2>1
<1>5. Keeps /\ KeepsPending
  BY <1>0, <1>1, <1>3 DEF Keeps, KeepsPending, Pending
<1>6. \A k \in EvidenceKinds : Attempted(k)' /\ IsReceipt(attempt[k])'
  BY <1>1, <1>5, AttemptKept
<1>7. Outcomes' /\ ScannedMeansComplete'
  BY <1>1, <1>5, OutcomesKept, MarksKept
<1>8. ATypeOK'
  BY <1>1, <1>3, <1>4, <1>6, Parts DEF ATypeOK
<1> QED BY <1>6, <1>7, <1>8 DEF Receipts

LEMMA CrashReceipts == ASSUME AInv, ACrash PROVE ATypeOK' /\ Receipts'
<1>1. /\ stage' = [w \in Workers |-> "off"] /\ done' = {} /\ next' = 0 /\ finished' = {}
      /\ outcome' = [e \in Engines |-> "running"] /\ runs \in Nat
      /\ UNCHANGED <<rows, engine, run, result, chosen, runs, attempt, scanned>>
  BY Parts, RunsAssumption DEF ACrash, Crash, db, evidence, ATypeOK
<1>2. Keeps /\ KeepsPending
  BY <1>1 DEF Keeps, KeepsPending
<1>3. \A k \in EvidenceKinds : Attempted(k)' /\ IsReceipt(attempt[k])'
  BY <1>1, <1>2, AttemptKept
<1>4. Outcomes' /\ ScannedMeansComplete'
  BY <1>1, <1>2, OutcomesKept, MarksKept
<1>5. ATypeOK'
  BY <1>1, <1>3, Parts DEF ATypeOK, Stages, States
<1> QED BY <1>3, <1>4, <1>5 DEF Receipts

LEMMA RequestReceipts ==
    ASSUME AInv, Inv', NEW cl \in Clients, SubmitStep(cl)
    PROVE  ATypeOK' /\ Receipts'
<1>0. /\ stage \in [Workers -> Stages] /\ done \subseteq Job /\ next \in Nat
      /\ result \in [Job -> {"none", "complete", "partial"}] /\ runs \in Nat
      /\ finished \subseteq Job
  BY Parts, RunsAssumption DEF ATypeOK
<1>1. CASE StartRun(cl) \/ SubmitEngine(cl)
  BY <1>1, StartReceipts, SubmitReceipts
<1>2. CASE RecoverAndRefresh(cl) /\ Stale(cl) # {}
  <2>1. /\ UNCHANGED <<engine, run, result, chosen, runs, stage, done, next, outcome, finished>>
        /\ RefreshReceipts(rows')
        /\ rows' = [j \in Job |-> IF j \in Stale(cl) THEN "failed" ELSE rows[j]]
    BY <1>2 DEF RecoverAndRefresh, RecoverInterrupted, plan, receipts
  <2>2. /\ \A j \in Job : rows[j] # "none" => rows'[j] # "none"
        /\ \A j \in Job : rows'[j] = "done" => result[j] # "none"
    BY <2>1, Parts DEF Over
  <2>3. /\ \A k \in EvidenceKinds : Attempted(k)' /\ IsReceipt(attempt[k])'
        /\ ScannedMeansComplete' /\ scanned' \in [EvidenceKinds -> 0..runs]
    BY <2>1, <2>2, ReceiptsRefreshed
  <2>4. Outcomes'
    BY <1>0, <2>1, OutcomesKept DEF Keeps
  <2>5. ATypeOK'
    BY <2>1, <2>3, Parts DEF ATypeOK
  <2> QED BY <2>3, <2>4, <2>5 DEF Receipts
<1>3. CASE RecoverAndRefresh(cl) /\ Stale(cl) = {}
  <2>1. /\ UNCHANGED <<engine, run, result, chosen, runs, stage, done, next, receipts, evidence>>
        /\ \A j \in Job : rows'[j] = rows[j]
    BY <1>3 DEF RecoverAndRefresh, RecoverInterrupted, plan
  <2> QED BY <1>0, <2>1, NothingReported DEF KeepsPending
<1>4. CASE EnqueueEngine(cl) \/ SubmitFails(cl) \/ RejectRun(cl)
  <2>1. /\ UNCHANGED <<engine, run, result, chosen, runs, stage, done, rows, receipts, evidence>>
        /\ next' \in {next, next + 1, 0}
    BY <1>4 DEF EnqueueEngine, Enqueue, SubmitFails, RequestFails, OutOfIds, RejectRun, db, avars,
       receipts, evidence
  <2>2. next' \in Nat
    BY <1>0, <2>1
  <2> QED BY <1>0, <2>1, <2>2, NothingReported DEF KeepsPending
<1>5. CASE /\ \/ \E op \in {"analyze", "list"} \cap Ops, c \in Cases : Request(cl, op, c)
              \/ Acquire(cl) \/ Refuse(cl) \/ RecoverSnapshot(cl) \/ Register(cl)
              \/ (client[cl].op = "list" /\ Body(cl))
           /\ UNCHANGED avars
  <2>1. /\ UNCHANGED <<engine, run, result, chosen, runs, stage, done, next, receipts, evidence>>
        /\ rows' = rows
    BY <1>5 DEF Request, Acquire, Refuse, RecoverSnapshot, Register, Body, db, avars, receipts,
       evidence
  <2> QED BY <1>0, <2>1, NothingReported DEF KeepsPending
<1> QED BY <1>1, <1>2, <1>3, <1>4, <1>5 DEF SubmitStep

\* The wrapper has reported the state of its engine and writes the receipts.
LEMMA ReportRecorded ==
    ASSUME AInv, NEW w \in Workers, NEW j, j = worker[w].job, worker[w].pc = "fn",
           NEW s \in States, s = "complete" => result[j] = "complete",
           outcome' = [outcome EXCEPT ![engine[j]] = s], Record(outcome'),
           UNCHANGED <<rows, engine, run, result, chosen, runs>>
    PROVE  /\ \A k \in EvidenceKinds : Attempted(k)' /\ IsReceipt(attempt[k])'
           /\ outcome' \in [Engines -> States]
<1>1. /\ j \in Job /\ run[j] = runs /\ runs # 0 /\ rows[j] = "running" /\ engine[j] \in Engines
      /\ runs \in Nat /\ outcome \in [Engines -> States]
  BY Parts, RunsAssumption, AtWork DEF Fits, ATypeOK
<1>2. outcome' \in [Engines -> States] /\ PendingIn(runs)
  BY <1>1 DEF PendingIn, Pending
<1>3. Keeps /\ KeepsPending
  BY <1>1 DEF Keeps, KeepsPending
<1>4. PICK r, o : r = runs /\ o = outcome'
  OBVIOUS
<1>5. ASSUME NEW e \in Engines PROVE Says(r, e, o[e])'
  <2>1. o[e] = "complete" => Succeeded(r, e)
    BY <1>1, <1>4, Parts DEF Outcomes, Succeeded
  <2>2. o[e] = "complete" => Succeeded(r, e)'
    BY <1>1, <1>3, <1>4, <2>1, SuccessKept
  <2>3. PendingIn(r)'
    BY <1>2, <1>4 DEF PendingIn
  <2> QED BY <2>2, <2>3 DEF Says
<1>6. /\ r \in 1..runs' /\ o \in [Engines -> States] /\ chosen[runs] = chosen'[r]
      /\ attempt' = RecordedBy(r, chosen[runs], o)
  BY <1>1, <1>2, <1>4 DEF Record
<1>7. \A k \in EvidenceKinds : Attempted(k)' /\ IsReceipt(attempt[k])'
  BY <1>3, <1>5, <1>6, AttemptRecorded
<1> QED BY <1>2, <1>7

\* The engines that are counted as finished when their wrapper reports.
LEMMA Reported ==
    ASSUME AInv, NEW w \in Workers, stage[w] = "record", Report(w, ReportedState(w)),
           UNCHANGED <<engine, run, result, chosen, runs>>
    PROVE  /\ worker[w].pc = "fn" /\ ReportedState(w) \in States
           /\ (ReportedState(w) = "complete" => result[worker[w].job] = "complete")
           /\ outcome' = [outcome EXCEPT ![engine[worker[w].job]] = ReportedState(w)]
           /\ outcome' \in [Engines -> States] /\ Outcomes' /\ finished' \subseteq Job
           /\ Marked(w) \in [EvidenceKinds -> 0..runs]
           /\ \A k \in EvidenceKinds : Marked(w)[k] # 0 =>
                  \A e \in Required(k, chosen[Marked(w)[k]]) : Succeeded(Marked(w)[k], e)
<1> DEFINE j == worker[w].job
<1> DEFINE s == ReportedState(w)
<1>1. /\ j \in Job /\ run[j] = runs /\ runs # 0 /\ engine[j] \in Engines /\ worker[w].pc = "fn"
      /\ result[j] \in {"complete", "partial"}
      /\ runs \in Nat /\ outcome \in [Engines -> States] /\ finished \subseteq Job
      /\ scanned \in [EvidenceKinds -> 0..runs]
  BY Parts, RunsAssumption, AtWork DEF Fitting, ATypeOK
<1>2. s \in States /\ (s = "complete" => result[j] = "complete")
  BY <1>1 DEF ReportedState, JobOf, States
<1>3. /\ outcome' = [outcome EXCEPT ![engine[j]] = s]
      /\ finished' = IF s = "complete" THEN finished \cup {j} ELSE finished
  BY DEF Report, JobOf
<1> HIDE DEF s
<1>4. /\ finished' \subseteq Job
      /\ \A i \in finished' :
            i \in finished \/ (runs # 0 /\ run[i] = runs /\ result[i] = "complete")
      /\ \A i \in finished' : run[i] = runs /\ result[i] = "complete"
  BY <1>1, <1>2, <1>3, Parts DEF Outcomes
<1>5. \A e \in Engines : outcome'[e] = "complete" =>
               outcome[e] = "complete" \/ (runs # 0 /\ Succeeded(runs, e))
  BY <1>1, <1>2, <1>3 DEF Succeeded
<1>6. Outcomes'
  BY <1>1, <1>4, <1>5, OutcomesKept DEF Keeps
<1> DEFINE kinds == IF s = "complete" THEN Complete(finished') ELSE {}
<1>7. Marked(w) = [k \in EvidenceKinds |-> IF k \in kinds THEN runs ELSE scanned[k]]
  BY DEF Marked, s
<1>8. ASSUME NEW k \in kinds, NEW e \in Required(k, chosen[runs])
      PROVE  Succeeded(runs, e)
  <2>1. k \in Complete(finished')
    BY <1>8
  <2>2. PICK i \in finished' : engine[i] = e
    BY <1>8, <2>1 DEF Complete
  <2> QED BY <1>4, <2>2 DEF Succeeded
<1> HIDE DEF kinds
<1>9. /\ Marked(w) \in [EvidenceKinds -> 0..runs]
      /\ \A k \in EvidenceKinds : Marked(w)[k] # 0 =>
             \A e \in Required(k, chosen[Marked(w)[k]]) : Succeeded(Marked(w)[k], e)
  BY <1>1, <1>7, <1>8, Parts DEF ScannedMeansComplete, Succeeded
<1> QED BY <1>1, <1>2, <1>3, <1>4, <1>6, <1>9 DEF s

\* A terminal row is written together with the receipts.
LEMMA TerminalReceipts ==
    ASSUME AInv, Inv', NEW w \in Workers, CancelEngine(w) \/ PersistAndRefresh(w)
    PROVE  ATypeOK' /\ Receipts'
<1> DEFINE j == worker[w].job
<1>0. worker[w].pc \in {"begin", "persist", "fail"}
  BY DEF CancelEngine, BeginCancelled, PersistAndRefresh, Persist, PersistFailure
<1>1. /\ j \in Job /\ engine[j] \in Engines /\ runs \in Nat /\ finished \subseteq Job
      /\ done \subseteq Job /\ outcome \in [Engines -> States]
      /\ Fitting(errors, worker[w].pc, stage[w], j \in done, result[j])
      /\ rows \in [Job -> {"none"} \cup Pending \cup Terminal]
  BY <1>0, Parts, RunsAssumption, AtWork DEF ATypeOK
<1>2. /\ RefreshReceipts(rows') /\ done' \subseteq Job
      /\ outcome' \in {outcome, [outcome EXCEPT ![engine[j]] = "cancelled"]}
      /\ UNCHANGED <<engine, run, result, chosen, runs, stage, next, finished>>
  BY <1>1 DEF CancelEngine, PersistAndRefresh, JobOf, plan, receipts
<1>3. /\ \A i \in Job : rows[i] # "none" => rows'[i] # "none"
      /\ \A i \in Job : rows'[i] = "done" => result[i] # "none"
  <2>1. PICK r \in Terminal : /\ rows' = [rows EXCEPT ![j] = r]
                              /\ r = "done" => worker[w].pc = "persist"
    <3>1. worker[w].out \in Terminal
      BY <1>0, AtWork
    <3> QED BY <3>1 DEF CancelEngine, BeginCancelled, PersistAndRefresh, Persist, PersistFailure,
       SetState, Terminal
  <2>2. r = "done" => result[j] # "none"
    BY <1>1, <2>1 DEF Fitting
  <2> QED BY <1>1, <2>1, <2>2, Parts DEF Over, Terminal
<1>4. /\ \A k \in EvidenceKinds : Attempted(k)' /\ IsReceipt(attempt[k])'
      /\ ScannedMeansComplete' /\ scanned' \in [EvidenceKinds -> 0..runs]
  BY <1>2, <1>3, ReceiptsRefreshed
<1>5. outcome' \in [Engines -> States]
  BY <1>1, <1>2 DEF States
<1>6. Outcomes'
  <2>1. \A e \in Engines : outcome'[e] = "complete" => outcome[e] = "complete"
    BY <1>1, <1>2
  <2> QED BY <1>1, <1>2, <2>1, OutcomesKept DEF Keeps
<1>7. ATypeOK'
  BY <1>2, <1>4, <1>5, Parts DEF ATypeOK
<1> QED BY <1>4, <1>6, <1>7 DEF Receipts

\* A wrapper reports its engine, whether or not the receipts are written.
LEMMA ReportReceipts ==
    ASSUME AInv, NEW w \in Workers, EngineFails(w) \/ WriteReceipt(w) \/ ReceiptRaises(w)
    PROVE  ATypeOK' /\ Receipts'
<1> DEFINE j == worker[w].job
<1>0. /\ stage \in [Workers -> Stages] /\ runs \in Nat /\ finished \subseteq Job
      /\ done \subseteq Job /\ outcome \in [Engines -> States]
      /\ UNCHANGED <<rows, engine, run, result, chosen, runs, next>>
      /\ stage[w] # "off"
  BY Parts, RunsAssumption
     DEF ATypeOK, EngineFails, EngineRaises, WriteReceipt, ReceiptRaises, plan, vars, db
<1>1. j \in Job /\ engine[j] \in Engines
  BY <1>0, AtWork
<1>2. stage' \in [Workers -> Stages] /\ done' \subseteq Job
  BY <1>0, <1>1 DEF EngineFails, WriteReceipt, ReceiptRaises, JobOf, Stages
<1>3. Keeps /\ KeepsPending
  BY <1>0 DEF Keeps, KeepsPending
<1>4. CASE EngineFails(w)
  <2>1. /\ worker[w].pc = "fn" /\ outcome' = [outcome EXCEPT ![engine[j]] = "failed"]
        /\ Record(outcome') /\ finished' = finished /\ scanned' = scanned
    BY <1>4 DEF EngineFails, EngineRaises, JobOf
  <2>2. /\ \A k \in EvidenceKinds : Attempted(k)' /\ IsReceipt(attempt[k])'
        /\ outcome' \in [Engines -> States]
    BY <1>0, <2>1, ReportRecorded DEF States
  <2>3. \A e \in Engines : outcome'[e] = "complete" => outcome[e] = "complete"
    BY <1>0, <2>1
  <2>4. Outcomes' /\ ScannedMeansComplete'
    BY <1>0, <1>3, <2>1, <2>3, OutcomesKept, MarksKept
  <2>5. ATypeOK'
    BY <1>0, <1>2, <2>1, <2>2, Parts DEF ATypeOK
  <2> QED BY <2>2, <2>4, <2>5 DEF Receipts
<1>5. CASE WriteReceipt(w) \/ ReceiptRaises(w)
  <2>1. stage[w] = "record" /\ Report(w, ReportedState(w))
    BY <1>5 DEF WriteReceipt, ReceiptRaises
  <2>2. /\ worker[w].pc = "fn" /\ ReportedState(w) \in States
        /\ (ReportedState(w) = "complete" => result[j] = "complete")
        /\ outcome' = [outcome EXCEPT ![engine[j]] = ReportedState(w)]
        /\ outcome' \in [Engines -> States] /\ Outcomes' /\ finished' \subseteq Job
        /\ Marked(w) \in [EvidenceKinds -> 0..runs]
        /\ \A k \in EvidenceKinds : Marked(w)[k] # 0 =>
               \A e \in Required(k, chosen[Marked(w)[k]]) : Succeeded(Marked(w)[k], e)
    BY <1>0, <2>1, Reported
  <2>3. \A k \in EvidenceKinds : Attempted(k)' /\ IsReceipt(attempt[k])'
    <3>1. CASE WriteReceipt(w)
      <4>1. Record(outcome')
        BY <3>1 DEF WriteReceipt
      <4> QED BY <1>0, <2>2, <4>1, ReportRecorded
    <3>2. CASE ReceiptRaises(w)
      BY <1>3, <3>2, AttemptKept DEF ReceiptRaises
    <3> QED BY <1>5, <3>1, <3>2
  <2>4. scanned' = scanned \/ scanned' = Marked(w)
    BY <1>5 DEF WriteReceipt, ReceiptRaises
  <2>5. ScannedMeansComplete' /\ scanned' \in [EvidenceKinds -> 0..runs]
    <3>1. CASE scanned' = scanned
      BY <1>3, <3>1, Parts, MarksKept DEF ATypeOK
    <3>2. CASE scanned' = Marked(w)
      BY <1>0, <2>2, <3>2 DEF ScannedMeansComplete, Succeeded
    <3> QED BY <2>4, <3>1, <3>2
  <2>6. ATypeOK'
    BY <1>0, <1>2, <2>2, <2>3, <2>5, Parts DEF ATypeOK
  <2> QED BY <2>2, <2>3, <2>5, <2>6 DEF Receipts
<1> QED BY <1>4, <1>5

\* An engine returns its results, and the wrapper sets its event.
LEMMA ReturnReceipts ==
    ASSUME AInv, NEW w \in Workers, NEW res \in {"complete", "partial"},
           stage[w] \in {"wait", "work"}, Returns(w, res)
    PROVE  ATypeOK' /\ Receipts'
<1> DEFINE j == worker[w].job
<1>1. /\ j \in Job /\ result[j] = "none" /\ result \in [Job -> {"none", "complete", "partial"}]
      /\ stage \in [Workers -> Stages] /\ done \subseteq Job /\ runs \in Nat
      /\ finished \subseteq Job
  BY Parts, RunsAssumption, AtWork DEF Fitting, ATypeOK
<1>2. /\ result' = [result EXCEPT ![j] = res] /\ done' = done \cup {j}
      /\ stage' = [stage EXCEPT ![w] = "record"]
      /\ UNCHANGED <<rows, engine, run, chosen, runs, next, outcome, finished, attempt, scanned>>
  BY DEF Returns, JobOf, vars, receipts, evidence
<1>3. Keeps /\ KeepsPending
  BY <1>1, <1>2 DEF Keeps, KeepsPending
<1>4. \A k \in EvidenceKinds : Attempted(k)' /\ IsReceipt(attempt[k])'
  BY <1>2, <1>3, AttemptKept
<1>5. Outcomes' /\ ScannedMeansComplete'
  BY <1>1, <1>2, <1>3, OutcomesKept, MarksKept
<1>6. ATypeOK'
  BY <1>1, <1>2, <1>4, Parts DEF ATypeOK, Stages
<1> QED BY <1>4, <1>5, <1>6 DEF Receipts

\* A row that cannot be written: on_cancel may have reported the engine before.
LEMMA StateWriteReceipts ==
    ASSUME AInv, NEW w \in Workers, StateWriteFails(w)
    PROVE  ATypeOK' /\ Receipts'
<1> DEFINE j == worker[w].job
<1>0. worker[w].pc \in {"begin", "persist"}
  BY DEF StateWriteFails, StateWriteRaises
<1>1. /\ j \in Job /\ engine[j] \in Engines /\ runs \in Nat /\ finished \subseteq Job
      /\ done \subseteq Job /\ outcome \in [Engines -> States]
  BY <1>0, Parts, RunsAssumption, AtWork DEF ATypeOK
<1>2. /\ UNCHANGED <<rows, engine, run, result, chosen, runs, stage, next, finished, attempt,
                      scanned>>
      /\ outcome' \in {outcome, [outcome EXCEPT ![engine[j]] = "cancelled"]}
      /\ done' \subseteq Job
  BY <1>1 DEF StateWriteFails, StateWriteRaises, JobOf, plan, db, evidence
<1>3. Keeps /\ KeepsPending
  BY <1>1, <1>2 DEF Keeps, KeepsPending
<1>4. \A k \in EvidenceKinds : Attempted(k)' /\ IsReceipt(attempt[k])'
  BY <1>2, <1>3, AttemptKept
<1>5. /\ \A e \in Engines : outcome'[e] = "complete" => outcome[e] = "complete"
      /\ outcome' \in [Engines -> States]
  BY <1>1, <1>2 DEF States
<1>6. Outcomes' /\ ScannedMeansComplete'
  BY <1>1, <1>2, <1>3, <1>5, OutcomesKept, MarksKept
<1>7. ATypeOK'
  BY <1>2, <1>4, <1>5, Parts DEF ATypeOK
<1> QED BY <1>4, <1>6, <1>7 DEF Receipts

LEMMA ThreadReceipts ==
    ASSUME AInv, Inv', NEW w \in Workers, EngineStep(w)
    PROVE  ATypeOK' /\ Receipts'
<1>0. stage \in [Workers -> Stages] /\ done \subseteq Job /\ next \in Nat
  BY Parts DEF ATypeOK
<1>1. CASE CancelEngine(w) \/ PersistAndRefresh(w)
  BY <1>1, TerminalReceipts
<1>2. CASE EngineFails(w) \/ WriteReceipt(w) \/ ReceiptRaises(w)
  BY <1>2, ReportReceipts
<1>3. CASE WaitCancelled(w) \/ EngineWorks(w)
  BY <1>3, ReturnReceipts DEF WaitCancelled, EngineWorks
<1>4. CASE StateWriteFails(w)
  BY <1>4, StateWriteReceipts
<1>5. CASE BeginEngine(w)
  <2>1. /\ UNCHANGED <<engine, run, result, chosen, runs, done, next, receipts, evidence>>
        /\ rows' = [rows EXCEPT ![worker[w].job] = "running"]
        /\ rows \in [Job -> {"none"} \cup Pending \cup Terminal]
        /\ stage' = [stage EXCEPT ![w] = IF worker'[w].pc = "fn" THEN "wait" ELSE "off"]
    BY <1>5, Parts DEF BeginEngine, Begin, SetState, Started, plan, TypeOK
  <2>2. stage' \in [Workers -> Stages]
    BY <1>0, <2>1 DEF Stages
  <2> QED BY <1>0, <2>1, <2>2, NothingReported DEF KeepsPending, Pending
<1>6. CASE WaitOver(w) \/ EngineDone(w) \/ Untouched(w)
  <2>1. /\ UNCHANGED <<engine, run, result, chosen, runs, done, next, receipts, evidence, rows>>
        /\ stage' \in {stage, [stage EXCEPT ![w] = "work"], [stage EXCEPT ![w] = "off"]}
    BY <1>6 DEF WaitOver, EngineDone, EngineReturns, Untouched, Take, FailureLost, Pop, plan, vars,
       db, avars, receipts, evidence
  <2>2. stage' \in [Workers -> Stages]
    BY <1>0, <2>1 DEF Stages
  <2> QED BY <1>0, <2>1, <2>2, NothingReported DEF KeepsPending
<1> QED BY <1>1, <1>2, <1>3, <1>4, <1>5, <1>6 DEF EngineStep

LEMMA ReceiptSteps == ASSUME AInv, Inv', [ANext]_avs PROVE ATypeOK' /\ Receipts'
<1>1. CASE \/ \E j \in Job : CancelJob(j) /\ UNCHANGED avars
           \/ UNCHANGED avs
  <2>1. UNCHANGED <<engine, run, result, chosen, runs, stage, done, next, receipts, evidence, rows>>
    BY <1>1 DEF CancelJob, db, avs, avars, vars, receipts, evidence
  <2> QED BY <2>1, NothingReported, Parts DEF KeepsPending, ATypeOK
<1> QED BY <1>1, RequestReceipts, ThreadReceipts, CrashReceipts DEF ANext

-----------------------------------------------------------------------------
(* The theorems.                                                           *)

LEMMA AInitInv == AInit => AInv
<1> SUFFICES ASSUME AInit PROVE AInv
  OBVIOUS
<1>1. Inv /\ Init
  BY InitInv DEF AInit
<1>2. /\ \A j \in Job : rows[j] = "none" /\ ~InQueue(j) /\ ~Held(j) /\ kind[j] = "engine"
      /\ \A w \in Workers : worker[w].job = None /\ worker[w].pc = "idle" /\ stage[w] = "off"
      /\ \A cl \in Clients : client[cl].job = None /\ client[cl].pc = "idle"
      /\ \A c \in Cases : case[c] = "open"
      /\ queue = <<>> /\ errors = 0
  BY <1>1, JobFacts DEF AInit, Init, IdleWorker, IdleClient, InQueue, Held
<1>3. /\ engine \in [Job -> Engines \cup {None}] /\ run = [j \in Job |-> 0]
      /\ result = [j \in Job |-> "none"] /\ done = {} /\ runs = 0 /\ next = 0
      /\ outcome = [e \in Engines |-> "running"] /\ finished = {}
      /\ attempt = [k \in EvidenceKinds |-> NoAttempt]
      /\ scanned = [k \in EvidenceKinds |-> 0]
      /\ stage \in [Workers -> Stages] /\ chosen \in [Runs -> SUBSET EvidenceKinds]
  BY DEF AInit, Stages
<1>4. IsReceipt(NoAttempt) /\ NoAttempt.run = 0
  BY <1>3 DEF IsReceipt, NoAttempt
<1>5. ATypeOK
  BY <1>3, <1>4, RunsAssumption DEF ATypeOK, States
<1>6. Plan
  BY <1>2, <1>3 DEF Plan, Quiet, Submission, Current, Rowed, Ordered, Planned, Inside, InFlight,
     BeingSubmitted
<1>7. Pool
  <2>1. \A j \in Job : ~InFlight(j)
    BY <1>2, JobFacts DEF InFlight, BeingSubmitted
  <2> QED BY <1>2, <1>3, <2>1 DEF Pool, Threads, Fitting, Over, Waited, Whereabouts
<1>8. Receipts
  BY <1>3, <1>4 DEF Receipts, Outcomes, ScannedMeansComplete, Attempted
<1> QED BY <1>1, <1>5, <1>6, <1>7, <1>8 DEF AInv

LEMMA AStep == AInv /\ [ANext]_avs => AInv'
BY JobsSteps, PlanPoolSteps, ReceiptSteps DEF AInv

\* Every reachable state satisfies the inductive invariant: the jobs of a run
\* are numbered in the order of its plan and taken in that order, an event is
\* set only when the engine has a result or cannot have one any more, and what
\* a receipt says of an engine is covered by a job.
THEOREM AnalysisInvariance == ASpec => []AInv
<1> QED BY AInitInv, AStep, PTL DEF ASpec

\* scanned_at is never set by a run in which an engine that the evidence needs
\* has failed, was cancelled or has given partial results: neither the join of
\* AnalysisReceipts nor refresh_receipts counts it, in whatever order the pool
\* threads report and wherever a write of the receipt fails.
THEOREM Scanned == ASpec => []ScannedMeansComplete
<1>1. AInv => ScannedMeansComplete
  BY Parts
<1> QED BY <1>1, AnalysisInvariance, PTL

\* A job that a thread has is a job of the run under way.
LEMMA HeldIsCurrent ==
    ASSUME AInv, NEW w \in Workers, stage[w] # "off"
    PROVE  /\ JobOf(w) \in Job /\ run[JobOf(w)] = runs /\ run[JobOf(w)] # 0
           /\ InFlight(JobOf(w))
           /\ stage[w] \in {"wait", "work"} => JobOf(w) \notin done
<1>1. worker[w].pc = "fn" /\ (stage[w] \in {"wait", "work"} => JobOf(w) \notin done)
  BY Parts DEF Threads, Fitting, JobOf
<1>2. worker[w].job # None /\ JobOf(w) \in Job
  BY <1>1, Parts DEF Inv, Placed, TypeOK, WorkerState, JobOf
<1>3. rows[JobOf(w)] = "running" /\ InFlight(JobOf(w))
  BY <1>1, <1>2, Parts DEF Inv, RowsFollow, Fits, JobOf, InFlight, Held
<1> QED BY <1>1, <1>2, <1>3, Parts DEF Rowed, Current

\* log_events and content_index read the results of their run only when every
\* engine submitted before them has ended: the plan names all of them as
\* dependencies, and the wait covers what the plan names.
THEOREM Correlation == ASpec => []CorrelatesSettledResults
<1>1. ASSUME AInv, NEW v \in Workers, NEW w \in Workers,
             stage[v] = "work", engine[JobOf(v)] \in {"log_events", "content_index"},
             stage[w] \in {"wait", "work"}, run[JobOf(w)] = run[JobOf(v)],
             JobOf(w)[2] < JobOf(v)[2]
      PROVE  FALSE
  <2>1. /\ JobOf(v) \in Job /\ run[JobOf(v)] # 0
        /\ JobOf(w) \in Job /\ JobOf(w) \notin done
    BY <1>1, HeldIsCurrent
  <2>2. engine[JobOf(w)] \in DependsOn(engine[JobOf(v)])
    BY <1>1, <2>1, Parts DEF Planned, Correlating
  <2>3. JobOf(w) \in Dependencies(JobOf(v))
    BY <1>1, <2>1, <2>2 DEF Dependencies, Siblings
  <2>4. Dependencies(JobOf(v)) \subseteq done
    BY <1>1, Parts DEF Waited, JobOf
  <2> QED BY <2>1, <2>3, <2>4
<1>2. ASSUME AInv, NEW v \in Workers, NEW w \in Workers, stage[v] = "work",
             stage[w] \in {"wait", "work"}, ~(JobOf(w)[2] >= JobOf(v)[2])
      PROVE  JobOf(w)[2] < JobOf(v)[2]
  <2>1. JobOf(w) \in Job /\ JobOf(v) \in Job
    BY <1>2, HeldIsCurrent
  <2>2. JobOf(w)[2] \in Nat /\ JobOf(v)[2] \in Nat
    BY <2>1, OneCase
  <2> QED BY <1>2, <2>2
<1>3. AInv => CorrelatesSettledResults
  BY <1>1, <1>2 DEF CorrelatesSettledResults
<1> QED BY <1>3, AnalysisInvariance, PTL

\* As long as no write fails, an engine that waits inside its pool thread waits
\* for engines that other threads are at, all of them submitted before it, never
\* for one that the full pool keeps in the queue: the wait in server/app.py:1143
\* cannot end in a deadlock, however few threads there are.
THEOREM Waits == ASpec => []WaitsAreAnswered
<1>1. ASSUME AInv, errors = 0, NEW w \in Workers, stage[w] = "wait",
             NEW d \in Dependencies(JobOf(w)) \ done
      PROVE  \E v \in Workers : /\ JobOf(v) = d /\ d[2] < JobOf(w)[2]
                                /\ worker[v].pc \in {"begin", "fn"}
  <2> DEFINE j == JobOf(w)
  <2>1. j \in Job /\ run[j] = runs /\ run[j] # 0 /\ InFlight(j)
    BY <1>1, HeldIsCurrent
  <2>2. d \in Job /\ run[d] = run[j] /\ engine[d] \in DependsOn(engine[j]) /\ d \notin done
    BY <1>1 DEF Dependencies, Siblings
  <2>3. worker[w].job = j /\ j # None /\ d # None
    BY <2>1, <2>2, JobFacts DEF JobOf
  <2> HIDE DEF j
  <2>4. d[2] < j[2] /\ d[2] \in Nat /\ j[2] \in Nat
    <3>1. d[2] < j[2]
      BY <1>1, <2>1, <2>2, Parts DEF Planned
    <3> QED BY <2>1, <2>2, <3>1, OneCase
  <2>5. ~InQueue(d)
    <3>1. \A n \in 1..Len(queue) : j[2] < queue[n][2]
      BY <1>1, <2>3, Parts DEF Ordered
    <3>2. ASSUME InQueue(d) PROVE d[2] > j[2]
      BY <3>1, <3>2 DEF InQueue
    <3> QED BY <2>4, <3>2
  <2>6. ~BeingSubmitted(d)
    <3>1. ASSUME NEW cl \in Clients, client[cl].job = d PROVE j[2] < d[2]
      BY <1>1, <2>3, <3>1, Parts DEF Ordered
    <3> QED BY <2>4, <3>1 DEF BeingSubmitted
  <2>7. AtIt(d)
    BY <1>1, <2>1, <2>2, <2>5, <2>6, Parts DEF Whereabouts
  <2> QED BY <2>4, <2>7 DEF AtIt, JobOf, j
<1>2. AInv => WaitsAreAnswered
  BY <1>1 DEF WaitsAreAnswered
<1> QED BY <1>2, AnalysisInvariance, PTL

\* A receipt does not stay "running" behind the jobs of its run: when they all
\* have ended, the terminal write of the last one, or the recovery that found it
\* dead, has put another state there.
THEOREM Settling == ASpec => []ReceiptsSettle
<1>1. ASSUME AInv, NEW k \in EvidenceKinds,
             attempt[k].run # 0, RunIsSubmitted(attempt[k].run),
             \A j \in Job : run[j] = attempt[k].run => rows[j] \notin Pending
      PROVE  Status(attempt[k].engines) # "running"
  <2> DEFINE a == attempt[k]
  <2>1. Attempted(k) /\ ~PendingIn(a.run)
    BY <1>1, Parts DEF PendingIn
  <2>2. \A e \in DOMAIN a.engines : a.engines[e] # "running"
    <3>1. ASSUME NEW e \in DOMAIN a.engines PROVE HasJob(a.run, e)
      BY <1>1, <2>1, <3>1 DEF Attempted, Required, RunIsSubmitted, HasJob
    <3> QED BY <1>1, <2>1, <3>1 DEF Attempted, Says
  <2>3. "running" \notin Range(a.engines)
    BY <2>2 DEF Range
  <2> QED BY <2>3 DEF Status
<1>2. AInv => ReceiptsSettle
  BY <1>1 DEF ReceiptsSettle
<1> QED BY <1>2, AnalysisInvariance, PTL

=============================================================================
