----------------------------- MODULE MCLiveness -----------------------------
(* What a pool thread waits for comes, in one run for two ways to wait: a  *)
(* job submitted after others, which polls the registry (Jobs), and an     *)
(* engine that waits for earlier engines of its analysis (Analysis).  A    *)
(* behaviour follows one of the two, chosen at the start (part).           *)
EXTENDS Naturals

CONSTANTS Workers, Clients, None

VARIABLES
    part,
    rows, kind, waits, live, cancelled, queue, worker, client, lock, case, mode,
    errors, crashes,
    engine, run, result, stage, done, chosen, runs, next, outcome, finished,
    attempt, scanned

Following == INSTANCE Jobs
    WITH Cases <- {"c1"}, MaxId <- 3, Ops <- {"submit_after", "cancel"},
         MaxErrors <- 1, MaxCrashes <- 0

Analyzing == INSTANCE Analysis
    WITH Cases <- {"c1"}, MaxId <- 2, Ops <- {"analyze", "cancel"},
         MaxErrors <- 0, MaxCrashes <- 0,
         Registered <- {"logs"}, YaraRules <- FALSE, MaxRuns <- 1

-----------------------------------------------------------------------------

engines == <<engine, run, result, stage, done, chosen, runs, next, outcome, finished,
             attempt, scanned>>
vars == <<part, rows, kind, waits, live, cancelled, queue, worker, client, lock, case,
          mode, errors, crashes, engines>>

\* Jobs knows nothing of engines and receipts.
NoEngines ==
    /\ engine = <<>> /\ run = <<>> /\ result = <<>> /\ stage = <<>> /\ done = {}
    /\ chosen = <<>> /\ runs = 0 /\ next = 0 /\ outcome = <<>> /\ finished = {}
    /\ attempt = <<>> /\ scanned = <<>>

Init ==
    \/ part = "following" /\ Following!Init /\ NoEngines
    \/ part = "analyzing" /\ Analyzing!AInit

Next ==
    \/ part = "following" /\ Following!Next /\ UNCHANGED <<part, engines>>
    \/ part = "analyzing" /\ Analyzing!ANext /\ UNCHANGED part

\* The fairness of the two parts (Fairness of Jobs, AFairness of Analysis).
PoolStep(w) ==
    \/ part = "following" /\ Following!WorkerStep(w) /\ UNCHANGED <<part, engines>>
    \/ part = "analyzing" /\ Analyzing!EngineStep(w) /\ UNCHANGED part

LockHolderStep(cl) ==
    /\ lock = cl
    /\ \/ part = "following" /\ Following!ClientStep(cl) /\ UNCHANGED <<part, engines>>
       \/ part = "analyzing" /\ Analyzing!SubmitStep(cl) /\ UNCHANGED part

ShutdownStep == part = "following" /\ Following!Stopped /\ UNCHANGED <<part, engines>>

FairSpec ==
    /\ Init /\ [][Next]_vars
    /\ \A w \in Workers : WF_vars(PoolStep(w))
    /\ \A cl \in Clients : WF_vars(LockHolderStep(cl))
    /\ WF_vars(ShutdownStep)

\* Every job that entered the registry leaves it, whatever it waits for (Jobs).
EveryJobLeaves == Following!EveryJobLeaves

\* A shutdown that has begun comes to its end (Jobs).
ShutdownEnds == Following!ShutdownEnds
=============================================================================
