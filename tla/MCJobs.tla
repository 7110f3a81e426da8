------------------------------- MODULE MCJobs -------------------------------
(* Instances of Jobs for TLC.  A behaviour follows one of two profiles, so *)
(* that one run covers both without their product: the requests that enter *)
(* and leave a case, and the jobs that wait for others and are cancelled.  *)
(* The requests meet a crash, the waiting jobs a failed write as well.     *)
EXTENDS Jobs, TLC

VARIABLE profile

ProfileInit == Init /\ profile \in {"requests", "waits"}

Cancels == \E j \in Job : CancelJob(j)

ProfileNext ==
    /\ Next /\ UNCHANGED profile
    /\ profile = "requests" =>
         /\ \A cl \in Clients : client'[cl].op # "submit_after"
         /\ ~Cancels
         /\ errors' = 0
    /\ profile = "waits" =>
         \A cl \in Clients : client'[cl].op \in {"submit_after", None}

ProfileSpec == ProfileInit /\ [][ProfileNext]_<<vars, profile>>

Symmetry == Permutations(Cases) \cup Permutations(Workers)
            \cup Permutations(Clients)

=============================================================================
