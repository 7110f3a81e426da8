----------------------------- MODULE Transfers -----------------------------
(***************************************************************************)
(* Transfers of a case to OpenCTI (server/integrations/opencti).  A        *)
(* preview is a snapshot bound to a destination; a transfer turns it into  *)
(* a receipt and queues a job, which looks up what is there already, sends *)
(* the rest in batches, waits for the platform to import them and checks   *)
(* that the objects can be seen.  The receipt is saved after every step; a *)
(* retry queues another job for it.  The platform answers late, partly or  *)
(* not at all, and the process may crash between any two steps.            *)
(***************************************************************************)
EXTENDS Integers, Sequences, FiniteSets, FiniteSetsExt, SequencesExt

CONSTANTS
    Order,      \* the objects of the export, in the order they are sent
    Shared,     \* those that are looked up before they are sent
    BatchSize,  \* objects of one request (100)
    Conns,      \* connections: address, collection and token
    Collection, \* the remote collection of a connection
    Graphs,     \* contents of the case as far as they are exported
    Notes,      \* contents of the case that are not exported
    Callers,    \* requests handled at the same time
    MaxReceipts, MaxWorks, \* bounds: receipts, submissions
    MaxChanges, \* edits, settings, cancellations, failing writes and crashes
    MaxCalls,   \* retries
    MaxEvents   \* both together

Objects == ToSet(Order)
Colls == {Collection[c] : c \in Conns}

\* Requests have room for an object; shared content is part of the export; "none"
\* stands for what is not there.
TransferConstants ==
    /\ Order \in Seq(Objects) /\ Shared \subseteq Objects
    /\ BatchSize \in Nat \ {0} /\ MaxReceipts \in Nat /\ "none" \notin Graphs

Receipts == 1..MaxReceipts

VARIABLES
    settings,  \* the connection that is configured
    case,      \* what the case contains
    preview,   \* the stored preview, if any
    receipt,   \* the receipts saved in the case (opencti_exports)
    mapped,    \* opencti_mappings: content recorded for an object of a collection
    active,    \* receipts with a job (_ACTIVE)
    worker,    \* the job of a receipt
    caller,    \* requests under way: a transfer or a retry between its steps
    works,     \* what the platform was asked to import
    there,     \* objects the account can see in a collection
    count,     \* how often the bounded things happened
    fate,      \* history: what became of an object's last submission
    stale, \* history: receipts a retry overwrote with an older copy
    astray \* history: receipts a job of another connection worked on

local == <<active, worker, caller>>
saved == <<settings, case, preview, receipt, mapped>>
remote == <<works, there>>
vars == <<settings, case, preview, receipt, mapped, active, worker, caller, works, there,
          count, fate, stale, astray>>

States == {"none", "queued", "running", "paused", "pending", "partial", "failed", "complete"}

NewBatch(ids) == [ids |-> ids, state |-> "new", work |-> 0, failed |-> {}, verify |-> {},
                  some |-> FALSE]

\* Where an object comes in the order, and among those of a set.
Position(o) == CHOOSE i \in DOMAIN Order : Order[i] = o
Rank(objects, o) == Cardinality({p \in objects : Position(p) <= Position(o)})

\* Consecutive batches of at most BatchSize objects; the n-th object is in this one.
BatchOf(n) == (n + BatchSize - 1) \div BatchSize
Split(objects) ==
    [i \in 1..BatchOf(Cardinality(objects)) |->
        NewBatch({o \in objects : BatchOf(Rank(objects, o)) = i})]

NoPreview == [conn |-> "none"]
NoReceipt == [state |-> "none", conn |-> "none", case |-> "none", looked |-> FALSE,
              reused |-> {}, batches |-> <<>>]
NoWorker == [pc |-> "idle", conn |-> "none", cancel |-> FALSE, i |-> 1, rec |-> NoReceipt]
NoCaller == [pc |-> "idle", r |-> 0, rec |-> NoReceipt]

Used == Cardinality({r \in Receipts : receipt[r].state # "none"})
CollOf(r) == Collection[receipt[r].conn]

Init ==
    /\ settings \in Conns
    /\ case \in Graphs \X Notes
    /\ preview = NoPreview
    /\ receipt = [r \in Receipts |-> NoReceipt]
    /\ mapped = [c \in Colls |-> [o \in Objects |-> "none"]]
    /\ active = {}
    /\ worker = [r \in Receipts |-> NoWorker]
    /\ caller = [c \in Callers |-> NoCaller]
    /\ works = <<>>
    /\ there \in [Colls -> SUBSET Shared]
    /\ count = [changes |-> 0, calls |-> 0]
    /\ fate = [r \in Receipts |-> [o \in Objects |-> "new"]]
    /\ stale = {} /\ astray = {}

Counted(what, bound) ==
    /\ count[what] < bound /\ count.changes + count.calls < MaxEvents
    /\ count' = [count EXCEPT ![what] = @ + 1]

-----------------------------------------------------------------------------
(* Preview, transfer and retry.                                            *)

\* The receipts of the collection that is configured, and the latest of them.
SameCollection ==
    {r \in Receipts : receipt[r].state # "none" /\ CollOf(r) = Collection[settings]}
LastReceipt == Max(SameCollection)

\* The latest receipt of the collection is complete and has the same content.
AlreadyExported(graph) ==
    /\ SameCollection # {}
    /\ receipt[LastReceipt].state = "complete" /\ receipt[LastReceipt].case[1] = graph

\* The list of the interface: what the local receipts say of the case now.
SyncStatus ==
    LET last == receipt[LastReceipt]
    IN  IF SameCollection = {} THEN "new"
        ELSE IF last.case # case THEN "changed"
        ELSE IF last.state = "complete" THEN "exported"
        ELSE IF last.state \in {"partial", "failed"} THEN "error" ELSE "new"

Preview ==
    /\ Used < MaxReceipts
    /\ preview' = [conn |-> settings, case |-> case, mapped |-> mapped[Collection[settings]]]
    /\ UNCHANGED <<settings, case, receipt, mapped, local, remote, count, fate, stale, astray>>

PreviewExpires ==
    /\ preview # NoPreview /\ preview' = NoPreview
    /\ UNCHANGED <<settings, case, receipt, mapped, local, remote, count, fate, stale, astray>>

\* transfer, under the lock of the case.
StillPreviewed ==
    /\ preview # NoPreview
    /\ preview.conn = settings /\ preview.case = case
    /\ preview.mapped = mapped[Collection[settings]]
    /\ ~AlreadyExported(case[1])

Transfer(c) ==
    LET r == Used + 1
        new == [NoReceipt EXCEPT !.state = "queued", !.conn = preview.conn,
                                 !.case = preview.case, !.batches = Split(Objects)]
    IN  /\ caller[c].pc = "idle" /\ Used < MaxReceipts /\ StillPreviewed
        /\ receipt' = [receipt EXCEPT ![r] = new]
        /\ preview' = NoPreview
        /\ caller' = [caller EXCEPT ![c] = [pc |-> "queue", r |-> r, rec |-> new]]
        /\ UNCHANGED <<settings, case, mapped, active, worker, remote, count, fate, stale, astray>>

\* Mutant: the objects that did not fail are taken for seen.
ResetForgetsVerification(b) ==
    IF b.state # "failed" THEN b
    ELSE [b EXCEPT !.state = "new", !.work = 0,
                   !.ids = IF b.failed = {} THEN @ ELSE b.failed]

\* Mutant: the whole batch is sent again.
ResetAll(b) == IF b.state = "failed" THEN [b EXCEPT !.state = "new", !.work = 0] ELSE b

\* Only what failed is sent again, but the whole batch still has to be seen.
ResetFailed(b) ==
    IF b.state # "failed" THEN b
    ELSE [b EXCEPT !.state = "new", !.work = 0,
                   !.ids = IF b.failed = {} THEN @ ELSE b.failed,
                   !.verify = IF b.failed # {} /\ @ = {} THEN b.ids ELSE @]

\* retry reads the receipt and checks it, without a lock ...
RetryReads(c, r) ==
    /\ caller[c].pc = "idle" /\ Counted("calls", MaxCalls)
    /\ receipt[r].state \notin {"none", "complete"}
    /\ receipt[r].conn = settings /\ receipt[r].case[1] = case[1]
    /\ LET rec == receipt[r]
           reset == [i \in DOMAIN rec.batches |-> ResetFailed(rec.batches[i])]
       IN  caller' = [caller EXCEPT ![c] =
                        [pc |-> "save", r |-> r, rec |-> [rec EXCEPT !.batches = reset]]]
    /\ UNCHANGED <<saved, active, worker, remote, fate, stale, astray>>

\* ... saves it ...
RetrySaves(c) ==
    LET r == caller[c].r
        rec == [caller[c].rec EXCEPT !.state = "queued"]
        now == receipt[r].batches
    IN  /\ caller[c].pc = "save"
        /\ receipt' = [receipt EXCEPT ![r] = rec]
        /\ caller' = [caller EXCEPT ![c].pc = "queue", ![c].rec = rec]
        /\ stale' = IF rec.batches = [i \in DOMAIN now |-> ResetFailed(now[i])]
                         THEN stale ELSE stale \cup {r}
        /\ UNCHANGED <<settings, case, preview, mapped, active, worker, remote, count, fate,
                       astray>>

\* ... and queues a job, unless there is one (_queue_export).
Queue(c) ==
    LET r == caller[c].r
    IN  /\ caller[c].pc = "queue"
        /\ caller' = [caller EXCEPT ![c] = NoCaller]
        /\ IF r \in active THEN UNCHANGED <<active, worker, stale>>
           ELSE \/ /\ active' = active \cup {r}
                   /\ stale' = IF caller[c].rec.batches = receipt[r].batches
                               THEN stale ELSE stale \cup {r}
                   /\ worker' = [worker EXCEPT ![r] =
                        [NoWorker EXCEPT !.pc = "queued", !.conn = settings,
                                         !.rec = caller[c].rec]]
                \/ UNCHANGED <<active, worker, stale>> \* it could not be submitted
        /\ UNCHANGED <<saved, remote, count, fate, astray>>

-----------------------------------------------------------------------------
(* The job of a receipt.                                                   *)

Batch(r) == worker[r].rec.batches[worker[r].i]
SetBatch(r, b) == [worker[r].rec EXCEPT !.batches[worker[r].i] = b]

\* Progress of the job with an updated receipt that is also saved (_save_export).
Save(r, pc, rec) ==
    /\ worker' = [worker EXCEPT ![r].pc = pc, ![r].rec = rec]
    /\ receipt' = [receipt EXCEPT ![r] = rec]

\* The job ends with this state; the key is released afterwards.
Stop(r, rec, state) == Save(r, "release", [rec EXCEPT !.state = state])

\* The except branch: something arrived, or nothing did.
Fail(r, rec) ==
    Stop(r, rec, IF \E i \in DOMAIN rec.batches :
                        rec.batches[i].state = "complete" \/ rec.batches[i].some
                 THEN "partial" ELSE "failed")

\* Objects the platform shows to the account: exact lookups of shared content,
\* and later the resolution of the identities that were sent.
Seen(r, objects) == objects \cap there[Collection[worker[r].conn]]

\* A request that fails, is refused or times out ends the job.
NoAnswer(r) == Fail(r, worker[r].rec)

\* What the platform makes of a submission: work with a name of its own.
Submission(r) ==
    [coll |-> Collection[worker[r].conn], ids |-> Batch(r).ids, done |-> FALSE,
     failed |-> {}, named |-> {}]

\* The receipt of the work: complete or pending, with consistent counts.
TaxiiStatus(r) == works[Batch(r).work]

unasked == <<settings, case, preview, active, caller, count, stale>>
quiet == <<unasked, astray>>

\* _run of the job manager: a job cancelled in the queue only pauses its receipt,
\* or leaves it as it is when that cannot be saved, and releases its key.  A job
\* whose start cannot be written is never called, and nobody releases its key.
Pick(r) ==
    /\ worker[r].pc = "queued"
    /\ \/ /\ worker[r].cancel /\ Stop(r, worker[r].rec, "paused") /\ UNCHANGED count
       \/ /\ worker[r].cancel /\ Counted("changes", MaxChanges)
          /\ worker' = [worker EXCEPT ![r].pc = "release"] /\ UNCHANGED receipt
       \/ /\ ~worker[r].cancel /\ UNCHANGED <<receipt, count>>
          /\ worker' = [worker EXCEPT ![r].pc = "begin"]
       \/ /\ ~worker[r].cancel /\ Counted("changes", MaxChanges)
          /\ worker' = [worker EXCEPT ![r].pc = "unstarted"] /\ UNCHANGED receipt
    /\ UNCHANGED <<settings, case, preview, active, caller, stale, astray, mapped, remote, fate>>

\* The settings of now and the case are compared with the receipt once more, then
\* connectors are looked at; the client is that of the settings of the queueing.
Begin(r) ==
    /\ worker[r].pc = "begin"
    /\ \/ /\ settings = worker[r].rec.conn /\ case = worker[r].rec.case
          /\ Save(r, "lookup", [worker[r].rec EXCEPT !.state = "running"])
          /\ astray' = IF worker[r].conn = worker[r].rec.conn THEN astray ELSE astray \cup {r}
       \/ NoAnswer(r) /\ UNCHANGED astray
    /\ UNCHANGED <<unasked, mapped, remote, fate>>

Record(r, objects) ==
    mapped' = [mapped EXCEPT ![CollOf(r)] =
                 [o \in Objects |-> IF o \in objects THEN worker[r].rec.case[1] ELSE @[o]]]

\* _prepare_shared: what exists is mapped and not sent; lookups stop half-way
\* when the job is cancelled or one of them fails.
Lookup(r) ==
    LET rec == worker[r].rec
        found == Seen(r, Shared)
        wire == [rec EXCEPT !.looked = TRUE, !.reused = found,
                            !.batches = Split(Objects \ found)]
    IN  /\ worker[r].pc = "lookup"
        /\ \/ /\ rec.looked /\ UNCHANGED mapped
              /\ IF worker[r].cancel THEN Stop(r, rec, "paused") ELSE Save(r, "batch", rec)
           \/ /\ ~rec.looked /\ worker[r].cancel
              /\ \E part \in SUBSET found : Record(r, part)
              /\ Stop(r, rec, "paused")
           \/ /\ ~rec.looked
              /\ \E part \in SUBSET found : Record(r, part)
              /\ Fail(r, rec)
           \/ /\ ~rec.looked /\ ~worker[r].cancel
              /\ Record(r, found)
              /\ Save(r, "batch", wire)
        /\ UNCHANGED <<quiet, remote, fate>>

\* The top of the loop: the next batch, and what is known of it.
NextBatch(r) ==
    /\ worker[r].pc = "batch"
    /\ IF worker[r].i > Len(worker[r].rec.batches)
       THEN worker' = [worker EXCEPT ![r].pc = "labels"] /\ UNCHANGED receipt
       ELSE IF worker[r].cancel THEN Stop(r, worker[r].rec, "paused")
       ELSE IF Batch(r).state = "complete"
       THEN worker' = [worker EXCEPT ![r].i = @ + 1] /\ UNCHANGED receipt
       ELSE IF Batch(r).work # 0
       THEN worker' = [worker EXCEPT ![r].pc = "wait"] /\ UNCHANGED receipt
       ELSE Save(r, "push", SetBatch(r, [Batch(r) EXCEPT !.state = "submitting"]))
    /\ UNCHANGED <<quiet, mapped, remote, fate>>

\* push: the request may be lost, or the answer of a request that arrived.
Push(r) ==
    /\ worker[r].pc = "push"
    /\ fate' = [fate EXCEPT ![r] = [o \in Objects |->
                    IF o \in Batch(r).ids THEN "sent" ELSE @[o]]]
    /\ \/ UNCHANGED works /\ NoAnswer(r)
       \/ /\ Len(works) < MaxWorks /\ works' = Append(works, Submission(r))
          /\ NoAnswer(r)
       \/ /\ Len(works) < MaxWorks /\ works' = Append(works, Submission(r))
          /\ worker' = [worker EXCEPT ![r].pc = "keep", ![r].rec = SetBatch(r,
                [Batch(r) EXCEPT !.work = Len(works) + 1, !.state = "pending"])]
          /\ UNCHANGED receipt
    /\ UNCHANGED <<quiet, mapped, there>>

KeepWork(r) ==
    /\ worker[r].pc = "keep"
    /\ Save(r, "wait", worker[r].rec)
    /\ fate' = [fate EXCEPT ![r] = [o \in Objects |->
                    IF o \in Batch(r).ids THEN "accepted" ELSE @[o]]]
    /\ UNCHANGED <<quiet, mapped, remote>>

\* _wait_taxii: not yet, cancelled, no answer, failures, or all imported.
Wait(r) ==
    LET w == TaxiiStatus(r)
        named == w.named \cap Batch(r).ids
        seen == Seen(r, Batch(r).ids \ named)
        failed(done) == SetBatch(r, [Batch(r) EXCEPT !.state = "failed", !.failed = named,
                                                     !.some = done # {}])
    IN  /\ worker[r].pc = "wait"
        /\ \/ /\ worker[r].cancel /\ UNCHANGED <<mapped, fate>>
              /\ Stop(r, worker[r].rec, "paused")
           \/ /\ ~w.done /\ ~worker[r].cancel /\ UNCHANGED <<mapped, fate>>
              /\ Stop(r, worker[r].rec, "pending")
           \/ NoAnswer(r) /\ UNCHANGED <<mapped, fate>>
           \/ /\ w.done /\ w.failed # {}
              /\ fate' = [fate EXCEPT ![r] = [o \in Objects |->
                            IF o \in (IF named = {} THEN Batch(r).ids ELSE named)
                            THEN "failed" ELSE @[o]]]
              /\ \E done \in (IF named = {} THEN {{}} ELSE SUBSET seen) :
                    Record(r, done) /\ Fail(r, failed(done))
           \/ /\ w.done /\ w.failed = {} /\ UNCHANGED <<mapped, fate, receipt>>
              /\ worker' = [worker EXCEPT
                    ![r].pc = "verify",
                    ![r].rec = SetBatch(r, [Batch(r) EXCEPT !.state = "verifying"])]
        /\ UNCHANGED <<quiet, remote>>

ToVerify(b) == IF b.verify = {} THEN b.ids ELSE b.verify

\* Imported is not enough: every object has to be visible to the account.
Verify(r) ==
    /\ worker[r].pc = "verify"
    /\ \/ /\ Seen(r, ToVerify(Batch(r))) = ToVerify(Batch(r))
          /\ Record(r, ToVerify(Batch(r)))
          /\ LET rec == SetBatch(r, [Batch(r) EXCEPT !.state = "complete"])
             IN  /\ worker' = [worker EXCEPT ![r].pc = "batch", ![r].i = @ + 1, ![r].rec = rec]
                 /\ receipt' = [receipt EXCEPT ![r] = rec]
          /\ fate' = [fate EXCEPT ![r] = [o \in Objects |->
                        IF o \in ToVerify(Batch(r)) THEN "complete" ELSE @[o]]]
       \/ /\ Seen(r, ToVerify(Batch(r))) # ToVerify(Batch(r))
          /\ Fail(r, SetBatch(r, [Batch(r) EXCEPT !.state = "unverified"]))
          /\ UNCHANGED <<mapped, fate>>
       \/ NoAnswer(r) /\ UNCHANGED <<mapped, fate>>
    /\ UNCHANGED <<quiet, remote>>

\* The labels of addresses, then the receipt is complete.
Finish(r) ==
    /\ worker[r].pc = "labels"
    /\ \/ worker[r].cancel /\ Stop(r, worker[r].rec, "paused")
       \/ NoAnswer(r)
       \/ Stop(r, worker[r].rec, "complete")
    /\ UNCHANGED <<quiet, mapped, remote, fate>>

\* Mutant: the key is only released when the transfer is complete.
ReleaseComplete(r) == IF worker[r].rec.state = "complete" THEN active \ {r} ELSE active

Released(r) == active \ {r}

Release(r) ==
    /\ worker[r].pc = "release"
    /\ active' = Released(r)
    /\ worker' = [worker EXCEPT ![r] = NoWorker]
    /\ UNCHANGED <<saved, caller, remote, count, fate, stale, astray>>

Cancel(r) ==
    /\ worker[r].pc \notin {"idle", "unstarted", "release"} /\ ~worker[r].cancel
    /\ Counted("changes", MaxChanges)
    /\ worker' = [worker EXCEPT ![r].cancel = TRUE]
    /\ UNCHANGED <<saved, active, caller, remote, fate, stale, astray>>

-----------------------------------------------------------------------------
(* The platform, the analyst and the process.                              *)

\* The platform names the objects that failed, some of them or none.
Import(w) ==
    /\ ~works[w].done
    /\ \E failed \in SUBSET works[w].ids :
          /\ \E named \in SUBSET failed :
                works' = [works EXCEPT ![w].done = TRUE, ![w].failed = failed,
                                       ![w].named = named]
          /\ \E hidden \in SUBSET (works[w].ids \ failed) :
                there' = [there EXCEPT ![works[w].coll] = @ \cup ((works[w].ids \ failed) \ hidden)]
    /\ UNCHANGED <<saved, local, count, fate, stale, astray>>

\* The rights of the account change and an imported object becomes visible.
Appear(w, o) ==
    /\ works[w].done /\ o \in works[w].ids \ works[w].failed
    /\ o \notin there[works[w].coll]
    /\ there' = [there EXCEPT ![works[w].coll] = @ \cup {o}]
    /\ UNCHANGED <<saved, local, works, count, fate, stale, astray>>

Edit ==
    /\ Counted("changes", MaxChanges)
    /\ case' \in (Graphs \X Notes) \ {case}
    /\ UNCHANGED <<settings, preview, receipt, mapped, local, remote, fate, stale, astray>>

Configure ==
    /\ Counted("changes", MaxChanges)
    /\ settings' \in Conns \ {settings}
    /\ UNCHANGED <<case, preview, receipt, mapped, local, remote, fate, stale, astray>>

Crash ==
    /\ Counted("changes", MaxChanges)
    /\ active' = {}
    /\ worker' = [r \in Receipts |-> NoWorker]
    /\ caller' = [c \in Callers |-> NoCaller]
    /\ UNCHANGED <<saved, remote, fate, stale, astray>>

-----------------------------------------------------------------------------

Work(r) == \/ Pick(r) \/ Begin(r) \/ Lookup(r) \/ NextBatch(r) \/ Push(r) \/ KeepWork(r)
           \/ Wait(r) \/ Verify(r) \/ Finish(r) \/ Release(r)

Request(c) == \/ Transfer(c) \/ RetrySaves(c) \/ Queue(c)
              \/ \E r \in Receipts : RetryReads(c, r)

Next == \/ Preview \/ PreviewExpires \/ Edit \/ Configure \/ Crash
        \/ \E c \in Callers : Request(c)
        \/ \E r \in Receipts : Work(r) \/ Cancel(r)
        \/ \E w \in DOMAIN works : Import(w) \/ \E o \in Objects : Appear(w, o)

Spec == Init /\ [][Next]_vars

-----------------------------------------------------------------------------
(* Properties.                                                             *)

\* Every object of the export can be seen in the collection of the receipt and is
\* recorded with its identity.
Verified(r) ==
    \A o \in Objects : o \in there[CollOf(r)] /\ mapped[CollOf(r)][o] # "none"

\* A receipt says complete only when every object of the reviewed export can
\* be seen in the collection and is recorded with its identity, whether it was
\* found before, imported by this job, or by an earlier one that failed for
\* other objects of the batch (run of _queue_export, verify_ids of retry).  What
\* the interface lists as exported is visible where the case would be sent now.
\* The exception is a receipt that a job queued under other settings worked on.
CompleteIsVisible ==
    /\ SyncStatus = "exported" => there[Collection[settings]] = Objects
                                  \/ LastReceipt \in astray
    /\ \A r \in Receipts \ astray : receipt[r].state = "complete" => Verified(r)

\* "Completion requires consistent TAXII status and visible imported objects"
\* (docs/opencti.md), at the destination the preview was bound to.
CompletionIsVerified == \A r \in Receipts : receipt[r].state = "complete" => Verified(r)

Pushed(r) == worker[r].pc = "push" /\ worker'[r].pc \in {"keep", "release"}

\* What a step submits was new, was not acknowledged or has failed.
OnlyFailedAreSent ==
    \A r \in Receipts : Pushed(r) /\ r \notin stale =>
        \A o \in Batch(r).ids : fate[r][o] \in {"new", "sent", "failed"}

\* A job sends an object again only if the acknowledgement of its last
\* submission was lost or the platform reported a failure: work that was
\* accepted is waited for and a completed batch is left alone, through pauses,
\* failures and crashes.  The exception is a receipt that a request wrote or
\* queued from a copy it had read before another job changed it.
SendsAgainOnlyWhatFailed == [][OnlyFailedAreSent]_vars

\* Completed batches are not resubmitted during retry (docs/opencti.md).
CompletedIsNotResubmitted ==
    [][\A r \in Receipts : Pushed(r) =>
          \A o \in Batch(r).ids : fate[r][o] # "complete"]_vars

\* The job of a receipt is queued or running.
AtWork(r) == worker[r].pc \notin {"idle", "unstarted"}

\* A receipt that refuses another job has one that will release it: the key is
\* in _ACTIVE only while its job is queued or running, whichever way it ended,
\* so that a retry is never refused for good.  The exception is a job whose start
\* could not be written.
BlockedOnlyByAJob == \A r \in active : AtWork(r) \/ worker[r].pc = "unstarted"
=============================================================================
