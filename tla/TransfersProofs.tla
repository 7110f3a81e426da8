--------------------------- MODULE TransfersProofs --------------------------
(***************************************************************************)
(* Proofs about Transfers for any export, batch size, connections, callers *)
(* and receipts, and for any number of changes, retries and crashes.       *)
(*                                                                         *)
(* The argument: a receipt exists three times, as it is saved, as its job  *)
(* holds it and as a request has read it.  Each copy is well formed: its   *)
(* batches share no object, the looked-up objects and what is still to be  *)
(* verified cover the export, and a reset keeps both (Formed).  What a     *)
(* copy says has been found or verified was seen at its collection, and    *)
(* what was seen stays recorded (Vouched), unless a job of another         *)
(* connection was at work.  A copy that may be sent from holds as sendable *)
(* only what was not acknowledged or has failed (Clean).  The step of the  *)
(* job says what it has done so far (AtStep).                              *)
(***************************************************************************)
EXTENDS Transfers, FiniteSetTheorems, SequenceTheorems, WellFoundedInduction, TLAPS

-----------------------------------------------------------------------------
(* The inductive invariant.                                                *)

Contents == Graphs \X Notes
ABatch == [ids : SUBSET Objects, state : {"new", "submitting", "pending", "verifying",
                                          "unverified", "failed", "complete"},
           work : Nat, failed : SUBSET Objects, verify : SUBSET Objects, some : BOOLEAN]
Copy == [state : States, conn : Conns \cup {"none"}, case : {"none"} \cup Contents,
         looked : BOOLEAN, reused : SUBSET Objects, batches : Seq(ABatch)]
Steps == {"idle", "queued", "begin", "lookup", "batch", "push", "keep", "wait", "verify",
          "labels", "release", "unstarted"}
Thread == [pc : Steps, conn : Conns \cup {"none"}, cancel : BOOLEAN, i : Nat \ {0},
           rec : Copy]
Submitted == [coll : Colls, ids : SUBSET Objects, done : BOOLEAN,
              failed : SUBSET Objects, named : SUBSET Objects]
Fates == {"new", "sent", "accepted", "failed", "complete"}

TTypeOK ==
    /\ settings \in Conns /\ case \in Contents
    /\ receipt \in [Receipts -> Copy]
    /\ mapped \in [Colls -> [Objects -> Graphs \cup {"none"}]]
    /\ there \in [Colls -> SUBSET Objects]
    /\ worker \in [Receipts -> Thread]
    /\ caller \in [Callers -> [pc : {"idle", "save", "queue"}, r : Nat, rec : Copy]]
    /\ works \in Seq(Submitted)
    /\ active \subseteq Receipts /\ stale \subseteq Receipts /\ astray \subseteq Receipts
    /\ fate \in [Receipts -> [Objects -> Fates]]

\* Receipts are numbered from 1 without a gap.
Numbered ==
    \E n \in 0..MaxReceipts : {r \in Receipts : receipt[r].state # "none"} = 1..n

Scope(b) == b.ids \cup b.verify

AllComplete(x) == \A i \in DOMAIN x.batches : x.batches[i].state = "complete"

\* A copy of a receipt, whoever holds it.
Formed(x) ==
    /\ x.conn \in Conns /\ x.case \in Contents
    /\ \A i, k \in DOMAIN x.batches :
          i # k => Scope(x.batches[i]) \cap Scope(x.batches[k]) = {}
    /\ \A i \in DOMAIN x.batches : /\ x.batches[i].failed \subseteq x.batches[i].ids
                                   /\ x.batches[i].state = "failed" => x.batches[i].work # 0
                                   /\ x.batches[i].verify # {} =>
                                        x.batches[i].ids \subseteq x.batches[i].verify
    /\ x.looked => \A o \in Objects :
          o \in x.reused \/ \E i \in DOMAIN x.batches : o \in ToVerify(x.batches[i])
    /\ ~x.looked => x.batches = Split(Objects)
    /\ x.state = "complete" => x.looked /\ AllComplete(x)

\* An object was seen at a collection, and its identity recorded.
Recorded(coll, o) == o \in there[coll] /\ mapped[coll][o] # "none"

Vouched(x) ==
    /\ x.looked => \A o \in x.reused : Recorded(Collection[x.conn], o)
    /\ \A i \in DOMAIN x.batches : x.batches[i].state = "complete" =>
          \A o \in ToVerify(x.batches[i]) : Recorded(Collection[x.conn], o)

\* What a retry would send of a batch.
Sendable(b) ==
    IF b.state = "failed" THEN IF b.failed = {} THEN b.ids ELSE b.failed
    ELSE IF b.state # "complete" /\ b.work = 0 THEN b.ids ELSE {}

MayBeSent(r, o) == fate[r][o] \in {"new", "sent", "failed"}
Clean(r, x) == \A i \in DOMAIN x.batches : \A o \in Sendable(x.batches[i]) : MayBeSent(r, o)

\* A copy of the receipt r.
CopyOf(r, x) ==
    /\ r \in Receipts /\ receipt[r].state # "none"
    /\ x.conn = receipt[r].conn /\ x.case = receipt[r].case /\ x.state # "none"
    /\ Formed(x)
    /\ r \notin astray => Vouched(x)

AtStep(r, w) ==
    LET n == Len(w.rec.batches) IN
    /\ w.conn \in Conns
    /\ w.pc \in {"queued", "begin", "lookup"} => w.i = 1
    /\ w.pc \in {"queued", "begin"} => w.rec.state = "queued"
    /\ w.pc \in {"lookup", "batch", "push", "keep", "wait", "verify", "labels"} =>
          /\ w.rec.state = "running"
          /\ r \notin astray => w.conn = w.rec.conn
    /\ w.pc \in {"batch", "push", "keep", "wait", "verify", "labels"} => w.rec.looked
    /\ w.pc \notin {"idle", "release"} =>
          \A k \in 1..n : k < w.i => w.rec.batches[k].state = "complete"
    /\ w.pc \in {"push", "keep", "wait", "verify"} =>
          w.i <= n /\ w.rec.batches[w.i].state # "complete"
    /\ w.pc = "push" => w.rec.batches[w.i].state # "failed" /\ w.rec.batches[w.i].work = 0
    /\ w.pc \in {"keep", "verify"} => w.rec.batches[w.i].state # "failed"
    /\ w.pc \in {"keep", "wait", "verify"} => w.rec.batches[w.i].work # 0
    /\ w.pc = "labels" => AllComplete(w.rec)

Saved == \A r \in Receipts : /\ receipt[r].state # "none" => CopyOf(r, receipt[r])
                             /\ receipt[r].state = "none" =>
                                   \A o \in Objects : fate[r][o] = "new"
Working == \A r \in Receipts : worker[r].pc # "idle" =>
               CopyOf(r, worker[r].rec) /\ AtStep(r, worker[r])
Asking == \A c \in Callers : caller[c].pc # "idle" =>
              /\ CopyOf(caller[c].r, caller[c].rec)
              /\ caller[c].pc = "queue" => caller[c].rec.state = "queued"
Unsent == \A r \in Receipts \ stale :
              /\ Clean(r, receipt[r])
              /\ worker[r].pc # "idle" => Clean(r, worker[r].rec)

TInv == /\ TTypeOK /\ Numbered /\ Saved /\ Working /\ Asking /\ Unsent
        /\ BlockedOnlyByAJob

-----------------------------------------------------------------------------
(* Batches.                                                                *)

\* The export is finite, as it is sent in an order.
LEMMA ExportIsFinite == ASSUME TransferConstants PROVE IsFiniteSet(Objects)
<1> DEFINE n == Len(Order)
           f == [i \in 1..n |-> Order[i]]
<1>1. n \in Nat /\ DOMAIN Order = 1..n /\ \A i \in 1..n : Order[i] \in Objects
  BY DEF TransferConstants
<1>2. IsFiniteSet(1..n)
  BY <1>1, FS_Interval
<1> HIDE DEF n
<1>3. f \in [1..n -> Objects] /\ \A o \in Objects : \E i \in 1..n : f[i] = o
  BY <1>1 DEF Objects, ToSet
<1> HIDE DEF f
<1>4. f \in Surjection(1..n, Objects)
  BY <1>3 DEF Surjection
<1> QED BY <1>2, <1>4, FS_Surjection

\* The batch of an earlier object comes no later.
LEMMA BatchOrder ==
    ASSUME TransferConstants, NEW m \in Nat, NEW n \in Nat, 1 <= m, m <= n
    PROVE  BatchOf(m) \in 1..BatchOf(n)
<1>1. BatchSize \in Nat /\ BatchSize >= 1
  BY DEF TransferConstants
<1>2. \A a, b \in Int, d \in Nat : d >= 1 /\ a <= b => a \div d <= b \div d
  OBVIOUS
<1>3. \A a \in Int, d \in Nat : d >= 1 /\ d <= a => 1 <= a \div d
  OBVIOUS
<1>4. \A a \in Int, d \in Nat : d >= 1 => a \div d \in Int
  OBVIOUS
<1> QED BY <1>1, <1>2, <1>3, <1>4 DEF BatchOf

\* The batches of a split hold its objects, each in one of them.
LEMMA SplitBatches ==
    ASSUME TransferConstants, NEW S \in SUBSET Objects
    PROVE  /\ Split(S) \in Seq(ABatch)
           /\ \A i \in DOMAIN Split(S) :
                 /\ Split(S)[i].state = "new" /\ Split(S)[i].work = 0
                 /\ Split(S)[i].failed = {} /\ Split(S)[i].verify = {}
                 /\ Split(S)[i].ids \subseteq S
           /\ \A o \in S : \E i \in DOMAIN Split(S) : o \in Split(S)[i].ids
           /\ \A i, k \in DOMAIN Split(S) : i # k => Split(S)[i].ids \cap Split(S)[k].ids = {}
<1> DEFINE n == BatchOf(Cardinality(S))
           B(i) == {o \in S : BatchOf(Rank(S, o)) = i}
<1>1. IsFiniteSet(S) /\ Cardinality(S) \in Nat
  BY ExportIsFinite, FS_Subset, FS_CardinalityType
<1>2. n \in Nat
  <2>1. CASE Cardinality(S) = 0
    <3>1. BatchSize \in Nat /\ BatchSize >= 1
      BY DEF TransferConstants
    <3>2. \A d \in Nat : d >= 1 => (0 + d - 1) \div d \in Nat
      OBVIOUS
    <3> QED BY <2>1, <3>1, <3>2 DEF BatchOf
  <2>2. CASE Cardinality(S) >= 1
    BY <1>1, <2>2, BatchOrder
  <2> QED BY <1>1, <2>1, <2>2
<1>3. ASSUME NEW o \in S PROVE BatchOf(Rank(S, o)) \in 1..n
  <2> DEFINE T == {p \in S : Position(p) <= Position(o)}
  <2>1. Position(o) \in Nat
    <3>1. \E i \in DOMAIN Order : Order[i] = o
      BY DEF Objects, ToSet
    <3>2. DOMAIN Order \subseteq Nat
      BY DEF TransferConstants
    <3> QED BY <3>1, <3>2 DEF Position
  <2>2. o \in T /\ T \in SUBSET S
    BY <2>1
  <2> HIDE DEF T
  <2>3. /\ IsFiniteSet(T) /\ Cardinality(T) <= Cardinality(S) /\ Cardinality(T) \in Nat
        /\ Cardinality(T) # 0
    BY <1>1, <2>2, FS_Subset, FS_CardinalityType, FS_EmptySet
  <2>4. Rank(S, o) = Cardinality(T)
    BY DEF Rank, T
  <2> QED BY <1>1, <2>3, <2>4, BatchOrder
<1> HIDE DEF n
<1>4. Split(S) = [i \in 1..n |-> NewBatch(B(i))]
  BY DEF Split, n
<1>5. \A i \in 1..n : NewBatch(B(i)) \in ABatch
  BY DEF NewBatch, ABatch
<1>6. DOMAIN Split(S) = 1..n /\ \A i \in 1..n : Split(S)[i] = NewBatch(B(i))
  BY <1>4
<1>7. Split(S) \in Seq(ABatch)
  <2>1. Split(S) \in [1..n -> ABatch]
    BY <1>4, <1>5
  <2> QED BY <1>2, <2>1, SeqDef
<1>8. \A i \in 1..n : /\ Split(S)[i].state = "new" /\ Split(S)[i].work = 0
                      /\ Split(S)[i].failed = {} /\ Split(S)[i].verify = {}
                      /\ Split(S)[i].ids = B(i)
  BY <1>6 DEF NewBatch
<1> QED BY <1>3, <1>6, <1>7, <1>8

\* Batches before anything was sent are complete in no case and may be sent.
LEMMA SplitCopy ==
    ASSUME TransferConstants, NEW x \in Copy, x.conn \in Conns, x.case \in Contents,
           NEW S \in SUBSET Objects, x.batches = Split(S), x.state # "complete",
           x.looked => x.reused \cup S = Objects,
           ~x.looked => S = Objects
    PROVE  /\ Formed(x)
           /\ x.looked /\ (\A o \in x.reused : Recorded(Collection[x.conn], o)) => Vouched(x)
           /\ ~x.looked => Vouched(x)
           /\ \A r : (\A o \in S : MayBeSent(r, o)) => Clean(r, x)
<1> DEFINE s == Split(S)
<1>1. /\ s \in Seq(ABatch)
      /\ \A i \in DOMAIN s : /\ s[i].state = "new" /\ s[i].work = 0
                             /\ s[i].failed = {} /\ s[i].verify = {} /\ s[i].ids \subseteq S
      /\ \A o \in S : \E i \in DOMAIN s : o \in s[i].ids
      /\ \A i, k \in DOMAIN s : i # k => s[i].ids \cap s[k].ids = {}
  BY SplitBatches
<1>2. x.batches = s
  OBVIOUS
<1> HIDE DEF s
<1>3. Formed(x)
  <2>1. x.looked => \A o \in Objects :
            o \in x.reused \/ \E i \in DOMAIN x.batches : o \in ToVerify(x.batches[i])
    BY <1>1, <1>2 DEF ToVerify
  <2>2. ~x.looked => x.batches = Split(Objects)
    OBVIOUS
  <2> QED BY <1>1, <1>2, <2>1, <2>2 DEF Formed, Scope
<1>4. \A i \in DOMAIN x.batches : x.batches[i].state # "complete"
  BY <1>1, <1>2
<1>5. \A r : (\A o \in S : MayBeSent(r, o)) => Clean(r, x)
  BY <1>1, <1>2 DEF Clean, Sendable
<1> QED BY <1>3, <1>4, <1>5 DEF Vouched

\* What a copy vouches for it vouches for later: objects stay visible and recorded.
LEMMA StaysVouched ==
    ASSUME NEW x \in Copy, Formed(x), Vouched(x),
           \A coll \in Colls, o \in Objects : Recorded(coll, o) => Recorded(coll, o)'
    PROVE  Vouched(x)'
<1>1. Collection[x.conn] \in Colls
  BY DEF Formed, Colls
<1>2. x.reused \subseteq Objects
  BY DEF Copy
<1>3. \A i \in DOMAIN x.batches : ToVerify(x.batches[i]) \subseteq Objects
  <2>1. x.batches \in Seq(ABatch)
    BY DEF Copy
  <2>2. \A i \in DOMAIN x.batches : x.batches[i] \in ABatch
    BY <2>1
  <2> QED BY <2>2 DEF ABatch, ToVerify
<1> QED BY <1>1, <1>2, <1>3 DEF Vouched

\* The batches of a copy.
LEMMA BatchFacts ==
    ASSUME NEW x \in Copy
    PROVE  /\ x.batches \in Seq(ABatch) /\ Len(x.batches) \in Nat
           /\ DOMAIN x.batches = 1..Len(x.batches)
           /\ \A i \in DOMAIN x.batches : x.batches[i] \in ABatch
<1>1. x.batches \in Seq(ABatch)
  BY DEF Copy
<1> QED BY <1>1

\* Only the state of a copy changes, and not to complete.
LEMMA AnotherState ==
    ASSUME NEW x \in Copy, Formed(x), NEW s \in States \ {"complete", "none"}
    PROVE  LET y == [x EXCEPT !.state = s]
           IN  /\ y \in Copy /\ y.state = s /\ y.conn = x.conn /\ y.case = x.case
               /\ y.looked = x.looked /\ y.batches = x.batches /\ y.reused = x.reused
               /\ Formed(y) /\ (Vouched(x) => Vouched(y))
               /\ \A r : Clean(r, x) => Clean(r, y)
<1> DEFINE y == [x EXCEPT !.state = s]
<1>1. /\ y \in Copy /\ y.state = s /\ y.conn = x.conn /\ y.case = x.case
      /\ y.looked = x.looked /\ y.batches = x.batches /\ y.reused = x.reused
  BY DEF Copy
<1> HIDE DEF y
<1>2. Formed(y) /\ (Vouched(x) => Vouched(y)) /\ \A r : Clean(r, x) => Clean(r, y)
  BY <1>1 DEF Formed, Vouched, Clean
<1> QED BY <1>1, <1>2 DEF y

\* One batch of a copy gets another state, and keeps its objects.
LEMMA AnotherBatch ==
    ASSUME NEW x \in Copy, Formed(x), x.looked, x.state # "complete",
           NEW i \in 1..Len(x.batches), NEW b \in ABatch,
           b.ids = x.batches[i].ids, b.verify = x.batches[i].verify, b.failed \subseteq b.ids,
           b.state = "failed" => b.work # 0,
           NEW y, y = [x EXCEPT !.batches[i] = b]
    PROVE  /\ y \in Copy /\ y.state = x.state /\ y.conn = x.conn /\ y.case = x.case
           /\ y.looked /\ y.reused = x.reused
           /\ Len(y.batches) = Len(x.batches) /\ y.batches[i] = b
           /\ \A k \in 1..Len(x.batches) : k # i => y.batches[k] = x.batches[k]
           /\ Formed(y)
           /\ Vouched(x) /\ (b.state = "complete" =>
                 \A o \in ToVerify(b) : Recorded(Collection[x.conn], o)) => Vouched(y)
           /\ \A r : Clean(r, x) /\ (\A o \in Sendable(b) : MayBeSent(r, o)) => Clean(r, y)
<1> DEFINE s == [x.batches EXCEPT ![i] = b]
<1>1. x.batches \in Seq(ABatch) /\ DOMAIN x.batches = 1..Len(x.batches)
  BY BatchFacts
<1>2. /\ s \in Seq(ABatch) /\ Len(s) = Len(x.batches) /\ DOMAIN s = 1..Len(x.batches) /\ s[i] = b
      /\ \A k \in 1..Len(x.batches) : k # i => s[k] = x.batches[k]
  BY <1>1
<1>3. y = [x EXCEPT !.batches = s]
  BY <1>1
<1> HIDE DEF s
<1>4. /\ y \in Copy /\ y.state = x.state /\ y.conn = x.conn /\ y.case = x.case
      /\ y.looked /\ y.reused = x.reused /\ y.batches = s
  BY <1>2, <1>3 DEF Copy
<1>5. \A k \in 1..Len(x.batches) : /\ Scope(s[k]) = Scope(x.batches[k])
                                   /\ ToVerify(s[k]) = ToVerify(x.batches[k])
                                   /\ s[k].ids = x.batches[k].ids
                                   /\ s[k].verify = x.batches[k].verify
  BY <1>2 DEF Scope, ToVerify
<1>6. Formed(y)
  <2>1. \A k \in 1..Len(x.batches) : /\ s[k].failed \subseteq s[k].ids
                                     /\ s[k].state = "failed" => s[k].work # 0
                                     /\ s[k].verify # {} => s[k].ids \subseteq s[k].verify
    BY <1>1, <1>2, <1>5 DEF Formed
  <2>2. \A o \in Objects : o \in y.reused \/ \E k \in DOMAIN s : o \in ToVerify(s[k])
    BY <1>1, <1>2, <1>4, <1>5 DEF Formed
  <2>3. \A k, l \in DOMAIN s : k # l => Scope(s[k]) \cap Scope(s[l]) = {}
    BY <1>1, <1>2, <1>5 DEF Formed
  <2>4. y.conn \in Conns /\ y.case \in Contents /\ y.looked /\ y.state # "complete"
    BY <1>4 DEF Formed
  <2> QED BY <1>2, <1>4, <2>1, <2>2, <2>3, <2>4 DEF Formed
<1>7. Vouched(x) /\ (b.state = "complete" =>
          \A o \in ToVerify(b) : Recorded(Collection[x.conn], o)) => Vouched(y)
  <2> SUFFICES ASSUME Vouched(x),
                      b.state = "complete" =>
                          \A o \in ToVerify(b) : Recorded(Collection[x.conn], o)
               PROVE  Vouched(y)
    OBVIOUS
  <2>1. \A o \in y.reused : Recorded(Collection[y.conn], o)
    BY <1>4 DEF Vouched
  <2>2. ASSUME NEW k \in DOMAIN s, s[k].state = "complete"
        PROVE  \A o \in ToVerify(s[k]) : Recorded(Collection[y.conn], o)
    <3>1. CASE k = i
      BY <1>2, <1>4, <2>2, <3>1
    <3>2. CASE k # i
      BY <1>1, <1>2, <1>4, <2>2, <3>2 DEF Vouched
    <3> QED BY <3>1, <3>2
  <2> QED BY <1>4, <2>1, <2>2 DEF Vouched
<1>8. \A r : Clean(r, x) /\ (\A o \in Sendable(b) : MayBeSent(r, o)) => Clean(r, y)
  BY <1>1, <1>2, <1>4 DEF Clean
<1> QED BY <1>2, <1>4, <1>6, <1>7, <1>8

\* A retry keeps a copy well formed, and what it vouches for and may send.
LEMMA ResetCopy ==
    ASSUME TransferConstants, NEW x \in Copy, Formed(x), x.state # "complete"
    PROVE  LET y == [x EXCEPT !.batches = [i \in DOMAIN x.batches |-> ResetFailed(x.batches[i])]]
           IN  /\ y \in Copy /\ y.state = x.state /\ y.conn = x.conn /\ y.case = x.case
               /\ Formed(y) /\ (Vouched(x) => Vouched(y))
<1> DEFINE s == [i \in DOMAIN x.batches |-> ResetFailed(x.batches[i])]
           y == [x EXCEPT !.batches = s]
<1>1. /\ x.batches \in Seq(ABatch) /\ DOMAIN x.batches = 1..Len(x.batches)
      /\ Len(x.batches) \in Nat
      /\ \A i \in DOMAIN x.batches : x.batches[i] \in ABatch
  BY BatchFacts
<1>2. ASSUME NEW b \in ABatch, b.failed \subseteq b.ids,
             b.state = "failed" => b.work # 0,
             b.verify # {} => b.ids \subseteq b.verify
      PROVE  LET c == ResetFailed(b) IN
             /\ c \in ABatch /\ Scope(c) \subseteq Scope(b) /\ ToVerify(c) = ToVerify(b)
             /\ (c.state = "failed" => c.work # 0)
             /\ c.failed \subseteq c.ids /\ (c.verify # {} => c.ids \subseteq c.verify)
             /\ (b.state # "failed" => c = b) /\ (c.state = "complete" => b.state = "complete")
  <2>1. CASE b.state # "failed"
    BY <1>2, <2>1 DEF ResetFailed
  <2>2. CASE b.state = "failed"
    <3> DEFINE ids == IF b.failed = {} THEN b.ids ELSE b.failed
               verify == IF b.failed # {} /\ b.verify = {} THEN b.ids ELSE b.verify
               c == ResetFailed(b)
    <3>1. c = [b EXCEPT !.state = "new", !.work = 0, !.ids = ids, !.verify = verify]
      BY <2>2 DEF ResetFailed
    <3>2. ids \in SUBSET Objects /\ verify \in SUBSET Objects
      BY DEF ABatch
    <3> HIDE DEF ids, verify, c
    <3>3. c \in ABatch /\ c.state = "new" /\ c.ids = ids /\ c.verify = verify
          /\ c.failed = b.failed
      BY <3>1, <3>2 DEF ABatch
    <3>4. Scope(c) \subseteq Scope(b) /\ ToVerify(c) = ToVerify(b)
      BY <1>2, <3>3 DEF Scope, ToVerify, ids, verify
    <3>5. c.failed \subseteq c.ids /\ (c.verify # {} => c.ids \subseteq c.verify)
      BY <1>2, <3>3 DEF ids, verify
    <3> QED BY <2>2, <3>3, <3>4, <3>5 DEF c
  <2> QED BY <2>1, <2>2
<1>3. \A i \in DOMAIN x.batches :
          /\ x.batches[i].failed \subseteq x.batches[i].ids
          /\ x.batches[i].state = "failed" => x.batches[i].work # 0
          /\ x.batches[i].verify # {} => x.batches[i].ids \subseteq x.batches[i].verify
  BY DEF Formed
<1>4. DOMAIN s = DOMAIN x.batches
  OBVIOUS
<1>5. \A i \in DOMAIN x.batches :
          /\ s[i] \in ABatch /\ Scope(s[i]) \subseteq Scope(x.batches[i])
          /\ ToVerify(s[i]) = ToVerify(x.batches[i])
          /\ (s[i].state = "failed" => s[i].work # 0)
          /\ s[i].failed \subseteq s[i].ids /\ (s[i].verify # {} => s[i].ids \subseteq s[i].verify)
          /\ (x.batches[i].state # "failed" => s[i] = x.batches[i])
          /\ (s[i].state = "complete" => x.batches[i].state = "complete")
  BY <1>1, <1>2, <1>3
<1>6. s \in Seq(ABatch)
  <2>1. s \in [1..Len(x.batches) -> ABatch]
    BY <1>1, <1>5
  <2> QED BY <1>1, <2>1, SeqDef
<1>7. s = [i \in DOMAIN s |-> s[i]] /\ x.batches = [i \in DOMAIN x.batches |-> x.batches[i]]
  BY <1>1
<1> HIDE DEF s
<1>8. /\ y \in Copy /\ y.state = x.state /\ y.conn = x.conn /\ y.case = x.case
      /\ y.looked = x.looked /\ y.reused = x.reused /\ y.batches = s
  BY <1>6 DEF Copy
<1>9. ~x.looked => s = x.batches
  <2> SUFFICES ASSUME ~x.looked PROVE s = x.batches
    OBVIOUS
  <2>1. x.batches = Split(Objects)
    BY DEF Formed
  <2>2. \A i \in DOMAIN x.batches : x.batches[i].state # "failed"
    BY <2>1, SplitBatches
  <2>3. \A i \in DOMAIN x.batches : s[i] = x.batches[i]
    BY <1>5, <2>2
  <2> QED BY <1>4, <1>7, <2>3
<1> HIDE DEF y
<1>10. \A i, k \in DOMAIN s : i # k => Scope(s[i]) \cap Scope(s[k]) = {}
  BY <1>4, <1>5 DEF Formed
<1>11. Formed(y)
  <2>1. x.looked => \A o \in Objects :
            o \in x.reused \/ \E i \in DOMAIN x.batches : o \in ToVerify(x.batches[i])
    BY DEF Formed
  <2>2. y.looked => \A o \in Objects :
            o \in y.reused \/ \E i \in DOMAIN y.batches : o \in ToVerify(y.batches[i])
    BY <1>4, <1>5, <1>8, <2>1
  <2>3. ~y.looked => y.batches = Split(Objects)
    BY <1>8, <1>9 DEF Formed
  <2>4. y.conn \in Conns /\ y.case \in Contents /\ y.state # "complete"
    BY <1>8 DEF Formed
  <2> QED BY <1>4, <1>5, <1>8, <1>10, <2>2, <2>3, <2>4 DEF Formed
<1>12. Vouched(x) => Vouched(y)
  BY <1>4, <1>5, <1>8 DEF Vouched
<1> QED BY <1>8, <1>11, <1>12 DEF y, s

\* What may be sent of a copy may be sent of its reset.
LEMMA ResetClean ==
    ASSUME NEW r, NEW x \in Copy, Clean(r, x), NEW y \in Copy,
           y.batches = [i \in DOMAIN x.batches |-> ResetFailed(x.batches[i])]
    PROVE  Clean(r, y)
<1>1. \A i \in DOMAIN x.batches : x.batches[i] \in ABatch
  BY BatchFacts
<1>2. \A b \in ABatch : Sendable(ResetFailed(b)) = Sendable(b)
  BY DEF ResetFailed, Sendable, ABatch
<1>3. \A i \in DOMAIN y.batches :
          i \in DOMAIN x.batches /\ y.batches[i] = ResetFailed(x.batches[i])
  OBVIOUS
<1> QED BY <1>1, <1>2, <1>3 DEF Clean

-----------------------------------------------------------------------------
(* The invariant.                                                          *)

\* A copy of a receipt stays one while the receipt keeps its case and connection.
LEMMA StaysCopy ==
    ASSUME NEW r \in Receipts, NEW x \in Copy, CopyOf(r, x),
           receipt'[r].state # "none", receipt'[r].conn = receipt[r].conn,
           receipt'[r].case = receipt[r].case, astray \subseteq astray',
           \A coll \in Colls, o \in Objects : Recorded(coll, o) => Recorded(coll, o)'
    PROVE  CopyOf(r, x)'
<1>1. Formed(x) /\ (r \notin astray => Vouched(x))
  BY DEF CopyOf
<1>2. Vouched(x) => Vouched(x)'
  BY <1>1, StaysVouched
<1>3. Formed(x)'
  BY <1>1 DEF Formed
<1> QED BY <1>1, <1>2, <1>3 DEF CopyOf

\* A step of the job of r, which leaves it as w and its receipt as x.
LEMMA JobStep ==
    ASSUME TransferConstants, TInv, NEW r \in Receipts, worker[r].pc # "idle",
           NEW w \in Thread, w.pc # "idle", worker' = [worker EXCEPT ![r] = w],
           NEW x \in Copy, x = receipt[r] \/ x = w.rec, receipt' = [receipt EXCEPT ![r] = x],
           UNCHANGED <<settings, case, active, caller, stale, there>>,
           works' \in Seq(Submitted),
           mapped' \in [Colls -> [Objects -> Graphs \cup {"none"}]],
           \A coll \in Colls, o \in Objects :
              mapped[coll][o] # "none" => mapped'[coll][o] # "none",
           astray \subseteq astray', astray' \subseteq Receipts,
           fate' \in [Receipts -> [Objects -> Fates]],
           \A q \in Receipts : q # r => fate'[q] = fate[q],
           Formed(w.rec), w.rec.state # "none",
           w.rec.conn = receipt[r].conn, w.rec.case = receipt[r].case,
           r \notin astray' => Vouched(w.rec)',
           AtStep(r, w)',
           r \notin stale => Clean(r, w.rec)' /\ Clean(r, x)'
    PROVE  TInv'
<1>1. /\ receipt' \in [Receipts -> Copy] /\ receipt'[r] = x
      /\ \A q \in Receipts : q # r => receipt'[q] = receipt[q]
  BY DEF TInv, TTypeOK
<1>2. /\ worker' \in [Receipts -> Thread] /\ worker'[r] = w
      /\ \A q \in Receipts : q # r => worker'[q] = worker[q]
  BY DEF TInv, TTypeOK
<1>3. receipt[r].state # "none"
  BY DEF TInv, Working, CopyOf
<1>4. x.state # "none" /\ x.conn = receipt[r].conn /\ x.case = receipt[r].case
  BY <1>3
<1>5. \A q \in Receipts : /\ receipt'[q].state = "none" <=> receipt[q].state = "none"
                          /\ receipt'[q].conn = receipt[q].conn
                          /\ receipt'[q].case = receipt[q].case
  BY <1>1, <1>3, <1>4
<1>6. \A coll \in Colls, o \in Objects : Recorded(coll, o) => Recorded(coll, o)'
  BY DEF Recorded
<1>7. \A q \in Receipts, y \in Copy :
          CopyOf(q, y) => CopyOf(q, y)'
  <2> SUFFICES ASSUME NEW q \in Receipts, NEW y \in Copy, CopyOf(q, y) PROVE CopyOf(q, y)'
    OBVIOUS
  <2>1. receipt[q].state # "none"
    BY DEF CopyOf
  <2> QED BY <1>5, <1>6, <2>1, StaysCopy
<1>8. TTypeOK'
  BY <1>1, <1>2 DEF TInv, TTypeOK
<1>9. Numbered'
  <2>1. {q \in Receipts : receipt'[q].state # "none"} = {q \in Receipts : receipt[q].state # "none"}
    BY <1>5
  <2> QED BY <2>1 DEF TInv, Numbered
<1>10. CopyOf(r, w.rec)'
  BY <1>1, <1>3, <1>4 DEF CopyOf, Formed
<1>11. Saved'
  <2>1. CopyOf(r, x)'
    <3>1. CASE x = receipt[r]
      <4>1. CopyOf(r, receipt[r])
        BY <1>3 DEF TInv, Saved
      <4>2. CopyOf(r, x)
        BY <3>1, <4>1
      <4> QED BY <1>7, <4>2
    <3>2. CASE x = w.rec
      BY <1>10, <3>2
    <3> QED BY <3>1, <3>2
  <2>2. ASSUME NEW q \in Receipts, q # r, receipt[q].state # "none", NEW y \in Copy, y = receipt[q]
        PROVE  CopyOf(q, y)'
    <3>1. CopyOf(q, y)
      BY <2>2 DEF TInv, Saved
    <3> QED BY <1>7, <3>1
  <2>3. \A q \in Receipts : receipt[q] \in Copy
    BY DEF TInv, TTypeOK
  <2>4. \A q \in Receipts : receipt'[q].state # "none" => CopyOf(q, receipt[q])'
    BY <1>1, <1>5, <2>1, <2>2, <2>3
  <2>5. \A q \in Receipts : receipt[q].state = "none" => \A o \in Objects : fate'[q][o] = "new"
    BY <1>3 DEF TInv, Saved
  <2> QED BY <1>5, <2>4, <2>5 DEF Saved
<1>12. Working'
  <2>1. ASSUME NEW q \in Receipts, q # r, NEW z \in Thread, z = worker[q], z.pc # "idle"
        PROVE  CopyOf(q, z.rec)' /\ AtStep(q, z)'
    <3>1. CopyOf(q, z.rec) /\ AtStep(q, z) /\ z.rec \in Copy
      BY <2>1 DEF TInv, Working, Thread
    <3>2. AtStep(q, z)'
      BY <3>1 DEF AtStep
    <3> QED BY <1>7, <3>1, <3>2
  <2>2. CopyOf(r, w.rec)' /\ AtStep(r, w)'
    BY <1>10
  <2>3. \A q \in Receipts : worker[q] \in Thread
    BY DEF TInv, TTypeOK
  <2> QED BY <1>2, <2>1, <2>2, <2>3 DEF Working
<1>13. Asking'
  <2>1. ASSUME NEW c \in Callers, NEW z, z = caller[c], z.pc # "idle"
        PROVE  CopyOf(z.r, z.rec)' /\ (z.pc = "queue" => z.rec.state = "queued")
    <3>1. CopyOf(z.r, z.rec) /\ (z.pc = "queue" => z.rec.state = "queued") /\ z.rec \in Copy
      BY <2>1 DEF TInv, TTypeOK, Asking
    <3>2. z.r \in Receipts
      BY <3>1 DEF CopyOf
    <3> QED BY <1>7, <3>1, <3>2
  <2> QED BY <2>1 DEF Asking
<1>14. Unsent'
  <2>1. ASSUME NEW q \in Receipts, q # r, NEW y, Clean(q, y)
        PROVE  Clean(q, y)'
    BY <2>1 DEF Clean, MayBeSent
  <2>2. ASSUME NEW q \in Receipts \ stale, q # r, NEW y, NEW z, y = receipt[q], z = worker[q]
        PROVE  Clean(q, y)' /\ (z.pc # "idle" => Clean(q, z.rec)')
    BY <2>1, <2>2 DEF TInv, Unsent
  <2>3. r \notin stale => Clean(r, w.rec)' /\ Clean(r, x)'
    OBVIOUS
  <2> QED BY <1>1, <1>2, <2>2, <2>3 DEF Unsent
<1>15. BlockedOnlyByAJob'
  BY <1>2 DEF TInv, TTypeOK, BlockedOnlyByAJob, AtWork
<1> QED BY <1>8, <1>9, <1>11, <1>12, <1>13, <1>14, <1>15 DEF TInv

\* Steps outside the transfers: the case, the settings and the platform.
LEMMA OutsideStep ==
    ASSUME TransferConstants, TInv,
           UNCHANGED <<receipt, mapped, active, worker, caller, fate, stale, astray>>,
           settings' \in Conns, case' \in Contents, works' \in Seq(Submitted),
           there' \in [Colls -> SUBSET Objects],
           \A coll \in Colls : there[coll] \subseteq there'[coll]
    PROVE  TInv'
<1>1. \A coll \in Colls, o \in Objects : Recorded(coll, o) => Recorded(coll, o)'
  BY DEF Recorded
<1>2. \A q \in Receipts, y \in Copy : CopyOf(q, y) => CopyOf(q, y)'
  <2> SUFFICES ASSUME NEW q \in Receipts, NEW y \in Copy, CopyOf(q, y) PROVE CopyOf(q, y)'
    OBVIOUS
  <2>1. receipt[q].state # "none"
    BY DEF CopyOf
  <2> QED BY <1>1, <2>1, StaysCopy
<1>3. TTypeOK' /\ Numbered' /\ BlockedOnlyByAJob'
  BY DEF TInv, TTypeOK, Numbered, BlockedOnlyByAJob, AtWork
<1>4. Saved'
  <2>1. \A q \in Receipts : receipt[q] \in Copy
    BY DEF TInv, TTypeOK
  <2> QED BY <1>2, <2>1 DEF TInv, Saved
<1>5. Working'
  <2>1. \A q \in Receipts : worker[q].rec \in Copy
    BY DEF TInv, TTypeOK, Thread
  <2> QED BY <1>2, <2>1 DEF TInv, Working, AtStep
<1>6. Asking'
  <2>1. \A c \in Callers : caller[c].rec \in Copy
    BY DEF TInv, TTypeOK
  <2>2. \A c \in Callers : caller[c].pc # "idle" => caller[c].r \in Receipts
    BY DEF TInv, Asking, CopyOf
  <2> QED BY <1>2, <2>1, <2>2 DEF TInv, Asking
<1>7. Unsent'
  BY DEF TInv, Unsent, Clean, MayBeSent
<1> QED BY <1>3, <1>4, <1>5, <1>6, <1>7 DEF TInv

\* The identities of objects are recorded at the collection of the receipt.
LEMMA RecordStep ==
    ASSUME TransferConstants, TInv, NEW r \in Receipts, worker[r].pc # "idle",
           NEW objects, Record(r, objects)
    PROVE  /\ mapped' \in [Colls -> [Objects -> Graphs \cup {"none"}]]
           /\ \A coll \in Colls, o \in Objects :
                 mapped[coll][o] # "none" => mapped'[coll][o] # "none"
           /\ \A o \in Objects \cap objects : mapped'[Collection[worker[r].rec.conn]][o] # "none"
<1> DEFINE content == worker[r].rec.case[1]
           coll == CollOf(r)
<1>1. CopyOf(r, worker[r].rec)
  BY DEF TInv, Working
<1>2. worker[r].rec.case \in Contents /\ worker[r].rec.conn = receipt[r].conn
      /\ worker[r].rec.conn \in Conns
  BY <1>1 DEF CopyOf, Formed
<1>3. content \in Graphs /\ content # "none"
  BY <1>2 DEF Contents, TransferConstants
<1>4. coll \in Colls /\ coll = Collection[worker[r].rec.conn]
  BY <1>2 DEF CollOf, Colls
<1>5. mapped \in [Colls -> [Objects -> Graphs \cup {"none"}]]
  BY DEF TInv, TTypeOK
<1>6. mapped' = [mapped EXCEPT ![coll] =
                   [o \in Objects |-> IF o \in objects THEN content ELSE mapped[coll][o]]]
  BY <1>5, <1>4 DEF Record
<1> HIDE DEF coll, content
<1> QED BY <1>3, <1>4, <1>5, <1>6

\* What the platform shows to the account of a job.
LEMMA SeenIsThere ==
    ASSUME TInv, NEW r \in Receipts, worker[r].pc \in
              {"lookup", "batch", "push", "keep", "wait", "verify", "labels"},
           r \notin astray, NEW objects
    PROVE  Seen(r, objects) \subseteq there[Collection[worker[r].rec.conn]]
<1>1. AtStep(r, worker[r])
  BY DEF TInv, Working
<1> QED BY <1>1 DEF AtStep, Seen

\* What a job holds.
LEMMA JobFacts ==
    ASSUME TInv, NEW r \in Receipts, worker[r].pc # "idle"
    PROVE  /\ worker[r] \in Thread /\ worker[r].rec \in Copy /\ worker[r].i \in Nat \ {0}
           /\ receipt[r] \in Copy
           /\ Formed(worker[r].rec) /\ AtStep(r, worker[r])
           /\ r \notin astray => Vouched(worker[r].rec)
           /\ worker[r].rec.conn = receipt[r].conn /\ worker[r].rec.case = receipt[r].case
           /\ worker[r].rec.state # "none"
           /\ r \notin stale => Clean(r, worker[r].rec) /\ Clean(r, receipt[r])
<1>1. /\ worker[r] \in Thread /\ worker[r].rec \in Copy /\ receipt[r] \in Copy
      /\ worker[r].i \in Nat \ {0}
  BY DEF TInv, TTypeOK, Thread
<1>2. CopyOf(r, worker[r].rec) /\ AtStep(r, worker[r])
  BY DEF TInv, Working
<1> QED BY <1>1, <1>2 DEF CopyOf, TInv, Unsent

\* Only the receipt, the job and the history of r change, and identities are recorded.
JobFrame(r) ==
    /\ UNCHANGED <<settings, case, active, caller, stale, there>>
    /\ works' \in Seq(Submitted)
    /\ mapped' \in [Colls -> [Objects -> Graphs \cup {"none"}]]
    /\ \A coll \in Colls, o \in Objects : mapped[coll][o] # "none" => mapped'[coll][o] # "none"
    /\ astray \subseteq astray' /\ astray' \subseteq Receipts
    /\ fate' \in [Receipts -> [Objects -> Fates]]
    /\ \A q \in Receipts : q # r => fate'[q] = fate[q]

\* The job ends with a receipt of another state, and releases its key later.
LEMMA StopStep ==
    ASSUME TransferConstants, TInv, NEW r \in Receipts, worker[r].pc # "idle",
           NEW rec \in Copy, NEW s \in States \ {"none", "complete"},
           Stop(r, rec, s), JobFrame(r),
           Formed(rec), rec.conn = receipt[r].conn, rec.case = receipt[r].case,
           r \notin astray' => Vouched(rec)',
           r \notin stale => Clean(r, rec)'
    PROVE  TInv'
<1> DEFINE y == [rec EXCEPT !.state = s]
           w == [worker[r] EXCEPT !.pc = "release", !.rec = y]
<1>1. /\ y \in Copy /\ y.state = s /\ y.conn = rec.conn /\ y.case = rec.case
      /\ y.looked = rec.looked /\ y.batches = rec.batches /\ y.reused = rec.reused
      /\ Formed(y)
  BY AnotherState
<1>2. worker[r] \in Thread /\ worker \in [Receipts -> Thread] /\ receipt \in [Receipts -> Copy]
  BY DEF TInv, TTypeOK
<1>3. receipt' = [receipt EXCEPT ![r] = y] /\ worker' = [worker EXCEPT ![r] = w]
  BY <1>2 DEF Stop, Save
<1> HIDE DEF y
<1>4. w \in Thread /\ w.pc = "release" /\ w.rec = y /\ w.conn \in Conns
  <2>1. worker[r].conn \in Conns
    BY JobFacts DEF AtStep
  <2> QED BY <1>1, <1>2, <2>1 DEF Thread, Steps
<1> HIDE DEF w
<1>5. PICK z \in Copy, v \in Thread : z = y /\ v = w
  BY <1>1, <1>4
<1>6. r \notin astray' => Vouched(z)'
  BY <1>1, <1>5 DEF Vouched
<1>7. r \notin stale => Clean(r, z)'
  BY <1>1, <1>5 DEF Clean
<1>8. AtStep(r, v)'
  BY <1>4, <1>5 DEF AtStep
<1>9. v.rec = z /\ v.pc = "release" /\ Formed(z) /\ z.state # "none"
      /\ z.conn = receipt[r].conn /\ z.case = receipt[r].case
  BY <1>1, <1>4, <1>5
<1> QED BY <1>3, <1>5, <1>6, <1>7, <1>8, <1>9, JobStep DEF JobFrame

\* A request that fails ends the job with what it had.
LEMMA NoAnswerStep ==
    ASSUME TransferConstants, TInv, NEW r \in Receipts, worker[r].pc # "idle",
           NEW s \in States \ {"none", "complete"},
           NoAnswer(r) \/ Stop(r, worker[r].rec, s), JobFrame(r),
           \A o \in Objects : MayBeSent(r, o) => MayBeSent(r, o)'
    PROVE  TInv'
<1>1. PICK rec \in Copy : rec = worker[r].rec
  BY JobFacts
<1>2. PICK t \in States \ {"none", "complete"} : Stop(r, rec, t)
  BY <1>1 DEF NoAnswer, Fail, States
<1>3. /\ Formed(rec) /\ (r \notin astray => Vouched(rec))
      /\ rec.conn = receipt[r].conn /\ rec.case = receipt[r].case
      /\ (r \notin stale => Clean(r, rec))
  BY <1>1, JobFacts
<1>4. r \notin astray' => Vouched(rec)'
  <2>1. \A coll \in Colls, o \in Objects : Recorded(coll, o) => Recorded(coll, o)'
    BY DEF JobFrame, Recorded
  <2> QED BY <1>3, <2>1, StaysVouched DEF JobFrame
<1>5. r \notin stale => Clean(r, rec)'
  <2>1. \A i \in DOMAIN rec.batches : Sendable(rec.batches[i]) \subseteq Objects
    BY BatchFacts DEF ABatch, Sendable
  <2> QED BY <1>3, <2>1 DEF Clean
<1> QED BY <1>2, <1>3, <1>4, <1>5, StopStep

\* Only the job and the receipt of r change.
LEMMA QuietFrame ==
    ASSUME TInv, NEW r \in Receipts,
           UNCHANGED <<settings, case, active, caller, stale, astray, mapped, remote, fate>>
    PROVE  JobFrame(r) /\ \A o \in Objects : MayBeSent(r, o) => MayBeSent(r, o)'
<1>1. JobFrame(r)
  BY DEF JobFrame, TInv, TTypeOK, remote
<1> QED BY <1>1 DEF MayBeSent

\* The job goes on with the receipt it has.
LEMMA MoveStep ==
    ASSUME TransferConstants, TInv, NEW r \in Receipts, worker[r].pc # "idle",
           NEW w \in Thread, w.rec = worker[r].rec, w.pc # "idle", AtStep(r, w),
           worker' = [worker EXCEPT ![r] = w], UNCHANGED receipt,
           JobFrame(r), UNCHANGED <<astray, mapped, fate>>
    PROVE  TInv'
<1>1. JobFrame(r) /\ UNCHANGED <<astray, there, mapped>>
  BY DEF JobFrame
<1>2. PICK x \in Copy : x = receipt[r]
  BY JobFacts
<1>3. receipt' = [receipt EXCEPT ![r] = x]
  BY <1>2 DEF TInv, TTypeOK
<1>4. /\ Formed(w.rec) /\ (r \notin astray => Vouched(w.rec))
      /\ w.rec.conn = receipt[r].conn /\ w.rec.case = receipt[r].case /\ w.rec.state # "none"
      /\ (r \notin stale => Clean(r, w.rec) /\ Clean(r, x))
  BY <1>2, JobFacts
<1>5. r \notin astray' => Vouched(w.rec)'
  BY <1>1, <1>4 DEF Vouched, Recorded
<1>6. r \notin stale => Clean(r, w.rec)' /\ Clean(r, x)'
  BY <1>4 DEF Clean, MayBeSent
<1>7. AtStep(r, w)'
  BY <1>1 DEF AtStep
<1> QED BY <1>1, <1>2, <1>3, <1>4, <1>5, <1>6, <1>7, JobStep DEF JobFrame

\* The job writes what became of the batch it is at.
LEMMA BatchWritten ==
    ASSUME TransferConstants, TInv, NEW r \in Receipts,
           worker[r].pc \in {"batch", "push", "wait", "verify"},
           worker[r].i <= Len(worker[r].rec.batches),
           NEW b \in ABatch, b.ids = Batch(r).ids, b.verify = Batch(r).verify,
           b.failed \subseteq b.ids, b.state = "failed" => b.work # 0,
           NEW rec, rec = SetBatch(r, b),
           JobFrame(r), astray' = astray,
           b.state = "complete" /\ r \notin astray =>
              \A o \in ToVerify(b) : Recorded(Collection[rec.conn], o)',
           r \notin stale => \A o \in Sendable(b) : MayBeSent(r, o)',
           \A o \in Objects : o \notin Scope(b) /\ MayBeSent(r, o) => MayBeSent(r, o)'
    PROVE  /\ rec \in Copy /\ rec.state = "running" /\ rec.looked
           /\ rec.conn = receipt[r].conn /\ rec.case = receipt[r].case
           /\ Len(rec.batches) = Len(worker[r].rec.batches) /\ rec.batches[worker[r].i] = b
           /\ \A k \in 1..Len(rec.batches) :
                 k # worker[r].i => rec.batches[k] = worker[r].rec.batches[k]
           /\ Formed(rec)
           /\ r \notin astray' => Vouched(rec)'
           /\ r \notin stale => Clean(r, rec)'
<1>1. PICK x \in Copy, i \in Nat \ {0} : x = worker[r].rec /\ i = worker[r].i
  BY JobFacts DEF Thread
<1>2. /\ Formed(x) /\ x.state = "running" /\ x.looked
      /\ (r \notin astray => Vouched(x)) /\ (r \notin stale => Clean(r, x))
      /\ x.conn = receipt[r].conn /\ x.case = receipt[r].case
  BY <1>1, JobFacts DEF AtStep
<1>3. /\ x.batches \in Seq(ABatch) /\ DOMAIN x.batches = 1..Len(x.batches)
      /\ \A k \in DOMAIN x.batches : x.batches[k] \in ABatch
      /\ i \in 1..Len(x.batches)
  BY <1>1, BatchFacts
<1>4. b.ids = x.batches[i].ids /\ b.verify = x.batches[i].verify
  BY <1>1 DEF Batch
<1>5. rec = [x EXCEPT !.batches[i] = b]
  BY <1>1 DEF SetBatch
<1>6. /\ rec \in Copy /\ rec.state = x.state /\ rec.conn = x.conn /\ rec.case = x.case
      /\ rec.looked /\ rec.reused = x.reused
      /\ Len(rec.batches) = Len(x.batches) /\ rec.batches[i] = b
      /\ \A k \in 1..Len(x.batches) : k # i => rec.batches[k] = x.batches[k]
      /\ Formed(rec)
  <2>1. x.state # "complete"
    BY <1>2
  <2> QED BY <1>2, <1>3, <1>4, <1>5, <2>1, AnotherBatch
<1>7. DOMAIN rec.batches = 1..Len(x.batches)
  BY <1>6, BatchFacts
<1>8. r \notin astray' => Vouched(rec)'
  <2> SUFFICES ASSUME r \notin astray PROVE Vouched(rec)'
    OBVIOUS
  <2>1. \A coll \in Colls, o \in Objects : Recorded(coll, o) => Recorded(coll, o)'
    BY DEF JobFrame, Recorded
  <2>2. Vouched(x)'
    BY <1>2, <2>1, StaysVouched
  <2>3. b.state = "complete" => \A o \in ToVerify(b) : Recorded(Collection[rec.conn], o)'
    BY <1>1, <1>6
  <2> QED BY <1>2, <1>3, <1>6, <1>7, <2>2, <2>3 DEF Vouched
<1>9. r \notin stale => Clean(r, rec)'
  <2> SUFFICES ASSUME r \notin stale, NEW k \in 1..Len(x.batches),
                      NEW o \in Sendable(rec.batches[k])
               PROVE  MayBeSent(r, o)'
    BY <1>7 DEF Clean
  <2>1. CASE k = i
    BY <1>6, <2>1
  <2>2. CASE k # i
    <3>1. o \in Sendable(x.batches[k]) /\ x.batches[k] \in ABatch
      BY <1>3, <1>6, <2>2
    <3>2. x.batches[k].failed \subseteq x.batches[k].ids
      BY <1>2, <1>3 DEF Formed
    <3>3. o \in x.batches[k].ids /\ o \in Objects
      BY <3>1, <3>2 DEF Sendable, ABatch
    <3>4. Scope(x.batches[k]) \cap Scope(x.batches[i]) = {}
      BY <1>2, <1>3, <2>2 DEF Formed
    <3>5. o \notin Scope(b)
      BY <1>4, <3>3, <3>4 DEF Scope
    <3>6. MayBeSent(r, o)
      BY <1>2, <1>3, <3>1 DEF Clean
    <3> QED BY <3>3, <3>5, <3>6
  <2> QED BY <2>1, <2>2
<1> QED BY <1>1, <1>2, <1>6, <1>8, <1>9

\* ... and goes on, with the receipt saved or not.
LEMMA BatchStep ==
    ASSUME TransferConstants, TInv, NEW r \in Receipts, worker[r].pc # "idle",
           NEW rec \in Copy, rec.state = "running",
           rec.conn = receipt[r].conn, rec.case = receipt[r].case, Formed(rec),
           r \notin astray' => Vouched(rec)', r \notin stale => Clean(r, rec)',
           JobFrame(r), astray' = astray,
           NEW w \in Thread, w.rec = rec, w.pc # "idle", AtStep(r, w),
           worker' = [worker EXCEPT ![r] = w],
           \/ receipt' = [receipt EXCEPT ![r] = rec]
           \/ /\ UNCHANGED receipt
              /\ \A o \in Objects : MayBeSent(r, o) => MayBeSent(r, o)'
    PROVE  TInv'
<1>1. AtStep(r, w)'
  BY DEF AtStep
<1>2. CASE receipt' = [receipt EXCEPT ![r] = rec]
  BY <1>1, <1>2, JobStep DEF JobFrame
<1>3. CASE UNCHANGED receipt /\ \A o \in Objects : MayBeSent(r, o) => MayBeSent(r, o)'
  <2>1. PICK x \in Copy : x = receipt[r]
    BY JobFacts
  <2>2. receipt' = [receipt EXCEPT ![r] = x]
    BY <1>3, <2>1 DEF TInv, TTypeOK
  <2>3. r \notin stale => Clean(r, x)'
    <3>1. r \notin stale => Clean(r, x)
      BY <2>1, JobFacts
    <3>2. \A i \in DOMAIN x.batches : Sendable(x.batches[i]) \subseteq Objects
      BY BatchFacts DEF ABatch, Sendable
    <3> QED BY <1>3, <3>1, <3>2 DEF Clean
  <2> QED BY <1>1, <2>1, <2>2, <2>3, JobStep DEF JobFrame
<1> QED BY <1>2, <1>3

-----------------------------------------------------------------------------
(* The steps of a job.                                                     *)

\* A worker thread takes the job: it begins, was cancelled in the queue, or its
\* start cannot be written.
LEMMA PickKeeps ==
    ASSUME TransferConstants, TInv, NEW r \in Receipts, Pick(r) PROVE TInv'
<1>1. worker[r] \in Thread /\ AtStep(r, worker[r]) /\ worker \in [Receipts -> Thread]
  BY JobFacts DEF Pick, TInv, TTypeOK
<1>2. JobFrame(r) /\ UNCHANGED <<astray, mapped, fate>>
  BY QuietFrame DEF Pick
<1>3. CASE Stop(r, worker[r].rec, "paused")
  <2>1. \A o \in Objects : MayBeSent(r, o) => MayBeSent(r, o)'
    BY QuietFrame DEF Pick
  <2> QED BY <1>2, <1>3, <2>1, NoAnswerStep DEF Pick, States
<1>4. ASSUME NEW pc \in {"begin", "release", "unstarted"}, UNCHANGED receipt,
             worker' = [worker EXCEPT ![r].pc = pc]
      PROVE  TInv'
  <2> DEFINE w == [worker[r] EXCEPT !.pc = pc]
  <2>1. worker' = [worker EXCEPT ![r] = w]
    BY <1>4
  <2>2. /\ w \in Thread /\ w.pc = pc /\ w.rec = worker[r].rec /\ w.i = worker[r].i
        /\ w.conn = worker[r].conn
    BY <1>1, <1>4 DEF Thread, Steps
  <2> HIDE DEF w
  <2>3. AtStep(r, w)
    BY <1>1, <1>4, <2>2 DEF AtStep, Pick
  <2> QED BY <1>2, <1>4, <2>1, <2>2, <2>3, MoveStep DEF Pick
<1> QED BY <1>3, <1>4 DEF Pick

\* The job checks the settings and the case, or fails.
LEMMA BeginKeeps ==
    ASSUME TransferConstants, TInv, NEW r \in Receipts, Begin(r) PROVE TInv'
<1>1. astray \subseteq astray' /\ astray' \subseteq Receipts
  BY DEF Begin, TInv, TTypeOK
<1>2. JobFrame(r) /\ \A o \in Objects : MayBeSent(r, o) => MayBeSent(r, o)'
  <2>1. UNCHANGED <<settings, case, active, caller, stale, mapped, works, there, fate>>
    BY DEF Begin, unasked, remote
  <2> QED BY <1>1, <2>1 DEF JobFrame, TInv, TTypeOK, MayBeSent
<1>3. CASE NoAnswer(r)
  BY <1>2, <1>3, NoAnswerStep DEF Begin, States
<1>4. CASE /\ Save(r, "lookup", [worker[r].rec EXCEPT !.state = "running"])
           /\ astray' = IF worker[r].conn = worker[r].rec.conn THEN astray ELSE astray \cup {r}
  <2>1. PICK x \in Copy : x = worker[r].rec
    BY JobFacts DEF Begin
  <2>2. [x EXCEPT !.state = "running"] \in Copy
    BY DEF Copy, States
  <2>3. PICK y \in Copy : y = [x EXCEPT !.state = "running"]
    BY <2>2
  <2>4. /\ y.state = "running" /\ y.conn = x.conn /\ y.case = x.case /\ y.batches = x.batches
        /\ y.looked = x.looked /\ y.reused = x.reused
        /\ Formed(y) /\ (Vouched(x) => Vouched(y))
        /\ (Clean(r, x) => Clean(r, y))
    <3>1. Formed(x) /\ "running" \in States \ {"complete", "none"}
      BY <2>1, JobFacts DEF Begin, States
    <3> QED BY <2>3, <3>1, AnotherState
  <2>5. /\ AtStep(r, worker[r]) /\ worker[r] \in Thread /\ worker \in [Receipts -> Thread]
        /\ (r \notin astray => Vouched(y)) /\ (r \notin stale => Clean(r, y))
        /\ y.conn = receipt[r].conn /\ y.case = receipt[r].case
    BY <2>1, <2>4, JobFacts DEF Begin, TInv, TTypeOK
  <2>6. PICK w \in Thread : /\ w = [worker[r] EXCEPT !.pc = "lookup", !.rec = y]
                            /\ w.pc = "lookup" /\ w.rec = y /\ w.i = worker[r].i
                            /\ w.conn = worker[r].conn
    <3> DEFINE w == [worker[r] EXCEPT !.pc = "lookup", !.rec = y]
    <3>1. /\ w \in Thread /\ w.pc = "lookup" /\ w.rec = y /\ w.i = worker[r].i
          /\ w.conn = worker[r].conn
      BY <2>5 DEF Thread, Steps
    <3> QED BY <3>1
  <2>7. worker' = [worker EXCEPT ![r] = w] /\ receipt' = [receipt EXCEPT ![r] = y]
    BY <1>4, <2>1, <2>5, <2>3, <2>6 DEF Save
  <2>8. r \notin astray' => w.conn = y.conn
    BY <1>4, <2>1, <2>4, <2>6
  <2>9. AtStep(r, w)'
    BY <2>1, <2>4, <2>5, <2>6, <2>8 DEF AtStep, Begin
  <2>10. r \notin astray' => Vouched(y)'
    <3>1. Vouched(y) => Vouched(y)'
      <4>1. UNCHANGED <<there, mapped>>
        BY DEF Begin, remote
      <4> QED BY <4>1 DEF Vouched, Recorded
    <3> QED BY <1>1, <2>5, <3>1
  <2>11. r \notin stale => Clean(r, y)'
    BY <2>5 DEF Clean, Begin, MayBeSent
  <2> QED BY <1>2, <2>4, <2>5, <2>6, <2>7, <2>9, <2>10, <2>11, JobStep DEF JobFrame, Begin
<1> QED BY <1>3, <1>4 DEF Begin

\* Shared objects are looked up; what was found is recorded and not sent.
LEMMA LookupKeeps ==
    ASSUME TransferConstants, TInv, NEW r \in Receipts, Lookup(r) PROVE TInv'
<1>1. PICK x \in Copy : x = worker[r].rec
  BY JobFacts DEF Lookup
<1>2. /\ AtStep(r, worker[r]) /\ worker[r] \in Thread /\ worker \in [Receipts -> Thread]
      /\ Formed(x) /\ (r \notin astray => Vouched(x)) /\ (r \notin stale => Clean(r, x))
      /\ x.conn = receipt[r].conn /\ x.case = receipt[r].case /\ x.state = "running"
      /\ worker[r].i = 1 /\ worker[r].pc = "lookup"
  BY <1>1, JobFacts DEF Lookup, TInv, TTypeOK, AtStep
<1>3. UNCHANGED <<quiet, remote, fate>>
  BY DEF Lookup
<1>4. ASSUME NEW part, Record(r, part) PROVE JobFrame(r)
  <2>1. /\ mapped' \in [Colls -> [Objects -> Graphs \cup {"none"}]]
        /\ \A coll \in Colls, o \in Objects :
              mapped[coll][o] # "none" => mapped'[coll][o] # "none"
    BY <1>2, <1>4, RecordStep
  <2> QED BY <1>3, <2>1 DEF JobFrame, TInv, TTypeOK, quiet, unasked, remote
<1>5. \A o \in Objects : MayBeSent(r, o) => MayBeSent(r, o)'
  BY <1>3 DEF MayBeSent
<1>6. CASE UNCHANGED mapped /\ x.looked /\ Stop(r, x, "paused")
  BY <1>1, <1>2, <1>3, <1>6, QuietFrame, NoAnswerStep DEF States, quiet, unasked
<1>7. CASE UNCHANGED mapped /\ x.looked /\ Save(r, "batch", x)
  <2>1. PICK w \in Thread : /\ w = [worker[r] EXCEPT !.pc = "batch", !.rec = x]
                            /\ w.pc = "batch" /\ w.rec = x /\ w.i = 1
                            /\ w.conn = worker[r].conn
    <3> DEFINE w == [worker[r] EXCEPT !.pc = "batch", !.rec = x]
    <3>1. /\ w \in Thread /\ w.pc = "batch" /\ w.rec = x /\ w.i = 1
          /\ w.conn = worker[r].conn
      BY <1>2 DEF Thread, Steps
    <3> QED BY <3>1
  <2>2. worker' = [worker EXCEPT ![r] = w] /\ receipt' = [receipt EXCEPT ![r] = x]
    BY <1>2, <1>7, <2>1 DEF Save
  <2>3. AtStep(r, w)
    BY <1>1, <1>2, <1>7, <2>1, BatchFacts DEF AtStep
  <2>4. JobFrame(r) /\ astray' = astray
    BY <1>3, <1>7, QuietFrame DEF quiet, unasked
  <2>5. r \notin astray' => Vouched(x)'
    BY <1>2, <1>3, <1>7 DEF Vouched, Recorded, quiet, remote
  <2>6. r \notin stale => Clean(r, x)'
    BY <1>2, <1>3 DEF Clean, MayBeSent
  <2> QED BY <1>2, <2>1, <2>2, <2>3, <2>4, <2>5, <2>6, BatchStep
<1>8. CASE \E part \in SUBSET Seen(r, Shared) :
              Record(r, part) /\ (Stop(r, x, "paused") \/ Fail(r, x))
  BY <1>1, <1>2, <1>4, <1>5, <1>8, NoAnswerStep DEF States, NoAnswer
<1>9. CASE /\ ~x.looked /\ Record(r, Seen(r, Shared))
           /\ Save(r, "batch", [x EXCEPT !.looked = TRUE, !.reused = Seen(r, Shared),
                                         !.batches = Split(Objects \ Seen(r, Shared))])
  <2>1. PICK found \in SUBSET Objects : found = Seen(r, Shared)
    BY DEF Seen, TransferConstants
  <2> DEFINE rest == Objects \ found
  <2>2. Split(rest) \in Seq(ABatch)
    BY SplitBatches
  <2>3. [x EXCEPT !.looked = TRUE, !.reused = found, !.batches = Split(rest)] \in Copy
    BY <2>2 DEF Copy
  <2>4. PICK y \in Copy :
            y = [x EXCEPT !.looked = TRUE, !.reused = found, !.batches = Split(rest)]
    BY <2>3
  <2>5. /\ y.state = "running" /\ y.conn = x.conn /\ y.case = x.case
        /\ y.looked /\ y.reused = found /\ y.batches = Split(rest)
    BY <1>2, <2>2, <2>4 DEF Copy
  <2>6. /\ Formed(y)
        /\ \A q : (\A o \in rest : MayBeSent(q, o)) => Clean(q, y)
    <3>1. y.conn \in Conns /\ y.case \in Contents /\ y.state # "complete"
      BY <1>2, <2>5 DEF Formed
    <3> QED BY <2>5, <3>1, SplitCopy
  <2>7. r \notin stale => Clean(r, y)'
    <3> SUFFICES ASSUME r \notin stale PROVE Clean(r, y)'
      OBVIOUS
    <3>1. x.batches = Split(Objects)
      BY <1>2, <1>9 DEF Formed
    <3>2. ASSUME NEW o \in Objects PROVE MayBeSent(r, o)
      <4>1. PICK i \in DOMAIN x.batches : o \in x.batches[i].ids
        BY <3>1, SplitBatches
      <4>2. o \in Sendable(x.batches[i])
        BY <3>1, <4>1, SplitBatches DEF Sendable
      <4> QED BY <1>2, <4>1, <4>2 DEF Clean
    <3>3. Clean(r, y)
      BY <2>6, <3>2
    <3> QED BY <1>3, <3>3 DEF Clean, MayBeSent
  <2>8. r \notin astray' => Vouched(y)'
    <3> SUFFICES ASSUME r \notin astray PROVE Vouched(y)'
      BY <1>3 DEF quiet
    <3>1. found \subseteq there[Collection[y.conn]]
      BY <1>1, <1>2, <2>1, <2>5, SeenIsThere
    <3>2. \A o \in found : mapped'[Collection[worker[r].rec.conn]][o] # "none"
      BY <1>2, <1>9, <2>1, RecordStep
    <3>3. \A o \in y.reused : Recorded(Collection[y.conn], o)'
      BY <1>1, <1>3, <2>5, <3>1, <3>2 DEF Recorded, remote
    <3>4. \A i \in DOMAIN y.batches : y.batches[i].state # "complete"
      BY <2>5, SplitBatches
    <3> QED BY <3>3, <3>4 DEF Vouched
  <2>9. PICK w \in Thread : /\ w = [worker[r] EXCEPT !.pc = "batch", !.rec = y]
                            /\ w.pc = "batch" /\ w.rec = y /\ w.i = 1
                            /\ w.conn = worker[r].conn
    <3> DEFINE w == [worker[r] EXCEPT !.pc = "batch", !.rec = y]
    <3>1. /\ w \in Thread /\ w.pc = "batch" /\ w.rec = y /\ w.i = 1
          /\ w.conn = worker[r].conn
      BY <1>2 DEF Thread, Steps
    <3> QED BY <3>1
  <2>10. worker' = [worker EXCEPT ![r] = w] /\ receipt' = [receipt EXCEPT ![r] = y]
    BY <1>2, <1>9, <2>1, <2>4, <2>9 DEF Save
  <2>11. AtStep(r, w)
    <3>1. Len(y.batches) \in Nat
      BY BatchFacts
    <3> QED BY <1>1, <1>2, <2>5, <2>9, <3>1 DEF AtStep
  <2>12. JobFrame(r) /\ astray' = astray
    BY <1>3, <1>4, <1>9 DEF quiet
  <2> QED BY <1>2, <2>5, <2>6, <2>7, <2>8, <2>9, <2>10, <2>11, <2>12, BatchStep
<1> QED BY <1>1, <1>6, <1>7, <1>8, <1>9 DEF Lookup

\* The top of the loop over the batches.
LEMMA NextBatchKeeps ==
    ASSUME TransferConstants, TInv, NEW r \in Receipts, NextBatch(r) PROVE TInv'
<1>1. PICK x \in Copy : x = worker[r].rec
  BY JobFacts DEF NextBatch
<1>2. /\ AtStep(r, worker[r]) /\ worker[r] \in Thread /\ worker \in [Receipts -> Thread]
      /\ Formed(x) /\ x.state = "running" /\ x.looked
      /\ worker[r].i \in Nat \ {0} /\ worker[r].pc = "batch"
  BY <1>1, JobFacts DEF NextBatch, TInv, TTypeOK, AtStep, Thread
<1>3. UNCHANGED <<quiet, mapped, remote, fate>>
  BY DEF NextBatch
<1>4. /\ Len(x.batches) \in Nat /\ DOMAIN x.batches = 1..Len(x.batches)
      /\ \A k \in DOMAIN x.batches : x.batches[k] \in ABatch
  BY BatchFacts
<1>5. CASE worker[r].i > Len(x.batches)
  <2>1. PICK w \in Thread : /\ w = [worker[r] EXCEPT !.pc = "labels"]
                            /\ w.pc = "labels" /\ w.rec = x /\ w.i = worker[r].i
                            /\ w.conn = worker[r].conn
    <3> DEFINE w == [worker[r] EXCEPT !.pc = "labels"]
    <3>1. /\ w \in Thread /\ w.pc = "labels" /\ w.rec = x /\ w.i = worker[r].i
          /\ w.conn = worker[r].conn
      BY <1>1, <1>2 DEF Thread, Steps
    <3> QED BY <3>1
  <2>2. worker' = [worker EXCEPT ![r] = w] /\ UNCHANGED receipt
    BY <1>1, <1>2, <1>5, <2>1 DEF NextBatch
  <2>3. AllComplete(x)
    BY <1>1, <1>2, <1>4, <1>5 DEF AtStep, AllComplete
  <2>4. AtStep(r, w)
    BY <1>1, <1>2, <2>1, <2>3 DEF AtStep
  <2> QED BY <1>1, <1>2, <1>3, <2>1, <2>2, <2>4, QuietFrame, MoveStep DEF quiet, unasked
<1>6. CASE Stop(r, x, "paused")
  BY <1>1, <1>2, <1>3, <1>6, QuietFrame, NoAnswerStep DEF States, quiet, unasked
<1>7. CASE /\ worker[r].i <= Len(x.batches) /\ x.batches[worker[r].i].state = "complete"
           /\ worker' = [worker EXCEPT ![r].i = @ + 1] /\ UNCHANGED receipt
  <2>1. PICK w \in Thread : /\ w = [worker[r] EXCEPT !.i = worker[r].i + 1]
                            /\ w.pc = "batch" /\ w.rec = x /\ w.i = worker[r].i + 1
                            /\ w.conn = worker[r].conn
    <3> DEFINE w == [worker[r] EXCEPT !.i = worker[r].i + 1]
    <3>1. /\ w \in Thread /\ w.pc = "batch" /\ w.rec = x /\ w.i = worker[r].i + 1
          /\ w.conn = worker[r].conn
      BY <1>1, <1>2 DEF Thread, Steps
    <3> QED BY <3>1
  <2>2. worker' = [worker EXCEPT ![r] = w]
    BY <1>2, <1>7, <2>1
  <2>3. \A k \in 1..Len(x.batches) : k < w.i => x.batches[k].state = "complete"
    <3>1. \A k \in 1..Len(x.batches) : k < worker[r].i => x.batches[k].state = "complete"
      BY <1>1, <1>2 DEF AtStep
    <3> QED BY <1>2, <1>4, <1>7, <2>1, <3>1
  <2>4. AtStep(r, w)
    BY <1>1, <1>2, <2>1, <2>3 DEF AtStep
  <2> QED BY <1>1, <1>2, <1>3, <1>7, <2>1, <2>2, <2>4, QuietFrame, MoveStep DEF quiet, unasked
<1>8. CASE /\ worker[r].i <= Len(x.batches) /\ x.batches[worker[r].i].state # "complete"
           /\ x.batches[worker[r].i].work # 0
           /\ worker' = [worker EXCEPT ![r].pc = "wait"] /\ UNCHANGED receipt
  <2>1. PICK w \in Thread : /\ w = [worker[r] EXCEPT !.pc = "wait"]
                            /\ w.pc = "wait" /\ w.rec = x /\ w.i = worker[r].i
                            /\ w.conn = worker[r].conn
    <3> DEFINE w == [worker[r] EXCEPT !.pc = "wait"]
    <3>1. /\ w \in Thread /\ w.pc = "wait" /\ w.rec = x /\ w.i = worker[r].i
          /\ w.conn = worker[r].conn
      BY <1>1, <1>2 DEF Thread, Steps
    <3> QED BY <3>1
  <2>2. worker' = [worker EXCEPT ![r] = w]
    BY <1>2, <1>8, <2>1
  <2>3. AtStep(r, w)
    BY <1>1, <1>2, <1>8, <2>1 DEF AtStep
  <2> QED BY <1>1, <1>2, <1>3, <1>8, <2>1, <2>2, <2>3, QuietFrame, MoveStep DEF quiet, unasked
<1>9. CASE /\ worker[r].i <= Len(x.batches) /\ x.batches[worker[r].i].state # "complete"
           /\ x.batches[worker[r].i].work = 0
           /\ Save(r, "push", SetBatch(r, [Batch(r) EXCEPT !.state = "submitting"]))
  <2> DEFINE i == worker[r].i
             old == x.batches[i]
  <2>1. i \in 1..Len(x.batches) /\ old \in ABatch /\ Batch(r) = old /\ old.failed \subseteq old.ids
    BY <1>1, <1>2, <1>4, <1>9 DEF Batch, Formed
  <2>2. [old EXCEPT !.state = "submitting"] \in ABatch
    BY <2>1 DEF ABatch
  <2>3. PICK b \in ABatch : b = [old EXCEPT !.state = "submitting"]
    BY <2>2
  <2>4. /\ b.state = "submitting" /\ b.ids = old.ids /\ b.verify = old.verify
        /\ b.failed = old.failed /\ b.work = 0
    BY <1>9, <2>1, <2>3 DEF ABatch
  <2>5. PICK rec : rec = SetBatch(r, b)
    OBVIOUS
  <2>6. JobFrame(r) /\ astray' = astray
    BY <1>3, QuietFrame DEF quiet, unasked
  <2>7. \A o \in Objects : MayBeSent(r, o) => MayBeSent(r, o)'
    BY <1>3 DEF MayBeSent
  <2>8. r \notin stale => \A o \in Sendable(b) : MayBeSent(r, o)'
    <3>1. Sendable(b) \subseteq Sendable(old) /\ Sendable(old) \subseteq Objects
      BY <1>2, <1>4, <1>9, <2>1, <2>4 DEF Sendable, ABatch, Formed
    <3>2. r \notin stale => Clean(r, x)
      BY <1>1, <1>2, JobFacts
    <3> QED BY <1>4, <2>1, <2>7, <3>1, <3>2 DEF Clean
  <2>9. /\ rec \in Copy /\ rec.state = "running" /\ rec.looked
        /\ rec.conn = receipt[r].conn /\ rec.case = receipt[r].case
        /\ Len(rec.batches) = Len(x.batches) /\ rec.batches[i] = b
        /\ \A k \in 1..Len(rec.batches) : k # i => rec.batches[k] = x.batches[k]
        /\ Formed(rec)
        /\ r \notin astray' => Vouched(rec)'
        /\ r \notin stale => Clean(r, rec)'
    <3>1. /\ worker[r].i <= Len(worker[r].rec.batches) /\ b \in ABatch /\ b.state = "submitting"
          /\ b.ids = Batch(r).ids /\ b.verify = Batch(r).verify /\ b.failed \subseteq b.ids
      BY <1>1, <1>2, <1>9, <2>1, <2>3, <2>2, <2>4
    <3>2. worker[r].pc \in {"batch", "push", "wait", "verify"}
      BY <1>2
    <3>3. /\ b.state = "failed" => b.work # 0
          /\ b.state = "complete" /\ r \notin astray =>
                \A o \in ToVerify(b) : Recorded(Collection[rec.conn], o)'
      BY <3>1
    <3>4. \A o \in Objects : o \notin Scope(b) /\ MayBeSent(r, o) => MayBeSent(r, o)'
      BY <2>7
    <3>5. /\ rec \in Copy /\ rec.state = "running" /\ rec.looked
          /\ rec.conn = receipt[r].conn /\ rec.case = receipt[r].case
          /\ Len(rec.batches) = Len(worker[r].rec.batches) /\ rec.batches[worker[r].i] = b
          /\ \A k \in 1..Len(rec.batches) :
                k # worker[r].i => rec.batches[k] = worker[r].rec.batches[k]
          /\ Formed(rec)
          /\ r \notin astray' => Vouched(rec)'
          /\ r \notin stale => Clean(r, rec)'
      BY <2>5, <2>6, <2>8, <3>1, <3>2, <3>3, <3>4, BatchWritten
    <3> QED  BY <1>1, <3>5
  <2>10. PICK w \in Thread : /\ w = [worker[r] EXCEPT !.pc = "push", !.rec = rec]
                            /\ w.pc = "push" /\ w.rec = rec /\ w.i = i
                            /\ w.conn = worker[r].conn
    <3> DEFINE w == [worker[r] EXCEPT !.pc = "push", !.rec = rec]
    <3>1. /\ w \in Thread /\ w.pc = "push" /\ w.rec = rec /\ w.i = i
          /\ w.conn = worker[r].conn
      BY <1>2, <2>9 DEF Thread, Steps
    <3> QED BY <3>1
  <2>11. worker' = [worker EXCEPT ![r] = w] /\ receipt' = [receipt EXCEPT ![r] = rec]
    BY <1>9, <2>1, <2>3, <2>5, <2>10 DEF Save
  <2>12. AtStep(r, w)
    <3>1. \A k \in 1..Len(x.batches) : k < i => x.batches[k].state = "complete"
      BY <1>1, <1>2 DEF AtStep
    <3>2. \A k \in 1..Len(rec.batches) : k < i => rec.batches[k].state = "complete"
      BY <2>1, <2>9, <3>1
    <3>3. r \notin astray => w.conn = rec.conn
      <4>1. /\ worker[r].pc # "idle"
            /\ r \notin astray => worker[r].conn = worker[r].rec.conn
        BY <1>1, <1>2 DEF AtStep
      <4>2. worker[r].rec.conn = receipt[r].conn
        BY <4>1, JobFacts
      <4> QED BY <4>1, <4>2, <2>9, <2>10
    <3>4. w.conn \in Conns
      BY <1>2, <2>10 DEF AtStep
    <3> QED BY <2>1, <2>4, <2>9, <2>10, <3>2, <3>3, <3>4 DEF AtStep
  <2> QED BY <1>2, <2>6, <2>9, <2>10, <2>11, <2>12, BatchStep
<1> QED BY <1>1, <1>2, <1>4, <1>5, <1>6, <1>7, <1>8, <1>9 DEF NextBatch, Batch

\* The batch the job is at, and the object of the platform's answer.
LEMMA AtBatch ==
    ASSUME TInv, NEW r \in Receipts, worker[r].pc \in {"push", "keep", "wait", "verify"}
    PROVE  /\ worker[r].i \in 1..Len(worker[r].rec.batches)
           /\ Batch(r) \in ABatch /\ Batch(r).failed \subseteq Batch(r).ids
           /\ Batch(r).state # "complete"
           /\ worker[r].pc = "push" => Batch(r).state # "failed" /\ Batch(r).work = 0
           /\ worker[r].pc # "push" => Batch(r).work # 0
           /\ worker[r].pc \in {"keep", "verify"} => Batch(r).state # "failed"
           /\ \A k \in 1..Len(worker[r].rec.batches) :
                 k < worker[r].i => worker[r].rec.batches[k].state = "complete"
<1>1. /\ worker[r] \in Thread /\ worker[r].rec \in Copy /\ worker[r].i \in Nat \ {0}
      /\ Formed(worker[r].rec) /\ AtStep(r, worker[r])
  BY JobFacts
<1>2. /\ Len(worker[r].rec.batches) \in Nat
      /\ DOMAIN worker[r].rec.batches = 1..Len(worker[r].rec.batches)
      /\ \A k \in DOMAIN worker[r].rec.batches : worker[r].rec.batches[k] \in ABatch
  BY <1>1, BatchFacts
<1>3. worker[r].i \in 1..Len(worker[r].rec.batches)
  BY <1>1, <1>2 DEF AtStep
<1> QED BY <1>1, <1>2, <1>3 DEF AtStep, Batch, Formed

\* The history of some objects of the receipt changes.
LEMMA FateStep ==
    ASSUME TInv, NEW r \in Receipts, NEW S, NEW f \in Fates,
           fate' = [fate EXCEPT ![r] = [o \in Objects |-> IF o \in S THEN f ELSE @[o]]]
    PROVE  /\ fate' \in [Receipts -> [Objects -> Fates]]
           /\ \A q \in Receipts : q # r => fate'[q] = fate[q]
           /\ \A o \in Objects : fate'[r][o] = IF o \in S THEN f ELSE fate[r][o]
<1>1. fate \in [Receipts -> [Objects -> Fates]]
  BY DEF TInv, TTypeOK
<1> QED BY <1>1

\* A batch is sent, and the answer may be lost.
LEMMA PushKeeps ==
    ASSUME TransferConstants, TInv, NEW r \in Receipts, Push(r) PROVE TInv'
<1>1. PICK x \in Copy : x = worker[r].rec
  BY JobFacts DEF Push
<1>2. PICK old \in ABatch, i \in 1..Len(x.batches) : old = Batch(r) /\ i = worker[r].i
  BY <1>1, AtBatch DEF Push
<1>3. /\ worker[r].pc = "push" /\ worker[r] \in Thread /\ AtStep(r, worker[r])
      /\ worker \in [Receipts -> Thread] /\ i \in Nat \ {0} /\ old.work = 0
      /\ old.state # "failed" /\ old.failed \subseteq old.ids
      /\ Len(x.batches) \in Nat
  BY <1>2, JobFacts, AtBatch, BatchFacts DEF Push, TInv, TTypeOK
<1>4. /\ fate' \in [Receipts -> [Objects -> Fates]]
      /\ \A q \in Receipts : q # r => fate'[q] = fate[q]
      /\ \A o \in Objects : fate'[r][o] = IF o \in old.ids THEN "sent" ELSE fate[r][o]
  BY <1>2, FateStep DEF Push, Fates
<1>5. works' \in Seq(Submitted) /\ Len(works) \in Nat
  <2>1. Submission(r) \in Submitted
    <3>1. Collection[worker[r].conn] \in Colls
      BY <1>3 DEF AtStep, Colls
    <3> QED BY <1>2, <3>1 DEF Submission, Submitted, ABatch
  <2>2. works \in Seq(Submitted)
    BY DEF TInv, TTypeOK
  <2>3. works' = works \/ works' = Append(works, Submission(r))
    BY DEF Push
  <2> QED BY <2>1, <2>2, <2>3
<1>6. JobFrame(r) /\ astray' = astray
  BY <1>4, <1>5 DEF Push, JobFrame, TInv, TTypeOK, quiet, unasked
<1>7. \A o \in Objects : MayBeSent(r, o) => MayBeSent(r, o)'
  BY <1>4 DEF MayBeSent
<1>8. CASE NoAnswer(r)
  BY <1>3, <1>6, <1>7, <1>8, NoAnswerStep DEF States
<1>9. CASE /\ worker' = [worker EXCEPT ![r].pc = "keep", ![r].rec = SetBatch(r,
                 [Batch(r) EXCEPT !.work = Len(works) + 1, !.state = "pending"])]
           /\ UNCHANGED receipt
  <2>1. [old EXCEPT !.work = Len(works) + 1, !.state = "pending"] \in ABatch
    <3>1. PICK n \in Nat : n = Len(works) + 1
      BY <1>5
    <3>2. [old EXCEPT !.work = n, !.state = "pending"] \in ABatch
      BY DEF ABatch
    <3> QED BY <3>1, <3>2
  <2>2. PICK b \in ABatch : b = [old EXCEPT !.work = Len(works) + 1, !.state = "pending"]
    BY <2>1
  <2>3. /\ b.state = "pending" /\ b.ids = old.ids /\ b.verify = old.verify
        /\ b.failed = old.failed /\ b.work # 0 /\ Sendable(b) = {}
    BY <1>5, <2>2 DEF ABatch, Sendable
  <2>4. PICK rec : rec = SetBatch(r, b)
    OBVIOUS
  <2>5. /\ rec \in Copy /\ rec.state = "running" /\ rec.looked
        /\ rec.conn = receipt[r].conn /\ rec.case = receipt[r].case
        /\ Len(rec.batches) = Len(x.batches) /\ rec.batches[i] = b
        /\ \A k \in 1..Len(rec.batches) : k # i => rec.batches[k] = x.batches[k]
        /\ Formed(rec)
        /\ r \notin astray' => Vouched(rec)'
        /\ r \notin stale => Clean(r, rec)'
    BY <1>1, <1>2, <1>3, <1>6, <1>7, <2>3, <2>4, BatchWritten
  <2>6. PICK w \in Thread : /\ w = [worker[r] EXCEPT !.pc = "keep", !.rec = rec]
                            /\ w.pc = "keep" /\ w.rec = rec /\ w.i = i
                            /\ w.conn = worker[r].conn
    <3> DEFINE w == [worker[r] EXCEPT !.pc = "keep", !.rec = rec]
    <3>1. /\ w \in Thread /\ w.pc = "keep" /\ w.rec = rec /\ w.i = i
          /\ w.conn = worker[r].conn
      BY <1>2, <1>3, <2>5 DEF Thread, Steps
    <3> QED BY <3>1
  <2>7. worker' = [worker EXCEPT ![r] = w]
    BY <1>2, <1>3, <1>9, <2>2, <2>4, <2>6
  <2>8. AtStep(r, w)
    <3>1. \A k \in 1..Len(rec.batches) : k < i => rec.batches[k].state = "complete"
      BY <1>1, <1>2, <1>3, <2>5, AtBatch
    <3>2. r \notin astray => w.conn = rec.conn
      <4>1. /\ worker[r].pc # "idle"
            /\ r \notin astray => worker[r].conn = worker[r].rec.conn
        BY <1>1, <1>3 DEF AtStep
      <4>2. worker[r].rec.conn = receipt[r].conn
        BY <4>1, JobFacts
      <4> QED BY <4>1, <4>2, <2>5, <2>6
    <3>3. w.conn \in Conns
      BY <1>3, <2>6 DEF AtStep
    <3> QED BY <1>2, <2>3, <2>5, <2>6, <3>1, <3>2, <3>3 DEF AtStep
  <2> QED BY <1>3, <1>6, <1>7, <1>9, <2>5, <2>6, <2>7, <2>8, BatchStep
<1> QED BY <1>8, <1>9 DEF Push

\* The work the platform named for a batch is saved.
LEMMA KeepWorkKeeps ==
    ASSUME TransferConstants, TInv, NEW r \in Receipts, KeepWork(r) PROVE TInv'
<1>1. PICK x \in Copy : x = worker[r].rec
  BY JobFacts DEF KeepWork
<1>2. PICK b \in ABatch, i \in 1..Len(x.batches) : b = Batch(r) /\ i = worker[r].i
  BY <1>1, AtBatch DEF KeepWork
<1>3. /\ worker[r].pc = "keep" /\ worker[r] \in Thread /\ AtStep(r, worker[r])
      /\ worker \in [Receipts -> Thread]
      /\ Formed(x) /\ x.state = "running"
      /\ x.conn = receipt[r].conn /\ x.case = receipt[r].case
      /\ (r \notin astray => Vouched(x)) /\ (r \notin stale => Clean(r, x))
      /\ b = x.batches[i] /\ b.work # 0 /\ b.state \notin {"failed", "complete"}
  BY <1>1, <1>2, JobFacts, AtBatch DEF KeepWork, TInv, TTypeOK, AtStep, Batch
<1>4. /\ fate' \in [Receipts -> [Objects -> Fates]]
      /\ \A q \in Receipts : q # r => fate'[q] = fate[q]
      /\ \A o \in Objects : fate'[r][o] = IF o \in b.ids THEN "accepted" ELSE fate[r][o]
  BY <1>2, FateStep DEF KeepWork, Fates
<1>5. JobFrame(r) /\ astray' = astray /\ UNCHANGED <<there, mapped>>
  BY <1>4 DEF KeepWork, JobFrame, TInv, TTypeOK, quiet, unasked, remote
<1>6. r \notin stale => Clean(r, x)'
  <2> SUFFICES ASSUME r \notin stale, NEW k \in DOMAIN x.batches, NEW o \in Sendable(x.batches[k])
               PROVE  MayBeSent(r, o)'
    BY DEF Clean
  <2>1. k # i
    BY <1>3 DEF Sendable
  <2>2. /\ x.batches[k] \in ABatch /\ x.batches[k].failed \subseteq x.batches[k].ids
        /\ DOMAIN x.batches = 1..Len(x.batches)
    BY <1>3, BatchFacts DEF Formed
  <2>3. o \in x.batches[k].ids /\ o \in Objects
    BY <2>2 DEF Sendable, ABatch
  <2>4. Scope(x.batches[k]) \cap Scope(x.batches[i]) = {}
    BY <1>3, <2>1, <2>2 DEF Formed
  <2>5. o \notin b.ids
    BY <1>3, <2>3, <2>4 DEF Scope
  <2>6. MayBeSent(r, o)
    BY <1>3 DEF Clean
  <2> QED BY <1>4, <2>3, <2>5, <2>6 DEF MayBeSent
<1>7. r \notin astray' => Vouched(x)'
  BY <1>3, <1>5 DEF Vouched, Recorded
<1>8. PICK w \in Thread : /\ w = [worker[r] EXCEPT !.pc = "wait", !.rec = x]
                          /\ w.pc = "wait" /\ w.rec = x /\ w.i = worker[r].i
                          /\ w.conn = worker[r].conn
  <2> DEFINE w == [worker[r] EXCEPT !.pc = "wait", !.rec = x]
  <2>1. /\ w \in Thread /\ w.pc = "wait" /\ w.rec = x /\ w.i = worker[r].i
        /\ w.conn = worker[r].conn
    BY <1>1, <1>3 DEF Thread, Steps
  <2> QED BY <2>1
<1>9. worker' = [worker EXCEPT ![r] = w] /\ receipt' = [receipt EXCEPT ![r] = x]
  BY <1>1, <1>3, <1>8 DEF KeepWork, Save
<1>10. AtStep(r, w)
  BY <1>1, <1>3, <1>8 DEF AtStep
<1> QED BY <1>3, <1>5, <1>6, <1>7, <1>8, <1>9, <1>10, BatchStep

\* The receipt becomes complete, or the job ends at the labels.
LEMMA FinishKeeps ==
    ASSUME TransferConstants, TInv, NEW r \in Receipts, Finish(r) PROVE TInv'
<1>1. PICK x \in Copy : x = worker[r].rec
  BY JobFacts DEF Finish
<1>2. JobFrame(r) /\ (\A o \in Objects : MayBeSent(r, o) => MayBeSent(r, o)') /\ astray' = astray
      /\ UNCHANGED <<there, mapped, fate>>
  BY QuietFrame DEF Finish, quiet, unasked, remote
<1>3. CASE Stop(r, worker[r].rec, "paused") \/ NoAnswer(r)
  BY <1>2, <1>3, NoAnswerStep DEF Finish, States
<1>4. CASE Stop(r, worker[r].rec, "complete")
  <2>1. /\ AtStep(r, worker[r]) /\ worker[r] \in Thread /\ worker \in [Receipts -> Thread]
        /\ Formed(x) /\ x.looked /\ AllComplete(x)
        /\ x.conn = receipt[r].conn /\ x.case = receipt[r].case
        /\ (r \notin astray => Vouched(x)) /\ (r \notin stale => Clean(r, x))
    BY <1>1, JobFacts DEF Finish, TInv, TTypeOK, AtStep
  <2>2. [x EXCEPT !.state = "complete"] \in Copy
    BY DEF Copy, States
  <2>3. PICK y \in Copy : y = [x EXCEPT !.state = "complete"]
    BY <2>2
  <2>4. /\ y.state = "complete" /\ y.conn = x.conn /\ y.case = x.case
        /\ y.looked = x.looked /\ y.batches = x.batches /\ y.reused = x.reused
    BY <2>3 DEF Copy
  <2>5. Formed(y)
    BY <2>1, <2>4 DEF Formed, AllComplete
  <2>6. r \notin astray' => Vouched(y)'
    BY <1>2, <2>1, <2>4 DEF Vouched, Recorded
  <2>7. r \notin stale => Clean(r, y)'
    BY <1>2, <2>1, <2>4 DEF Clean, MayBeSent
  <2>8. PICK w \in Thread : /\ w = [worker[r] EXCEPT !.pc = "release", !.rec = y]
                            /\ w.pc = "release" /\ w.rec = y /\ w.conn = worker[r].conn
    <3> DEFINE w == [worker[r] EXCEPT !.pc = "release", !.rec = y]
    <3>1. w \in Thread /\ w.pc = "release" /\ w.rec = y /\ w.conn = worker[r].conn
      BY <2>1 DEF Thread, Steps
    <3> QED BY <3>1
  <2>9. worker' = [worker EXCEPT ![r] = w] /\ receipt' = [receipt EXCEPT ![r] = y]
    BY <1>1, <1>4, <2>1, <2>3, <2>8 DEF Stop, Save
  <2>10. AtStep(r, w)'
    BY <2>1, <2>8 DEF AtStep
  <2> QED BY <1>2, <2>1, <2>4, <2>5, <2>6, <2>7, <2>8, <2>9, <2>10, JobStep DEF JobFrame, Finish
<1> QED BY <1>3, <1>4 DEF Finish

\* The analyst cancels the job.
LEMMA CancelKeeps ==
    ASSUME TransferConstants, TInv, NEW r \in Receipts, Cancel(r) PROVE TInv'
<1>1. PICK x \in Copy : x = worker[r].rec
  BY JobFacts DEF Cancel
<1>2. AtStep(r, worker[r]) /\ worker[r] \in Thread /\ worker \in [Receipts -> Thread]
  BY JobFacts DEF Cancel, TInv, TTypeOK
<1>3. PICK w \in Thread : /\ w = [worker[r] EXCEPT !.cancel = TRUE]
                          /\ w.pc = worker[r].pc /\ w.rec = x /\ w.i = worker[r].i
                          /\ w.conn = worker[r].conn
  <2> DEFINE w == [worker[r] EXCEPT !.cancel = TRUE]
  <2>1. /\ w \in Thread /\ w.pc = worker[r].pc /\ w.rec = x /\ w.i = worker[r].i
        /\ w.conn = worker[r].conn
    BY <1>1, <1>2 DEF Thread
  <2> QED BY <2>1
<1>4. worker' = [worker EXCEPT ![r] = w]
  BY <1>2, <1>3 DEF Cancel
<1>5. AtStep(r, w)
  BY <1>1, <1>2, <1>3 DEF AtStep
<1>6. JobFrame(r) /\ UNCHANGED <<astray, mapped, fate, receipt>>
  BY DEF Cancel, saved, remote, JobFrame, TInv, TTypeOK
<1> QED BY <1>1, <1>3, <1>4, <1>5, <1>6, MoveStep DEF Cancel

\* The job ends with what became of the batch it is at.
LEMMA FailBatchStep ==
    ASSUME TransferConstants, TInv, NEW r \in Receipts, worker[r].pc \in {"wait", "verify"},
           NEW b \in ABatch, b.ids = Batch(r).ids, b.verify = Batch(r).verify,
           b.failed \subseteq b.ids, b.work # 0, b.state # "complete",
           Fail(r, SetBatch(r, b)), JobFrame(r), astray' = astray,
           \A o \in Sendable(b) : MayBeSent(r, o)',
           \A o \in Objects : MayBeSent(r, o) => MayBeSent(r, o)'
    PROVE  TInv'
<1>1. PICK rec : rec = SetBatch(r, b)
  OBVIOUS
<1>2. worker[r].i <= Len(worker[r].rec.batches) /\ worker[r].pc # "idle"
  BY AtBatch
<1>3. /\ rec \in Copy /\ rec.conn = receipt[r].conn /\ rec.case = receipt[r].case
      /\ Formed(rec)
      /\ r \notin astray' => Vouched(rec)'
      /\ r \notin stale => Clean(r, rec)'
  BY <1>1, <1>2, BatchWritten
<1>4. PICK s \in States \ {"none", "complete"} : Stop(r, rec, s)
  BY <1>1 DEF Fail, States
<1> QED BY <1>2, <1>3, <1>4, StopStep

\* The answer for a batch: not yet, none, failures, or all imported.
LEMMA WaitKeeps ==
    ASSUME TransferConstants, TInv, NEW r \in Receipts, Wait(r) PROVE TInv'
<1>1. PICK x \in Copy : x = worker[r].rec
  BY JobFacts DEF Wait
<1>2. PICK old \in ABatch, i \in 1..Len(x.batches) : old = Batch(r) /\ i = worker[r].i
  BY <1>1, AtBatch DEF Wait
<1>3. /\ worker[r].pc = "wait" /\ worker[r] \in Thread /\ AtStep(r, worker[r])
      /\ worker \in [Receipts -> Thread] /\ i \in Nat \ {0}
      /\ old.work # 0 /\ old.failed \subseteq old.ids /\ Len(x.batches) \in Nat
  BY <1>2, JobFacts, AtBatch, BatchFacts DEF Wait, TInv, TTypeOK
<1>4. /\ UNCHANGED <<settings, case, active, caller, stale, there>> /\ astray' = astray
      /\ works' = works
  BY DEF Wait, quiet, unasked, remote
<1>5. CASE /\ UNCHANGED <<mapped, fate>>
           /\ \/ Stop(r, worker[r].rec, "paused") \/ Stop(r, worker[r].rec, "pending")
              \/ NoAnswer(r)
  <2>1. JobFrame(r)
    BY <1>4, <1>5 DEF JobFrame, TInv, TTypeOK
  <2>2. \A o \in Objects : MayBeSent(r, o) => MayBeSent(r, o)'
    BY <1>5 DEF MayBeSent
  <2> QED BY <1>3, <1>5, <2>1, <2>2, NoAnswerStep DEF States
<1>6. ASSUME NEW named, named = TaxiiStatus(r).named \cap Batch(r).ids, NEW done,
             fate' = [fate EXCEPT ![r] = [o \in Objects |->
                IF o \in (IF named = {} THEN Batch(r).ids ELSE named) THEN "failed" ELSE @[o]]],
             Record(r, done),
             Fail(r, SetBatch(r, [Batch(r) EXCEPT !.state = "failed", !.failed = named,
                                                  !.some = done # {}]))
      PROVE  TInv'
  <2> DEFINE some == done # {}
             sent == IF named = {} THEN old.ids ELSE named
  <2>1. [old EXCEPT !.state = "failed", !.failed = named, !.some = some] \in ABatch
    <3>1. named \in SUBSET Objects
      BY <1>2, <1>6 DEF ABatch
    <3>2. some \in BOOLEAN
      OBVIOUS
    <3> HIDE DEF some
    <3> QED BY <3>1, <3>2 DEF ABatch
  <2>2. PICK b \in ABatch : b = [old EXCEPT !.state = "failed", !.failed = named, !.some = some]
    BY <2>1
  <2>3. /\ b.state = "failed" /\ b.ids = old.ids /\ b.verify = old.verify
        /\ b.failed = named /\ b.work # 0
    BY <1>3, <2>2 DEF ABatch
  <2>4. named \subseteq old.ids /\ Sendable(b) = sent /\ sent \subseteq Objects
    BY <1>2, <1>6, <2>3 DEF Sendable, ABatch
  <2>5. /\ fate' \in [Receipts -> [Objects -> Fates]]
        /\ \A q \in Receipts : q # r => fate'[q] = fate[q]
        /\ \A o \in Objects : fate'[r][o] = IF o \in sent THEN "failed" ELSE fate[r][o]
    <3>1. "failed" \in Fates
      BY DEF Fates
    <3>2. fate' = [fate EXCEPT ![r] = [o \in Objects |-> IF o \in sent THEN "failed" ELSE @[o]]]
      BY <1>2, <1>6
    <3> HIDE DEF sent
    <3> QED BY <3>1, <3>2, FateStep
  <2>6. JobFrame(r)
    <3>1. /\ mapped' \in [Colls -> [Objects -> Graphs \cup {"none"}]]
          /\ \A coll \in Colls, o \in Objects :
                mapped[coll][o] # "none" => mapped'[coll][o] # "none"
      BY <1>3, <1>6, RecordStep
    <3> QED BY <1>4, <2>5, <3>1 DEF JobFrame, TInv, TTypeOK
  <2>7. /\ \A o \in Sendable(b) : MayBeSent(r, o)'
        /\ \A o \in Objects : MayBeSent(r, o) => MayBeSent(r, o)'
    BY <2>4, <2>5 DEF MayBeSent
  <2>8. Fail(r, SetBatch(r, b))
    BY <1>2, <1>6, <2>2
  <2> QED BY <1>2, <1>3, <1>4, <2>3, <2>4, <2>6, <2>7, <2>8, FailBatchStep
<1>7. CASE /\ UNCHANGED <<mapped, fate, receipt>>
           /\ worker' = [worker EXCEPT ![r].pc = "verify",
                 ![r].rec = SetBatch(r, [Batch(r) EXCEPT !.state = "verifying"])]
  <2>1. [old EXCEPT !.state = "verifying"] \in ABatch
    BY DEF ABatch
  <2>2. PICK b \in ABatch : b = [old EXCEPT !.state = "verifying"]
    BY <2>1
  <2>3. /\ b.state = "verifying" /\ b.ids = old.ids /\ b.verify = old.verify
        /\ b.failed = old.failed /\ b.work # 0 /\ Sendable(b) = {}
    BY <1>3, <2>2 DEF ABatch, Sendable
  <2>4. PICK rec : rec = SetBatch(r, b)
    OBVIOUS
  <2>5. JobFrame(r)
    BY <1>4, <1>7 DEF JobFrame, TInv, TTypeOK
  <2>6. \A o \in Objects : MayBeSent(r, o) => MayBeSent(r, o)'
    BY <1>7 DEF MayBeSent
  <2>7. /\ rec \in Copy /\ rec.state = "running" /\ rec.looked
        /\ rec.conn = receipt[r].conn /\ rec.case = receipt[r].case
        /\ Len(rec.batches) = Len(x.batches) /\ rec.batches[i] = b
        /\ \A k \in 1..Len(rec.batches) : k # i => rec.batches[k] = x.batches[k]
        /\ Formed(rec)
        /\ r \notin astray' => Vouched(rec)'
        /\ r \notin stale => Clean(r, rec)'
    BY <1>1, <1>2, <1>3, <1>4, <2>3, <2>4, <2>5, <2>6, BatchWritten
  <2>8. PICK w \in Thread : /\ w = [worker[r] EXCEPT !.pc = "verify", !.rec = rec]
                            /\ w.pc = "verify" /\ w.rec = rec /\ w.i = i
                            /\ w.conn = worker[r].conn
    <3> DEFINE w == [worker[r] EXCEPT !.pc = "verify", !.rec = rec]
    <3>1. /\ w \in Thread /\ w.pc = "verify" /\ w.rec = rec /\ w.i = i
          /\ w.conn = worker[r].conn
      BY <1>2, <1>3, <2>7 DEF Thread, Steps
    <3> QED BY <3>1
  <2>9. worker' = [worker EXCEPT ![r] = w]
    BY <1>2, <1>3, <1>7, <2>2, <2>4, <2>8
  <2>10. AtStep(r, w)
    <3>1. \A k \in 1..Len(rec.batches) : k < i => rec.batches[k].state = "complete"
      BY <1>1, <1>2, <1>3, <2>7, AtBatch
    <3>2. r \notin astray => w.conn = rec.conn
      <4>1. /\ worker[r].pc # "idle"
            /\ r \notin astray => worker[r].conn = worker[r].rec.conn
        BY <1>1, <1>3 DEF AtStep
      <4>2. worker[r].rec.conn = receipt[r].conn
        BY <4>1, JobFacts
      <4> QED BY <4>1, <4>2, <2>7, <2>8
    <3>3. w.conn \in Conns
      BY <1>3, <2>8 DEF AtStep
    <3> QED BY <1>2, <2>3, <2>7, <2>8, <3>1, <3>2, <3>3 DEF AtStep
  <2> QED BY <1>3, <1>4, <1>7, <2>5, <2>6, <2>7, <2>8, <2>9, <2>10, BatchStep
<1>8. PICK named : named = TaxiiStatus(r).named \cap Batch(r).ids
  OBVIOUS
<1>9. CASE /\ fate' = [fate EXCEPT ![r] = [o \in Objects |->
                 IF o \in (IF named = {} THEN Batch(r).ids ELSE named) THEN "failed" ELSE @[o]]]
           /\ \E done \in (IF named = {} THEN {{}} ELSE SUBSET Seen(r, Batch(r).ids \ named)) :
                 /\ Record(r, done)
                 /\ Fail(r, SetBatch(r, [Batch(r) EXCEPT !.state = "failed", !.failed = named,
                                                         !.some = done # {}]))
  BY <1>6, <1>8, <1>9
<1> QED BY <1>5, <1>7, <1>8, <1>9 DEF Wait

\* A batch is complete when all of its objects can be seen.
LEMMA VerifyKeeps ==
    ASSUME TransferConstants, TInv, NEW r \in Receipts, Verify(r) PROVE TInv'
<1>1. PICK x \in Copy : x = worker[r].rec
  BY JobFacts DEF Verify
<1>2. PICK old \in ABatch, i \in 1..Len(x.batches) : old = Batch(r) /\ i = worker[r].i
  BY <1>1, AtBatch DEF Verify
<1>3. /\ worker[r].pc = "verify" /\ worker[r] \in Thread /\ AtStep(r, worker[r])
      /\ worker \in [Receipts -> Thread] /\ i \in Nat \ {0} /\ i + 1 \in Nat \ {0}
      /\ old.work # 0 /\ old.state # "failed" /\ old.failed \subseteq old.ids
      /\ Len(x.batches) \in Nat
  BY <1>2, JobFacts, AtBatch, BatchFacts DEF Verify, TInv, TTypeOK
<1>4. /\ UNCHANGED <<settings, case, active, caller, stale, there>> /\ astray' = astray
      /\ works' = works
  BY DEF Verify, quiet, unasked, remote
<1>5. CASE UNCHANGED <<mapped, fate>> /\ NoAnswer(r)
  <2>1. JobFrame(r)
    BY <1>4, <1>5 DEF JobFrame, TInv, TTypeOK
  <2>2. \A o \in Objects : MayBeSent(r, o) => MayBeSent(r, o)'
    BY <1>5 DEF MayBeSent
  <2> QED BY <1>3, <1>5, <2>1, <2>2, NoAnswerStep DEF States
<1>6. CASE /\ UNCHANGED <<mapped, fate>>
           /\ Fail(r, SetBatch(r, [Batch(r) EXCEPT !.state = "unverified"]))
  <2>1. [old EXCEPT !.state = "unverified"] \in ABatch
    BY DEF ABatch
  <2>2. PICK b \in ABatch : b = [old EXCEPT !.state = "unverified"]
    BY <2>1
  <2>3. /\ b.state = "unverified" /\ b.ids = old.ids /\ b.verify = old.verify
        /\ b.failed = old.failed /\ b.work # 0 /\ Sendable(b) = {}
    BY <1>3, <2>2 DEF ABatch, Sendable
  <2>4. JobFrame(r)
    BY <1>4, <1>6 DEF JobFrame, TInv, TTypeOK
  <2>5. \A o \in Objects : MayBeSent(r, o) => MayBeSent(r, o)'
    BY <1>6 DEF MayBeSent
  <2>6. Fail(r, SetBatch(r, b))
    BY <1>2, <1>6, <2>2
  <2> QED BY <1>2, <1>3, <1>4, <2>3, <2>4, <2>5, <2>6, FailBatchStep
<1>7. ASSUME Seen(r, ToVerify(Batch(r))) = ToVerify(Batch(r)), Record(r, ToVerify(Batch(r))),
             NEW rec, rec = SetBatch(r, [Batch(r) EXCEPT !.state = "complete"]),
             worker' = [worker EXCEPT ![r].pc = "batch", ![r].i = @ + 1, ![r].rec = rec],
             receipt' = [receipt EXCEPT ![r] = rec],
             fate' = [fate EXCEPT ![r] = [o \in Objects |->
                        IF o \in ToVerify(Batch(r)) THEN "complete" ELSE @[o]]]
      PROVE  TInv'
  <2>1. [old EXCEPT !.state = "complete"] \in ABatch
    BY DEF ABatch
  <2>2. PICK b \in ABatch : b = [old EXCEPT !.state = "complete"]
    BY <2>1
  <2>3. /\ b.state = "complete" /\ b.ids = old.ids /\ b.verify = old.verify
        /\ b.failed = old.failed /\ b.work # 0 /\ Sendable(b) = {}
        /\ ToVerify(b) = ToVerify(old) /\ ToVerify(b) \subseteq Scope(b)
        /\ ToVerify(b) \subseteq Objects
    BY <1>3, <2>2 DEF ABatch, Sendable, ToVerify, Scope
  <2>4. rec = SetBatch(r, b)
    BY <1>2, <1>7, <2>2
  <2>5. /\ fate' \in [Receipts -> [Objects -> Fates]]
        /\ \A q \in Receipts : q # r => fate'[q] = fate[q]
        /\ \A o \in Objects : fate'[r][o] = IF o \in ToVerify(b) THEN "complete" ELSE fate[r][o]
    BY <1>2, <1>7, <2>3, FateStep DEF Fates
  <2>6. JobFrame(r) /\ \A o \in ToVerify(b) : mapped'[Collection[worker[r].rec.conn]][o] # "none"
    <3>1. /\ mapped' \in [Colls -> [Objects -> Graphs \cup {"none"}]]
          /\ \A coll \in Colls, o \in Objects :
                mapped[coll][o] # "none" => mapped'[coll][o] # "none"
          /\ \A o \in Objects \cap ToVerify(b) :
                mapped'[Collection[worker[r].rec.conn]][o] # "none"
      BY <1>2, <1>3, <1>7, <2>3, RecordStep
    <3> QED BY <1>4, <2>3, <2>5, <3>1 DEF JobFrame, TInv, TTypeOK
  <2>7. \A o \in Objects : o \notin Scope(b) /\ MayBeSent(r, o) => MayBeSent(r, o)'
    BY <2>3, <2>5 DEF MayBeSent
  <2>8. rec.conn = x.conn
    BY <1>1, <2>4 DEF SetBatch, Copy
  <2>9. r \notin astray => \A o \in ToVerify(b) : Recorded(Collection[rec.conn], o)'
    <3> SUFFICES ASSUME r \notin astray, NEW o \in ToVerify(b)
                 PROVE  Recorded(Collection[rec.conn], o)'
      OBVIOUS
    <3>1. o \in there[Collection[rec.conn]]
      BY <1>1, <1>2, <1>3, <1>7, <2>3, <2>8, SeenIsThere
    <3>2. mapped'[Collection[rec.conn]][o] # "none"
      BY <1>1, <2>6, <2>8
    <3> QED BY <1>4, <3>1, <3>2 DEF Recorded
  <2>10. /\ rec \in Copy /\ rec.state = "running" /\ rec.looked
         /\ rec.conn = receipt[r].conn /\ rec.case = receipt[r].case
         /\ Len(rec.batches) = Len(x.batches) /\ rec.batches[i] = b
         /\ \A k \in 1..Len(rec.batches) : k # i => rec.batches[k] = x.batches[k]
         /\ Formed(rec)
         /\ r \notin astray' => Vouched(rec)'
         /\ r \notin stale => Clean(r, rec)'
    BY <1>1, <1>2, <1>3, <1>4, <2>3, <2>4, <2>6, <2>7, <2>9, BatchWritten
  <2>11. PICK w \in Thread : /\ w = [worker[r] EXCEPT !.pc = "batch", !.i = @ + 1, !.rec = rec]
                             /\ w.pc = "batch" /\ w.rec = rec /\ w.i = i + 1
                             /\ w.conn = worker[r].conn
    <3> DEFINE w == [worker[r] EXCEPT !.pc = "batch", !.i = @ + 1, !.rec = rec]
    <3>1. /\ w \in Thread /\ w.pc = "batch" /\ w.rec = rec /\ w.i = i + 1
          /\ w.conn = worker[r].conn
      BY <1>2, <1>3, <2>10 DEF Thread, Steps
    <3> QED BY <3>1
  <2>12. worker' = [worker EXCEPT ![r] = w]
    BY <1>2, <1>3, <1>7, <2>11
  <2>13. AtStep(r, w)
    <3>1. \A k \in 1..Len(rec.batches) : k < i => rec.batches[k].state = "complete"
      BY <1>1, <1>2, <1>3, <2>10, AtBatch
    <3>2. \A k \in 1..Len(rec.batches) : k < i + 1 => rec.batches[k].state = "complete"
      BY <1>3, <2>3, <2>10, <3>1
    <3>3. r \notin astray => w.conn = rec.conn
      BY <1>1, <1>3, <2>8, <2>11 DEF AtStep
    <3>4. w.conn \in Conns
      BY <1>3, <2>11 DEF AtStep
    <3> QED BY <2>10, <2>11, <3>2, <3>3, <3>4 DEF AtStep
  <2> QED BY <1>3, <1>4, <1>7, <2>6, <2>10, <2>11, <2>12, <2>13, BatchStep
<1> QED BY <1>5, <1>6, <1>7 DEF Verify

-----------------------------------------------------------------------------
(* Requests, releases and crashes.                                         *)

\* The job has ended and releases the key of its receipt.
LEMMA ReleaseKeeps ==
    ASSUME TransferConstants, TInv, NEW r \in Receipts, Release(r) PROVE TInv'
<1>1. UNCHANGED <<settings, case, receipt, mapped, caller, works, there, fate, stale, astray>>
  BY DEF Release, saved, remote
<1>2. NoWorker \in Thread /\ NoWorker.pc = "idle"
  BY DEF NoWorker, NoReceipt, Thread, Steps, Copy, States
<1>3. /\ worker' \in [Receipts -> Thread] /\ worker'[r] = NoWorker
      /\ \A q \in Receipts : q # r => worker'[q] = worker[q]
  BY <1>2 DEF Release, TInv, TTypeOK
<1>4. TTypeOK' /\ Numbered'
  BY <1>1, <1>3 DEF Release, Released, TInv, TTypeOK, Numbered
<1>5. \A q \in Receipts, y \in Copy : CopyOf(q, y)' <=> CopyOf(q, y)
  BY <1>1 DEF CopyOf, Vouched, Recorded
<1>6. Saved'
  <2>1. \A q \in Receipts : receipt[q] \in Copy
    BY DEF TInv, TTypeOK
  <2> QED BY <1>1, <1>5, <2>1 DEF TInv, Saved
<1>7. Working'
  <2> SUFFICES ASSUME NEW q \in Receipts, NEW z \in Thread, z = worker'[q], z.pc # "idle"
               PROVE  CopyOf(q, z.rec)' /\ AtStep(q, z)'
    BY <1>3 DEF Working
  <2>1. z = worker[q]
    BY <1>2, <1>3
  <2>2. CopyOf(q, z.rec) /\ AtStep(q, z) /\ z.rec \in Copy
    BY <2>1 DEF TInv, Working, Thread
  <2> QED BY <1>1, <1>5, <2>2 DEF AtStep
<1>8. Asking'
  <2>1. \A c \in Callers : caller[c].rec \in Copy
    BY DEF TInv, TTypeOK
  <2>2. \A c \in Callers : caller[c].pc # "idle" => caller[c].r \in Receipts
    BY DEF TInv, Asking, CopyOf
  <2> QED BY <1>1, <1>5, <2>1, <2>2 DEF TInv, Asking
<1>9. Unsent'
  <2>1. \A q, y : Clean(q, y)' <=> Clean(q, y)
    BY <1>1 DEF Clean, MayBeSent
  <2> QED BY <1>1, <1>2, <1>3, <2>1 DEF TInv, Unsent
<1>10. BlockedOnlyByAJob'
  BY <1>3 DEF Release, Released, TInv, BlockedOnlyByAJob, AtWork
<1> QED BY <1>4, <1>6, <1>7, <1>8, <1>9, <1>10 DEF TInv

\* A crash leaves what is saved, and no job or request.
LEMMA CrashKeeps == ASSUME TransferConstants, TInv, Crash PROVE TInv'
<1>1. UNCHANGED <<settings, case, receipt, mapped, works, there, fate, stale, astray>>
  BY DEF Crash, saved, remote
<1>2. /\ NoWorker \in Thread /\ NoWorker.pc = "idle" /\ NoCaller.pc = "idle"
      /\ NoCaller \in [pc : {"idle", "save", "queue"}, r : Nat, rec : Copy]
  BY DEF NoWorker, NoCaller, NoReceipt, Thread, Steps, Copy, States
<1>3. /\ worker' \in [Receipts -> Thread] /\ \A q \in Receipts : worker'[q].pc = "idle"
      /\ caller' \in [Callers -> [pc : {"idle", "save", "queue"}, r : Nat, rec : Copy]]
      /\ \A c \in Callers : caller'[c].pc = "idle"
      /\ active' = {}
  BY <1>2 DEF Crash
<1>4. TTypeOK' /\ Numbered'
  BY <1>1, <1>3 DEF TInv, TTypeOK, Numbered
<1>5. Saved'
  <2>1. \A q \in Receipts, y \in Copy : CopyOf(q, y)' <=> CopyOf(q, y)
    BY <1>1 DEF CopyOf, Vouched, Recorded
  <2>2. \A q \in Receipts : receipt[q] \in Copy
    BY DEF TInv, TTypeOK
  <2> QED BY <1>1, <2>1, <2>2 DEF TInv, Saved
<1>6. Working' /\ Asking' /\ BlockedOnlyByAJob'
  BY <1>3 DEF Working, Asking, BlockedOnlyByAJob, AtWork
<1>7. Unsent'
  <2>1. \A q, y : Clean(q, y)' <=> Clean(q, y)
    BY <1>1 DEF Clean, MayBeSent
  <2> QED BY <1>1, <1>3, <2>1 DEF TInv, Unsent
<1> QED BY <1>4, <1>5, <1>6, <1>7 DEF TInv

\* A request changes what it holds and may overwrite its receipt.
LEMMA RequestStep ==
    ASSUME TransferConstants, TInv, NEW c \in Callers,
           UNCHANGED <<settings, case, mapped, active, worker, works, there, fate, astray>>,
           NEW z \in [pc : {"idle", "save", "queue"}, r : Nat, rec : Copy],
           caller' = [caller EXCEPT ![c] = z],
           z.pc # "idle" => CopyOf(z.r, z.rec) /\ (z.pc = "queue" => z.rec.state = "queued"),
           NEW r \in Receipts, NEW x \in Copy, receipt' = [receipt EXCEPT ![r] = x],
           receipt[r].state # "none" /\ CopyOf(r, x),
           stale \subseteq stale', stale' \subseteq Receipts,
           r \notin stale' => Clean(r, x)
    PROVE  TInv'
<1>1. /\ receipt' \in [Receipts -> Copy] /\ receipt'[r] = x
      /\ \A q \in Receipts : q # r => receipt'[q] = receipt[q]
  BY DEF TInv, TTypeOK
<1>2. x.state # "none" /\ x.conn = receipt[r].conn /\ x.case = receipt[r].case
  BY DEF CopyOf
<1>3. \A q \in Receipts : /\ receipt'[q].state = "none" <=> receipt[q].state = "none"
                          /\ receipt'[q].conn = receipt[q].conn
                          /\ receipt'[q].case = receipt[q].case
  BY <1>1, <1>2
<1>4. \A q \in Receipts, y \in Copy : CopyOf(q, y) => CopyOf(q, y)'
  <2> SUFFICES ASSUME NEW q \in Receipts, NEW y \in Copy, CopyOf(q, y) PROVE CopyOf(q, y)'
    OBVIOUS
  <2>1. receipt[q].state # "none"
    BY DEF CopyOf
  <2>2. \A coll \in Colls, o \in Objects : Recorded(coll, o) => Recorded(coll, o)'
    BY DEF Recorded
  <2> QED BY <1>3, <2>1, <2>2, StaysCopy
<1>5. TTypeOK'
  BY <1>1 DEF TInv, TTypeOK
<1>6. Numbered'
  <2>1. {q \in Receipts : receipt'[q].state # "none"} = {q \in Receipts : receipt[q].state # "none"}
    BY <1>3
  <2> QED BY <2>1 DEF TInv, Numbered
<1>7. Saved'
  <2>1. CopyOf(r, x)'
    BY <1>4
  <2>2. ASSUME NEW q \in Receipts, q # r, receipt[q].state # "none", NEW y \in Copy, y = receipt[q]
        PROVE  CopyOf(q, y)'
    <3>1. CopyOf(q, y)
      BY <2>2 DEF TInv, Saved
    <3> QED BY <1>4, <3>1
  <2>3. \A q \in Receipts : receipt[q] \in Copy
    BY DEF TInv, TTypeOK
  <2>4. \A q \in Receipts : receipt'[q].state # "none" => CopyOf(q, receipt[q])'
    BY <1>1, <1>3, <2>1, <2>2, <2>3
  <2> QED BY <1>3, <2>4 DEF TInv, Saved
<1>8. Working'
  <2>1. \A q \in Receipts : worker[q].rec \in Copy
    BY DEF TInv, TTypeOK, Thread
  <2> QED BY <1>4, <2>1 DEF TInv, Working, AtStep
<1>9. Asking'
  <2>1. ASSUME NEW d \in Callers, NEW y, y = caller'[d], y.pc # "idle"
        PROVE  CopyOf(y.r, y.rec)' /\ (y.pc = "queue" => y.rec.state = "queued")
    <3>1. y = IF d = c THEN z ELSE caller[d]
      BY <2>1 DEF TInv, TTypeOK
    <3>2. CopyOf(y.r, y.rec) /\ (y.pc = "queue" => y.rec.state = "queued") /\ y.rec \in Copy
      BY <2>1, <3>1 DEF TInv, TTypeOK, Asking
    <3>3. y.r \in Receipts
      BY <3>2 DEF CopyOf
    <3> QED BY <1>4, <3>2, <3>3
  <2> QED BY <2>1 DEF Asking
<1>10. Unsent'
  <2>1. \A q, y : Clean(q, y)' <=> Clean(q, y)
    BY DEF Clean, MayBeSent
  <2>2. ASSUME NEW q \in Receipts \ stale', NEW y, y = receipt'[q], NEW v, v = worker[q]
        PROVE  Clean(q, y) /\ (v.pc # "idle" => Clean(q, v.rec))
    BY <1>1, <2>2 DEF TInv, Unsent
  <2> QED BY <2>1, <2>2 DEF Unsent
<1>11. BlockedOnlyByAJob'
  BY DEF TInv, BlockedOnlyByAJob, AtWork
<1> QED BY <1>5, <1>6, <1>7, <1>8, <1>9, <1>10, <1>11 DEF TInv

\* A retry reads a receipt and resets its failed batches ...
LEMMA RetryReadsKeeps ==
    ASSUME TransferConstants, TInv, NEW c \in Callers, NEW r \in Receipts, RetryReads(c, r)
    PROVE  TInv'
<1>1. PICK x \in Copy : x = receipt[r]
  BY DEF TInv, TTypeOK
<1>2. CopyOf(r, x) /\ x.state # "complete" /\ receipt \in [Receipts -> Copy]
  BY <1>1 DEF RetryReads, TInv, Saved, TTypeOK
<1> DEFINE y == [x EXCEPT !.batches = [i \in DOMAIN x.batches |-> ResetFailed(x.batches[i])]]
           z == [pc |-> "save", r |-> r, rec |-> y]
<1>3. y \in Copy /\ CopyOf(r, y)
  <2>1. /\ y \in Copy /\ y.state = x.state /\ y.conn = x.conn /\ y.case = x.case
        /\ Formed(y) /\ (Vouched(x) => Vouched(y))
    BY <1>2, ResetCopy DEF CopyOf
  <2> HIDE DEF y
  <2> QED BY <1>2, <2>1 DEF CopyOf
<1>4. caller' = [caller EXCEPT ![c] = z]
  BY <1>1 DEF RetryReads
<1> HIDE DEF y
<1>5. z \in [pc : {"idle", "save", "queue"}, r : Nat, rec : Copy] /\ z.pc = "save"
      /\ z.r = r /\ z.rec = y
  BY <1>3 DEF Receipts
<1> HIDE DEF z
<1>6. receipt' = [receipt EXCEPT ![r] = x]
  BY <1>1, <1>2 DEF RetryReads, saved
<1>7. r \notin stale' => Clean(r, x)
  BY <1>1 DEF RetryReads, TInv, Unsent
<1>8. /\ UNCHANGED <<settings, case, mapped, active, worker, works, there, fate, astray>>
      /\ receipt[r].state # "none" /\ stale \subseteq stale' /\ stale' \subseteq Receipts
  BY DEF RetryReads, saved, remote, TInv, TTypeOK
<1>9. PICK v \in [pc : {"idle", "save", "queue"}, r : Nat, rec : Copy] : v = z
  BY <1>5
<1>10. /\ v.pc # "idle" => CopyOf(v.r, v.rec) /\ (v.pc = "queue" => v.rec.state = "queued")
       /\ caller' = [caller EXCEPT ![c] = v]
  BY <1>3, <1>4, <1>5, <1>9
<1> QED BY <1>1, <1>2, <1>6, <1>7, <1>8, <1>10, RequestStep

\* ... saves what it had read ...
LEMMA RetrySavesKeeps ==
    ASSUME TransferConstants, TInv, NEW c \in Callers, RetrySaves(c) PROVE TInv'
<1>1. PICK old \in [pc : {"idle", "save", "queue"}, r : Nat, rec : Copy] : old = caller[c]
  BY DEF TInv, TTypeOK
<1>2. /\ CopyOf(old.r, old.rec) /\ old.rec \in Copy /\ old.pc = "save"
      /\ caller \in [Callers -> [pc : {"idle", "save", "queue"}, r : Nat, rec : Copy]]
  BY <1>1 DEF RetrySaves, TInv, Asking, TTypeOK
<1>3. PICK r \in Receipts : r = old.r
  BY <1>2 DEF CopyOf
<1>4. [old.rec EXCEPT !.state = "queued"] \in Copy
  BY <1>2 DEF Copy, States
<1>5. PICK x \in Copy : x = [old.rec EXCEPT !.state = "queued"]
  BY <1>4
<1>6. x.state = "queued" /\ x.conn = old.rec.conn /\ x.case = old.rec.case
      /\ x.batches = old.rec.batches /\ CopyOf(r, x)
  <2>1. Formed(old.rec) /\ "queued" \in States \ {"complete", "none"}
    BY <1>2 DEF CopyOf, States
  <2>2. /\ x.state = "queued" /\ x.conn = old.rec.conn /\ x.case = old.rec.case
        /\ x.batches = old.rec.batches /\ Formed(x) /\ (Vouched(old.rec) => Vouched(x))
    BY <1>2, <1>5, <2>1, AnotherState
  <2> QED BY <1>2, <1>3, <2>2 DEF CopyOf
<1>7. [old EXCEPT !.pc = "queue", !.rec = x]
         \in [pc : {"idle", "save", "queue"}, r : Nat, rec : Copy]
  OBVIOUS
<1>8. PICK z \in [pc : {"idle", "save", "queue"}, r : Nat, rec : Copy] :
         z = [old EXCEPT !.pc = "queue", !.rec = x]
  BY <1>7
<1>9. z.pc = "queue" /\ z.r = r /\ z.rec = x
  BY <1>3, <1>8
<1>10. caller' = [caller EXCEPT ![c] = z] /\ receipt' = [receipt EXCEPT ![r] = x]
  BY <1>1, <1>2, <1>3, <1>5, <1>8 DEF RetrySaves
<1>11. /\ UNCHANGED <<settings, case, mapped, active, worker, works, there, fate, astray>>
       /\ receipt[r].state # "none" /\ stale \subseteq stale' /\ stale' \subseteq Receipts
  BY <1>1, <1>2, <1>3 DEF RetrySaves, remote, TInv, TTypeOK, CopyOf
<1>12. r \notin stale' => Clean(r, x)
  <2> SUFFICES ASSUME r \notin stale' PROVE Clean(r, x)
    OBVIOUS
  <2>1. PICK y \in Copy : y = receipt[r]
    BY DEF TInv, TTypeOK
  <2>2. x.batches = [i \in DOMAIN y.batches |-> ResetFailed(y.batches[i])] /\ r \notin stale
    BY <1>1, <1>3, <1>5, <2>1 DEF RetrySaves
  <2>3. Clean(r, y)
    BY <2>1, <2>2 DEF TInv, Unsent
  <2> QED BY <2>2, <2>3, ResetClean
<1>13. z.pc # "idle" => CopyOf(z.r, z.rec) /\ (z.pc = "queue" => z.rec.state = "queued")
  BY <1>6, <1>9
<1> QED BY <1>6, <1>10, <1>11, <1>12, <1>13, RequestStep

\* ... and queues a job for it, unless there is one.
LEMMA QueueKeeps ==
    ASSUME TransferConstants, TInv, NEW c \in Callers, Queue(c) PROVE TInv'
<1>1. PICK old \in [pc : {"idle", "save", "queue"}, r : Nat, rec : Copy] : old = caller[c]
  BY DEF TInv, TTypeOK
<1>2. /\ CopyOf(old.r, old.rec) /\ old.rec \in Copy /\ old.pc = "queue" /\ old.rec.state = "queued"
      /\ caller \in [Callers -> [pc : {"idle", "save", "queue"}, r : Nat, rec : Copy]]
  BY <1>1 DEF Queue, TInv, Asking, TTypeOK
<1>3. PICK r \in Receipts, x \in Copy : r = old.r /\ x = old.rec
  BY <1>2 DEF CopyOf
<1>4. UNCHANGED <<settings, case, receipt, mapped, works, there, fate, astray>>
  BY DEF Queue, saved, remote
<1>5. /\ NoCaller \in [pc : {"idle", "save", "queue"}, r : Nat, rec : Copy]
      /\ NoCaller.pc = "idle"
  BY DEF NoCaller, NoReceipt, Copy, States
<1>6. /\ caller' \in [Callers -> [pc : {"idle", "save", "queue"}, r : Nat, rec : Copy]]
      /\ \A d \in Callers : caller'[d].pc # "idle" => caller'[d] = caller[d]
  BY <1>2, <1>5 DEF Queue
<1>7. \A q \in Receipts, y \in Copy : CopyOf(q, y)' <=> CopyOf(q, y)
  BY <1>4 DEF CopyOf, Vouched, Recorded
<1>8. \A q, y : Clean(q, y)' <=> Clean(q, y)
  BY <1>4 DEF Clean, MayBeSent
<1>9. Saved' /\ Numbered'
  <2>1. \A q \in Receipts : receipt[q] \in Copy
    BY DEF TInv, TTypeOK
  <2> QED BY <1>4, <1>7, <2>1 DEF TInv, Saved, Numbered
<1>10. Asking'
  <2>1. \A d \in Callers : caller[d].rec \in Copy
    BY <1>2
  <2>2. \A d \in Callers : caller[d].pc # "idle" => caller[d].r \in Receipts
    BY DEF TInv, Asking, CopyOf
  <2> QED BY <1>6, <1>7, <2>1, <2>2 DEF TInv, Asking
<1>11. CASE UNCHANGED <<active, worker, stale>>
  <2>1. TTypeOK' /\ BlockedOnlyByAJob'
    BY <1>4, <1>6, <1>11 DEF TInv, TTypeOK, BlockedOnlyByAJob, AtWork
  <2>2. Working'
    <3>1. \A q \in Receipts : worker[q].rec \in Copy
      BY DEF TInv, TTypeOK, Thread
    <3> QED BY <1>4, <1>7, <1>11, <3>1 DEF TInv, Working, AtStep
  <2>3. Unsent'
    BY <1>4, <1>8, <1>11 DEF TInv, Unsent
  <2> QED BY <1>9, <1>10, <2>1, <2>2, <2>3 DEF TInv
<1>12. CASE /\ active' = active \cup {r}
            /\ stale' = IF x.batches = receipt[r].batches THEN stale ELSE stale \cup {r}
            /\ worker' = [worker EXCEPT ![r] =
                  [NoWorker EXCEPT !.pc = "queued", !.conn = settings, !.rec = x]]
  <2> DEFINE new == [NoWorker EXCEPT !.pc = "queued", !.conn = settings, !.rec = x]
  <2>1. PICK w \in Thread : /\ w = new /\ w.pc = "queued" /\ w.conn = settings
                            /\ w.rec = x /\ w.i = 1
    <3>1. PICK conn \in Conns : conn = settings
      BY DEF TInv, TTypeOK
    <3>2. NoWorker \in Thread /\ NoWorker.i = 1
      BY DEF NoWorker, NoReceipt, Thread, Steps, Copy, States
    <3>3. PICK v \in Thread : v = NoWorker /\ v.i = 1
      BY <3>2
    <3> DEFINE z == [v EXCEPT !.pc = "queued", !.conn = conn, !.rec = x]
    <3>4. z \in Thread /\ z.pc = "queued" /\ z.conn = conn /\ z.rec = x /\ z.i = 1
      BY <3>3 DEF Thread, Steps
    <3> QED BY <3>1, <3>3, <3>4
  <2>2. /\ worker' \in [Receipts -> Thread] /\ worker'[r] = w
        /\ \A q \in Receipts : q # r => worker'[q] = worker[q]
    BY <1>12, <2>1 DEF TInv, TTypeOK
  <2>3. TTypeOK' /\ BlockedOnlyByAJob'
    BY <1>4, <1>6, <1>12, <2>1, <2>2 DEF TInv, TTypeOK, BlockedOnlyByAJob, AtWork
  <2>4. Working'
    <3> SUFFICES ASSUME NEW q \in Receipts, NEW z \in Thread, z = worker'[q], z.pc # "idle"
                 PROVE  CopyOf(q, z.rec)' /\ AtStep(q, z)'
      BY <2>2 DEF Working
    <3>1. CASE q = r
      <4>1. z = w
        BY <2>2, <3>1
      <4>2. w.conn \in Conns /\ Len(x.batches) \in Nat
        BY <2>1, BatchFacts DEF TInv, TTypeOK
      <4>3. AtStep(r, w)'
        BY <1>2, <1>3, <2>1, <4>2 DEF AtStep
      <4> QED BY <1>2, <1>3, <1>7, <2>1, <3>1, <4>1, <4>3
    <3>2. CASE q # r
      <4>1. z = worker[q]
        BY <2>2, <3>2
      <4>2. CopyOf(q, z.rec) /\ AtStep(q, z) /\ z.rec \in Copy
        BY <4>1 DEF TInv, Working, Thread
      <4> QED BY <1>4, <1>7, <4>2 DEF AtStep
    <3> QED BY <3>1, <3>2
  <2>5. Unsent'
    <3> SUFFICES ASSUME NEW q \in Receipts, q \notin stale', NEW z \in Thread, z = worker'[q],
                        NEW y \in Copy, y = receipt'[q]
                 PROVE  Clean(q, y) /\ (z.pc # "idle" => Clean(q, z.rec))
      BY <1>4, <1>8, <2>2 DEF Unsent, TInv, TTypeOK
    <3>1. q \notin stale /\ Clean(q, y) /\ y = receipt[q]
      BY <1>4, <1>12 DEF TInv, Unsent
    <3>2. CASE q = r
      <4>1. z.rec = x /\ x.batches = y.batches
        BY <1>12, <2>1, <2>2, <3>1, <3>2
      <4> QED BY <3>1, <4>1 DEF Clean
    <3>3. CASE q # r
      BY <2>2, <3>1, <3>3 DEF TInv, Unsent
    <3> QED BY <3>2, <3>3
  <2> QED BY <1>9, <1>10, <2>3, <2>4, <2>5 DEF TInv
<1> QED BY <1>1, <1>3, <1>11, <1>12 DEF Queue

\* A transfer writes the receipt that comes next.
LEMMA TransferKeeps ==
    ASSUME TransferConstants, TInv, NEW c \in Callers, Transfer(c) PROVE TInv'
<1>1. PICK n \in 0..MaxReceipts : {q \in Receipts : receipt[q].state # "none"} = 1..n
  BY DEF TInv, Numbered
<1>2. Used = n
  <2>1. n \in Int /\ 1 \in Int /\ n >= 0
    BY DEF TransferConstants
  <2>2. Cardinality(1..n) = n
    BY <2>1, FS_Interval
  <2> QED BY <1>1, <2>2 DEF Used
<1>3. PICK r \in Receipts : r = n + 1
  BY <1>2 DEF Transfer, Receipts, TransferConstants
<1>4. /\ receipt[r].state = "none"
      /\ \A q \in Receipts : receipt[q].state # "none" <=> q \in 1..n
  BY <1>1, <1>3 DEF TransferConstants
<1> DEFINE new == [NoReceipt EXCEPT !.state = "queued", !.conn = preview.conn,
                                    !.case = preview.case, !.batches = Split(Objects)]
<1>5. preview.conn = settings /\ preview.case = case /\ settings \in Conns /\ case \in Contents
  BY DEF Transfer, StillPreviewed, TInv, TTypeOK
<1>6. PICK x \in Copy : /\ x = new /\ x.state = "queued" /\ x.conn = settings /\ x.case = case
                        /\ ~x.looked /\ x.batches = Split(Objects)
  <2>1. PICK conn \in Conns, content \in Contents : conn = settings /\ content = case
    BY <1>5
  <2> DEFINE y == [NoReceipt EXCEPT !.state = "queued", !.conn = conn, !.case = content,
                                    !.batches = Split(Objects)]
  <2>2. Split(Objects) \in Seq(ABatch)
    BY SplitBatches
  <2>3. /\ y \in Copy /\ y.state = "queued" /\ y.conn = conn /\ y.case = content
        /\ ~y.looked /\ y.batches = Split(Objects)
    BY <2>2 DEF NoReceipt, Copy, States
  <2> QED BY <1>5, <2>1, <2>3
<1>7. Formed(x) /\ Vouched(x) /\ \A q : (\A o \in Objects : MayBeSent(q, o)) => Clean(q, x)
  BY <1>5, <1>6, SplitCopy
<1>8. /\ receipt' = [receipt EXCEPT ![r] = x]
      /\ caller' = [caller EXCEPT ![c] = [pc |-> "queue", r |-> r, rec |-> x]]
      /\ UNCHANGED <<settings, case, mapped, active, worker, works, there, fate, stale, astray>>
  BY <1>2, <1>3, <1>6 DEF Transfer, remote
<1>9. /\ receipt' \in [Receipts -> Copy] /\ receipt'[r] = x
      /\ \A q \in Receipts : q # r => receipt'[q] = receipt[q]
  BY <1>8 DEF TInv, TTypeOK
<1> DEFINE asked == [pc |-> "queue", r |-> r, rec |-> x]
<1>10. asked \in [pc : {"idle", "save", "queue"}, r : Nat, rec : Copy]
  BY DEF Receipts
<1>11. PICK z \in [pc : {"idle", "save", "queue"}, r : Nat, rec : Copy] :
          z = asked /\ z.pc = "queue" /\ z.r = r /\ z.rec = x
  BY <1>10
<1>12. /\ caller' \in [Callers -> [pc : {"idle", "save", "queue"}, r : Nat, rec : Copy]]
       /\ caller'[c] = z /\ \A d \in Callers : d # c => caller'[d] = caller[d]
  BY <1>8, <1>11 DEF TInv, TTypeOK
<1>13. \A q \in Receipts, y \in Copy : CopyOf(q, y) => q # r /\ CopyOf(q, y)'
  <2> SUFFICES ASSUME NEW q \in Receipts, NEW y \in Copy, CopyOf(q, y)
               PROVE  q # r /\ CopyOf(q, y)'
    OBVIOUS
  <2>1. receipt[q].state # "none" /\ q # r
    BY <1>4 DEF CopyOf
  <2>2. receipt'[q] = receipt[q]
    BY <1>9, <2>1
  <2> QED BY <1>8, <2>1, <2>2 DEF CopyOf, Vouched, Recorded
<1>14. CopyOf(r, x)'
  BY <1>6, <1>7, <1>8, <1>9 DEF CopyOf, Formed, Vouched, Recorded
<1>15. TTypeOK'
  BY <1>8, <1>9, <1>12 DEF TInv, TTypeOK
<1>16. Numbered'
  <2>1. \A q \in Receipts : receipt'[q].state # "none" <=> q \in 1..r
    <3>1. \A q \in Receipts : receipt'[q].state # "none" <=> q \in 1..n \/ q = r
      BY <1>4, <1>6, <1>9
    <3>2. \A q \in Receipts : q \in 1..r <=> q \in 1..n \/ q = r
      BY <1>3 DEF TransferConstants, Receipts
    <3> QED BY <3>1, <3>2
  <2>2. 1..r \subseteq Receipts /\ r \in 0..MaxReceipts
    BY <1>3 DEF Receipts, TransferConstants
  <2>3. {q \in Receipts : receipt'[q].state # "none"} = 1..r
    BY <2>1, <2>2
  <2> QED BY <2>2, <2>3 DEF Numbered
<1>17. Saved'
  <2>1. ASSUME NEW q \in Receipts, q # r, receipt[q].state # "none", NEW y \in Copy, y = receipt[q]
        PROVE  CopyOf(q, y)'
    <3>1. CopyOf(q, y)
      BY <2>1 DEF TInv, Saved
    <3> QED BY <1>13, <3>1
  <2>2. \A q \in Receipts : receipt[q] \in Copy
    BY DEF TInv, TTypeOK
  <2>3. \A q \in Receipts : receipt'[q].state # "none" => CopyOf(q, receipt[q])'
    BY <1>9, <1>14, <2>1, <2>2
  <2>4. \A q \in Receipts : receipt'[q].state = "none" => \A o \in Objects : fate'[q][o] = "new"
    BY <1>6, <1>8, <1>9 DEF TInv, Saved
  <2> QED BY <2>3, <2>4 DEF Saved
<1>18. Working'
  <2>1. \A q \in Receipts : worker[q].rec \in Copy
    BY DEF TInv, TTypeOK, Thread
  <2> QED BY <1>8, <1>13, <2>1, ZenonT(30) DEF TInv, Working, AtStep
<1>19. Asking'
  <2>1. ASSUME NEW d \in Callers, NEW y, y = caller'[d], y.pc # "idle"
        PROVE  CopyOf(y.r, y.rec)' /\ (y.pc = "queue" => y.rec.state = "queued")
    <3>1. CASE d = c
      BY <1>6, <1>11, <1>12, <1>14, <2>1, <3>1
    <3>2. CASE d # c
      <4>1. CopyOf(y.r, y.rec) /\ (y.pc = "queue" => y.rec.state = "queued") /\ y.rec \in Copy
        BY <1>12, <2>1, <3>2 DEF TInv, TTypeOK, Asking
      <4>2. y.r \in Receipts
        BY <4>1 DEF CopyOf
      <4> QED BY <1>13, <4>1, <4>2
    <3> QED BY <3>1, <3>2
  <2> QED BY <2>1 DEF Asking
<1>20. Unsent'
  <2>1. \A q, y : Clean(q, y)' <=> Clean(q, y)
    BY <1>8 DEF Clean, MayBeSent
  <2>2. Clean(r, x)
    BY <1>4, <1>7 DEF TInv, Saved, MayBeSent
  <2>3. worker'[r].pc = "idle"
    BY <1>4, <1>8 DEF TInv, Working, CopyOf
  <2>4. ASSUME NEW q \in Receipts \ stale, NEW y, y = receipt'[q], NEW v, v = worker[q]
        PROVE  Clean(q, y) /\ (v.pc # "idle" => Clean(q, v.rec))
    BY <1>8, <1>9, <2>2, <2>3, <2>4 DEF TInv, Unsent
  <2> QED BY <1>8, <2>1, <2>4 DEF Unsent
<1>21. BlockedOnlyByAJob'
  BY <1>8 DEF TInv, BlockedOnlyByAJob, AtWork
<1> QED BY <1>15, <1>16, <1>17, <1>18, <1>19, <1>20, <1>21 DEF TInv

-----------------------------------------------------------------------------
(* Every step keeps the invariant.                                         *)

\* At the start nothing was sent.
LEMMA InitHolds == ASSUME TransferConstants, Init PROVE TInv
<1>1. NoReceipt \in Copy /\ NoReceipt.state = "none"
  BY DEF NoReceipt, Copy, States
<1>2. /\ NoWorker \in Thread /\ NoWorker.pc = "idle" /\ NoCaller.pc = "idle"
      /\ NoCaller \in [pc : {"idle", "save", "queue"}, r : Nat, rec : Copy]
  BY <1>1 DEF NoWorker, NoCaller, Thread, Steps
<1>3. TTypeOK
  <2>1. there \in [Colls -> SUBSET Objects]
    BY DEF Init, TransferConstants
  <2>2. fate \in [Receipts -> [Objects -> Fates]]
    BY DEF Init, Fates
  <2> QED BY <1>1, <1>2, <2>1, <2>2 DEF Init, TTypeOK, Contents
<1>4. Numbered
  <2>1. {r \in Receipts : receipt[r].state # "none"} = {}
    BY <1>1 DEF Init
  <2>2. 1..0 = {} /\ 0 \in 0..MaxReceipts
    BY DEF TransferConstants
  <2> QED BY <2>1, <2>2 DEF Numbered
<1>5. Saved
  BY <1>1 DEF Init, Saved
<1>6. Working /\ Asking /\ BlockedOnlyByAJob
  BY <1>2 DEF Init, Working, Asking, BlockedOnlyByAJob, AtWork
<1>7. Unsent
  <2>1. DOMAIN NoReceipt.batches = {}
    BY DEF NoReceipt
  <2> QED BY <1>2, <2>1 DEF Init, Unsent, Clean
<1> QED BY <1>3, <1>4, <1>5, <1>6, <1>7 DEF TInv

\* The platform imports, and objects become visible.
LEMMA ImportKeeps ==
    ASSUME TransferConstants, TInv, NEW w \in DOMAIN works,
           Import(w) \/ \E o \in Objects : Appear(w, o)
    PROVE  TInv'
<1>1. PICK old \in Submitted : old = works[w]
  BY DEF TInv, TTypeOK
<1>2. /\ UNCHANGED <<receipt, mapped, active, worker, caller, fate, stale, astray, settings, case>>
      /\ works \in Seq(Submitted) /\ there \in [Colls -> SUBSET Objects]
      /\ settings \in Conns /\ case \in Contents
  BY DEF Import, Appear, saved, local, TInv, TTypeOK
<1>3. CASE Import(w)
  <2>1. PICK failed \in SUBSET works[w].ids :
           /\ \E named \in SUBSET failed :
                 works' = [works EXCEPT ![w].done = TRUE, ![w].failed = failed,
                                        ![w].named = named]
           /\ \E hidden \in SUBSET (works[w].ids \ failed) :
                 there' = [there EXCEPT
                    ![works[w].coll] = @ \cup ((works[w].ids \ failed) \ hidden)]
    BY <1>3 DEF Import
  <2>2. PICK named \in SUBSET failed :
           works' = [works EXCEPT ![w].done = TRUE, ![w].failed = failed, ![w].named = named]
    BY <2>1
  <2>3. PICK hidden \in SUBSET (old.ids \ failed) :
           there' = [there EXCEPT ![old.coll] = @ \cup ((old.ids \ failed) \ hidden)]
    BY <1>1, <2>1
  <2>4. old.ids \in SUBSET Objects /\ old.coll \in Colls /\ failed \subseteq old.ids
    BY <1>1 DEF Submitted
  <2>5. [old EXCEPT !.done = TRUE, !.failed = failed, !.named = named] \in Submitted
    BY <2>4 DEF Submitted
  <2>6. works' \in Seq(Submitted)
    <3>1. PICK new \in Submitted :
             new = [old EXCEPT !.done = TRUE, !.failed = failed, !.named = named]
      BY <2>5
    <3>2. works' = [works EXCEPT ![w] = new]
      BY <1>1, <1>2, <2>2, <3>1
    <3> QED BY <1>2, <3>2
  <2>7. /\ there' \in [Colls -> SUBSET Objects]
        /\ \A coll \in Colls : there[coll] \subseteq there'[coll]
    BY <1>2, <2>3, <2>4
  <2> QED BY <1>2, <2>6, <2>7, OutsideStep
<1>4. CASE \E o \in Objects : Appear(w, o)
  <2>1. PICK o \in Objects : there' = [there EXCEPT ![old.coll] = @ \cup {o}] /\ works' = works
    BY <1>1, <1>4 DEF Appear
  <2>2. old.coll \in Colls
    BY DEF Submitted
  <2>3. /\ there' \in [Colls -> SUBSET Objects]
        /\ \A coll \in Colls : there[coll] \subseteq there'[coll]
    BY <1>2, <2>1, <2>2
  <2> QED BY <1>2, <2>1, <2>3, OutsideStep
<1> QED BY <1>3, <1>4

\* Every step keeps the invariant.
LEMMA StepKeeps == ASSUME TransferConstants, TInv, [Next]_vars PROVE TInv'
<1>1. CASE Preview \/ PreviewExpires \/ Edit \/ Configure
  <2>1. /\ UNCHANGED <<receipt, mapped, active, worker, caller, fate, stale, astray, works, there>>
        /\ settings' \in Conns /\ case' \in Contents
    BY <1>1 DEF Preview, PreviewExpires, Edit, Configure, local, remote, TInv, TTypeOK, Contents
  <2>2. works' \in Seq(Submitted) /\ there' \in [Colls -> SUBSET Objects]
        /\ \A coll \in Colls : there[coll] \subseteq there'[coll]
    BY <2>1 DEF TInv, TTypeOK
  <2> QED BY <2>1, <2>2, OutsideStep
<1>2. CASE Crash
  BY <1>2, CrashKeeps
<1>3. ASSUME NEW c \in Callers, Request(c) PROVE TInv'
  <2>1. CASE Transfer(c)
    BY <2>1, TransferKeeps
  <2>2. CASE RetrySaves(c)
    BY <2>2, RetrySavesKeeps
  <2>3. CASE Queue(c)
    BY <2>3, QueueKeeps
  <2>4. CASE \E r \in Receipts : RetryReads(c, r)
    BY <2>4, RetryReadsKeeps
  <2> QED BY <1>3, <2>1, <2>2, <2>3, <2>4 DEF Request
<1>4. ASSUME NEW r \in Receipts, Work(r) PROVE TInv'
  <2>1. CASE Pick(r)
    BY <2>1, PickKeeps
  <2>2. CASE Begin(r)
    BY <2>2, BeginKeeps
  <2>3. CASE Lookup(r)
    BY <2>3, LookupKeeps
  <2>4. CASE NextBatch(r)
    BY <2>4, NextBatchKeeps
  <2>5. CASE Push(r)
    BY <2>5, PushKeeps
  <2>6. CASE KeepWork(r)
    BY <2>6, KeepWorkKeeps
  <2>7. CASE Wait(r)
    BY <2>7, WaitKeeps
  <2>8. CASE Verify(r)
    BY <2>8, VerifyKeeps
  <2>9. CASE Finish(r)
    BY <2>9, FinishKeeps
  <2>10. CASE Release(r)
    BY <2>10, ReleaseKeeps
  <2> QED BY <1>4, <2>1, <2>2, <2>3, <2>4, <2>5, <2>6, <2>7, <2>8, <2>9, <2>10 DEF Work
<1>5. CASE UNCHANGED vars
  <2>1. /\ settings' \in Conns /\ case' \in Contents /\ works' \in Seq(Submitted)
        /\ there' \in [Colls -> SUBSET Objects]
        /\ \A coll \in Colls : there[coll] \subseteq there'[coll]
    BY <1>5 DEF vars, TInv, TTypeOK
  <2> QED BY <1>5, <2>1, OutsideStep DEF vars
<1> QED BY <1>1, <1>2, <1>3, <1>4, <1>5, CancelKeeps, ImportKeeps DEF Next

-----------------------------------------------------------------------------
(* What follows.                                                           *)

\* The invariant of the transfers: every copy of a receipt is well formed, vouches
\* for what was seen at its collection and may send only what was not acknowledged.
THEOREM TInvariant == ASSUME TransferConstants PROVE Spec => []TInv
<1>1. Init => TInv
  BY InitHolds
<1>2. TInv /\ [Next]_vars => TInv'
  BY StepKeeps
<1> QED BY <1>1, <1>2, PTL DEF Spec

\* A receipt that refuses another job has one that will release it, unless the
\* start of its job could not be written (_ACTIVE in run of _queue_export).
THEOREM BlockedReceipts == ASSUME TransferConstants PROVE Spec => []BlockedOnlyByAJob
<1>1. TInv => BlockedOnlyByAJob
  BY DEF TInv
<1> QED BY <1>1, TInvariant, PTL

\* The order of the naturals as a relation.
LEMMA LessThan == \A x, y \in Nat : y < x => <<y, x>> \in OpToRel(<, Nat)
BY Zenon DEF OpToRel

\* The largest of some numbers is one of them.
LEMMA MaxOfSet ==
    ASSUME NEW n \in Nat, NEW T \in SUBSET (0..n), T # {}
    PROVE  Max(T) \in T
<1> DEFINE U == {n - y : y \in T}
<1>1. PICK t : t \in T
  OBVIOUS
<1>2. U \subseteq Nat /\ n - t \in U
  BY <1>1
<1>3. PICK x \in U : \A y \in U : ~(<<y, x>> \in OpToRel(<, Nat))
  <2> HIDE DEF U
  <2> QED BY <1>2, WFMin, NatLessThanWellFounded
<1>4. x \in Nat /\ \A y \in U : y \in Nat /\ ~(y < x)
  <2> HIDE DEF U
  <2> QED BY <1>2, <1>3, LessThan, Zenon
<1>5. PICK m \in T : n - m = x
  BY <1>3
<1>6. \A y \in T : m >= y
  BY <1>4, <1>5
<1> QED BY <1>5, <1>6 DEF Max

\* A receipt that says complete holds for what can be seen: every object of its
\* export is visible at its collection and recorded, and what the interface lists as
\* exported is visible where the case would be sent now (run of _queue_export).
THEOREM Completion == ASSUME TransferConstants PROVE Spec => []CompleteIsVisible
<1>1. TransferConstants /\ TInv => CompleteIsVisible
  <2> SUFFICES ASSUME TransferConstants, TInv PROVE CompleteIsVisible
    OBVIOUS
  <2>1. ASSUME NEW r \in Receipts \ astray, receipt[r].state = "complete" PROVE Verified(r)
    <3>1. PICK x \in Copy : x = receipt[r]
      BY DEF TInv, TTypeOK
    <3>2. x.looked /\ AllComplete(x) /\ Formed(x) /\ Vouched(x)
      BY <2>1, <3>1 DEF TInv, Saved, CopyOf, Formed
    <3>3. ASSUME NEW o \in Objects PROVE Recorded(Collection[x.conn], o)
      <4>1. CASE o \in x.reused
        BY <3>2, <4>1 DEF Vouched
      <4>2. CASE \E i \in DOMAIN x.batches : o \in ToVerify(x.batches[i])
        BY <3>2, <4>2 DEF Vouched, AllComplete
      <4> QED BY <3>2, <4>1, <4>2 DEF Formed
    <3> QED BY <3>1, <3>3 DEF Verified, Recorded, CollOf
  <2>2. ASSUME SyncStatus = "exported", LastReceipt \notin astray
        PROVE  there[Collection[settings]] = Objects
    <3>1. SameCollection # {} /\ receipt[LastReceipt].state = "complete"
      BY <2>2 DEF SyncStatus
    <3>2. LastReceipt \in SameCollection
      <4>1. MaxReceipts \in Nat /\ SameCollection \in SUBSET (0..MaxReceipts)
        BY DEF TransferConstants, SameCollection, Receipts
      <4> QED BY <3>1, <4>1, MaxOfSet DEF LastReceipt
    <3>3. LastReceipt \in Receipts /\ CollOf(LastReceipt) = Collection[settings]
      BY <3>2 DEF SameCollection
    <3>4. Verified(LastReceipt)
      BY <2>1, <2>2, <3>1, <3>3
    <3>5. there[Collection[settings]] \in SUBSET Objects
      BY DEF TInv, TTypeOK, Colls
    <3> QED BY <3>3, <3>4, <3>5 DEF Verified
  <2> QED BY <2>1, <2>2 DEF CompleteIsVisible
<1> QED BY <1>1, TInvariant, PTL

\* A job sends an object again only when its last submission was not acknowledged or
\* failed (the loop over batches and retry's reset).
THEOREM Resubmission == ASSUME TransferConstants PROVE Spec => SendsAgainOnlyWhatFailed
<1>1. TInv => OnlyFailedAreSent
  <2> SUFFICES ASSUME TInv, NEW r \in Receipts, Pushed(r), r \notin stale, NEW o \in Batch(r).ids
               PROVE  fate[r][o] \in {"new", "sent", "failed"}
    BY DEF OnlyFailedAreSent
  <2>1. worker[r].pc = "push"
    BY DEF Pushed
  <2>2. PICK x \in Copy : x = worker[r].rec
    BY <2>1, JobFacts
  <2>3. PICK i \in 1..Len(x.batches) : Batch(r) = x.batches[i]
    BY <2>1, <2>2, AtBatch DEF Batch
  <2>4. o \in Sendable(x.batches[i])
    BY <2>1, <2>3, AtBatch DEF Sendable
  <2>5. Clean(r, x) /\ DOMAIN x.batches = 1..Len(x.batches)
    BY <2>1, <2>2, JobFacts, BatchFacts
  <2> QED BY <2>4, <2>5 DEF Clean, MayBeSent
<1>2. TInv /\ [Next]_vars => [OnlyFailedAreSent]_vars
  BY <1>1
<1> QED BY <1>1, TInvariant, PTL DEF Spec, SendsAgainOnlyWhatFailed
=============================================================================
