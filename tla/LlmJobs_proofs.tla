--------------------------- MODULE LlmJobs_proofs ---------------------------
(***************************************************************************)
(* Proofs about LlmJobs: the journal of calls and the counters of a review *)
(* tell the truth, and late work is refused.                               *)
(***************************************************************************)
EXTENDS LlmJobs, FiniteSetTheorems, TLAPS

(***************************************************************************)
(* Sums over batches                                                       *)
(***************************************************************************)

LEMMA SumToUnfolds ==
  ASSUME NEW count \in [BatchIds -> Nat], MaxBatches \in Nat
  PROVE  /\ SumTo(count, 0) = 0
         /\ \A k \in 0 .. MaxBatches : SumTo(count, k) \in Nat
         /\ \A k \in BatchIds : SumTo(count, k) = SumTo(count, k - 1) + count[k]
BY SumUnfolds DEF BatchIds

\* Counting d more in one batch adds d to every sum that reaches it.
LEMMA SumToGrows ==
  ASSUME NEW f \in [BatchIds -> Nat], NEW g \in [BatchIds -> Nat],
         MaxBatches \in Nat, NEW b \in BatchIds, NEW d \in Nat,
         g[b] = f[b] + d, \A k \in BatchIds : k # b => g[k] = f[k]
  PROVE  \A k \in 0 .. MaxBatches :
           SumTo(g, k) = SumTo(f, k) + (IF k >= b THEN d ELSE 0)
<1>1. /\ f \in [1 .. MaxBatches -> Nat] /\ g \in [1 .. MaxBatches -> Nat]
      /\ b \in 1 .. MaxBatches
  BY DEF BatchIds
<1>2. MoreAt(f, g, MaxBatches, b, d)
  BY DEF BatchIds, MoreAt
<1> QED BY SMTT(30), <1>1, <1>2, SumGrows

\* Nothing reviewed sums up to nothing.
LEMMA NothingToSum ==
  ASSUME NEW f \in [BatchIds -> Nat], MaxBatches \in Nat, \A k \in BatchIds : f[k] = 0
  PROVE  SumTo(f, MaxBatches) = 0
BY SumOfZeros DEF BatchIds

(***************************************************************************)
(* The strengthened invariant, of the columns of one job                   *)
(***************************************************************************)

CallsIn(cs, b) == {n \in CallIds : cs[n].status # "absent" /\ cs[n].batch = b}

PublishedIn(cs, b) ==
  {n \in CallsIn(cs, b) : cs[n].status = "completed" /\ ~cs[n].tools}

\* The first n calls are in the journal, all but the last one are completed, and
\* those of earlier batches are too.
InOrder(b, n, cs) ==
  /\ \A m \in CallIds : cs[m].status # "absent" <=> m <= n
  /\ \A m \in CallIds : cs[m].status \notin {"absent", "completed"} => m = n
  /\ \A m \in CallIds : m <= n => cs[m].batch \in 1 .. b
  /\ \A m \in CallIds : m <= n /\ cs[m].batch < b => cs[m].status = "completed"

\* One answer of each earlier batch was published, and none of the current one.
OnePerBatch(b, cs) ==
  /\ \A k \in BatchIds : k < b => \E m \in CallIds : PublishedIn(cs, k) = {m}
  /\ \A k \in BatchIds : k >= b => PublishedIn(cs, k) = {}

TurnsOf(plan) == IF plan.sources THEN Rounds ELSE 1

WithinTurns(plan, cs) ==
  \A k \in BatchIds : Cardinality(CallsIn(cs, k)) <= TurnsOf(plan)

\* The reviews of the batches before b, and the counters that sum them up.
Counted(size, b, done, wrong, rv) ==
  /\ \A k \in BatchIds : rv[k] <= size[k]
  /\ \A k \in BatchIds : k >= b => rv[k] = 0
  /\ wrong = 0 => \A k \in BatchIds : k < b => rv[k] = size[k]
  /\ done = SumTo(rv, MaxBatches)
  /\ done + wrong = SumTo(size, b - 1)

\* What the status says of the other columns.
Settled(plan, st, key, b, wrong, cs) ==
  /\ key <=> st \in Active
  /\ st \in Active => b <= plan.last
  /\ st \in Terminal => \A n \in CallIds : cs[n].status # "dispatched"
  /\ st = "completed" => wrong = 0 /\ plan.last < b

\* A row that was not made yet.
Blank(st, b, n, done, wrong, rv) ==
  st = "absent" =>
    /\ b = 1 /\ n = 0 /\ done = 0 /\ wrong = 0
    /\ \A k \in BatchIds : rv[k] = 0

JobInvariant(plan, st, key, b, n, done, wrong, cs, rv) ==
  /\ InOrder(b, n, cs) /\ OnePerBatch(b, cs) /\ WithinTurns(plan, cs)
  /\ Counted(plan.size, b, done, wrong, rv)
  /\ Settled(plan, st, key, b, wrong, cs)
  /\ Blank(st, b, n, done, wrong, rv)

\* A worker that sent a call, or is about to settle it, holds its number.
CallsInHand ==
  \A w \in Workers : worker[w].phase \in {"waiting", "answered", "discarding"} =>
    worker[w].call \in CallIds

JobHolds(j) ==
  JobInvariant(PlanOf(j), status[j], activeKey[j], batch[j], started[j],
               reviewed[j], errors[j], calls[j], reviews[j])

\* The inductive invariant.
Inductive == TypeOK /\ CallsInHand /\ \A j \in JobIds : JobHolds(j)

(***************************************************************************)
(* What recording, settling and publishing a call does to the journal      *)
(***************************************************************************)

JournalHolds(plan, b, n, cs) ==
  InOrder(b, n, cs) /\ OnePerBatch(b, cs) /\ WithinTurns(plan, cs)

LEMMA Bounds ==
  /\ MaxBatches \in Nat \ {0} /\ MaxCalls \in Nat \ {0} /\ Rounds \in Nat \ {0}
  /\ MaxBatchSize \in Nat \ {0} /\ MaxAttempts \in Nat \ {0}
  /\ LeaseTicks \in Nat \ {0}
  /\ \A plan \in Plans : /\ plan.last \in BatchIds /\ plan.sources \in BOOLEAN
                          /\ plan.size \in [BatchIds -> 0 .. MaxBatchSize]
                          /\ plan.size \in [BatchIds -> Nat]
BY LlmJobsAssumption DEF Plan

\* The receipt of an unused call, whatever it says, leaves the journal in order.
LEMMA JournalRelabelled ==
  ASSUME NEW plan, NEW b, NEW n, NEW cs, NEW cs2,
         JournalHolds(plan, b, n, cs),
         \A m \in CallIds : /\ cs2[m].batch = cs[m].batch /\ cs2[m].tools = cs[m].tools
                            /\ cs2[m].status = "absent" <=> cs[m].status = "absent"
                            /\ cs2[m].status = "completed" <=> cs[m].status = "completed"
  PROVE  JournalHolds(plan, b, n, cs2)
<1>1. \A k : CallsIn(cs2, k) = CallsIn(cs, k)
  BY DEF CallsIn
<1>2. \A k : PublishedIn(cs2, k) = PublishedIn(cs, k)
  BY <1>1 DEF PublishedIn, CallsIn
<1>3. InOrder(b, n, cs2)
  BY DEF JournalHolds, InOrder
<1>4. OnePerBatch(b, cs2)
  BY <1>2 DEF JournalHolds, OnePerBatch
<1>5. WithinTurns(plan, cs2)
  BY <1>1 DEF JournalHolds, WithinTurns
<1> QED BY <1>3, <1>4, <1>5 DEF JournalHolds

\* A call recorded in a resumable batch.
LEMMA JournalStarts ==
  ASSUME NEW plan \in Plans, NEW b \in BatchIds, NEW n \in 0 .. MaxCalls,
         NEW cs \in [CallIds -> Call], NEW cs2 \in [CallIds -> Call],
         JournalHolds(plan, b, n, cs), n < MaxCalls,
         \A m \in CallsIn(cs, b) : ToolTurn(cs[m]),
         IF plan.sources THEN Cardinality(CallsIn(cs, b)) < Rounds
                         ELSE CallsIn(cs, b) = {},
         cs2[n + 1].status = "dispatched", cs2[n + 1].batch = b,
         \A m \in CallIds : m # n + 1 => cs2[m] = cs[m]
  PROVE  JournalHolds(plan, b, n + 1, cs2)
<1>1. n + 1 \in CallIds /\ cs[n + 1].status = "absent"
  BY Bounds DEF JournalHolds, InOrder, CallIds
<1>2. \A m \in CallIds : m <= n => cs[m].status = "completed"
  <2> SUFFICES ASSUME NEW m \in CallIds, m <= n PROVE cs[m].status = "completed"
    OBVIOUS
  <2>1. cs[m].batch \in 1 .. b /\ cs[m].status # "absent"
    BY DEF JournalHolds, InOrder
  <2>2. CASE cs[m].batch = b
    BY <2>1, <2>2 DEF CallsIn, ToolTurn
  <2>3. CASE cs[m].batch # b
    BY <2>1, <2>3 DEF JournalHolds, InOrder, BatchIds
  <2> QED BY <2>2, <2>3
<1>3. InOrder(b, n + 1, cs2)
  <2>1. \A m \in CallIds : cs2[m].status # "absent" <=> m <= n + 1
    BY <1>1 DEF JournalHolds, InOrder, CallIds
  <2>2. \A m \in CallIds : cs2[m].status \notin {"absent", "completed"} => m = n + 1
    BY <1>1, <1>2 DEF JournalHolds, InOrder, CallIds
  <2>3. \A m \in CallIds : m <= n + 1 => cs2[m].batch \in 1 .. b
    BY <1>1 DEF JournalHolds, InOrder, CallIds, BatchIds
  <2>4. \A m \in CallIds : m <= n + 1 /\ cs2[m].batch < b => cs2[m].status = "completed"
    BY <1>1, <1>2 DEF CallIds, BatchIds
  <2> QED BY <2>1, <2>2, <2>3, <2>4 DEF InOrder
<1>4. \A k \in BatchIds : PublishedIn(cs2, k) = PublishedIn(cs, k)
  BY <1>1 DEF PublishedIn, CallsIn
<1>5. OnePerBatch(b, cs2)
  BY <1>4 DEF JournalHolds, OnePerBatch
<1>6. WithinTurns(plan, cs2)
  <2> SUFFICES ASSUME NEW k \in BatchIds
               PROVE  Cardinality(CallsIn(cs2, k)) <= TurnsOf(plan)
    BY DEF WithinTurns
  <2>1. CASE k # b
    <3>1. CallsIn(cs2, k) = CallsIn(cs, k)
      BY <1>1, <2>1 DEF CallsIn
    <3> QED BY <3>1 DEF JournalHolds, WithinTurns
  <2>2. CASE k = b
    <3>1. CallsIn(cs2, b) = CallsIn(cs, b) \cup {n + 1}
      BY <1>1 DEF CallsIn
    <3>2. IsFiniteSet(CallIds)
      BY Bounds, FS_Interval DEF CallIds
    <3>3. IsFiniteSet(CallsIn(cs, b))
      BY <3>2, FS_Subset DEF CallsIn
    <3>4. Cardinality(CallsIn(cs, b)) \in Nat
      BY <3>3, FS_CardinalityType
    <3>5. Cardinality(CallsIn(cs2, b)) <= Cardinality(CallsIn(cs, b)) + 1
      <4>1. Cardinality(CallsIn(cs, b) \cup {n + 1}) =
              IF n + 1 \in CallsIn(cs, b) THEN Cardinality(CallsIn(cs, b))
                                          ELSE Cardinality(CallsIn(cs, b)) + 1
        BY <3>3, FS_AddElement
      <4> QED BY <3>1, <3>4, <4>1
    <3>6. CallsIn(cs, b) = {} => Cardinality(CallsIn(cs, b)) = 0
      BY FS_EmptySet
    <3>7. Cardinality(CallsIn(cs2, b)) \in Nat
      BY <3>1, <3>3, FS_AddElement, FS_CardinalityType
    <3> QED BY <2>2, <3>4, <3>5, <3>6, <3>7, Bounds DEF TurnsOf
  <2> QED BY <2>1, <2>2
<1> QED BY <1>3, <1>5, <1>6 DEF JournalHolds

\* The last call is completed: as a tool turn of its batch, or as its review,
\* which ends the batch.
LEMMA JournalFinishes ==
  ASSUME NEW plan \in Plans, NEW b \in BatchIds, NEW n \in 0 .. MaxCalls,
         NEW cs \in [CallIds -> Call], NEW cs2 \in [CallIds -> Call],
         JournalHolds(plan, b, n, cs), NEW m \in CallIds,
         cs[m].status = "dispatched", cs[m].batch = b,
         cs2[m].status = "completed", cs2[m].batch = b,
         \A i \in CallIds : i # m => cs2[i] = cs[i]
  PROVE  /\ cs2[m].tools => JournalHolds(plan, b, n, cs2)
         /\ ~cs2[m].tools => JournalHolds(plan, b + 1, n, cs2)
         /\ \A i \in CallIds : cs2[i].status \in {"absent", "completed"}
<1>1. m = n
  BY DEF JournalHolds, InOrder
<1>2. \A i \in CallIds : cs2[i].status \in {"absent", "completed"}
  BY <1>1 DEF JournalHolds, InOrder
<1>3. \A i \in CallIds : cs2[i].status # "absent" <=> i <= n
  BY <1>1 DEF JournalHolds, InOrder, CallIds
<1>4. \A i \in CallIds : i <= n => cs2[i].batch \in 1 .. b
  BY <1>1 DEF JournalHolds, InOrder, BatchIds
<1>5. \A k : CallsIn(cs2, k) = CallsIn(cs, k)
  BY DEF CallsIn
<1>6. WithinTurns(plan, cs2)
  BY <1>5 DEF JournalHolds, WithinTurns
<1>7. ASSUME cs2[m].tools PROVE JournalHolds(plan, b, n, cs2)
  <2>1. \A k \in BatchIds : PublishedIn(cs2, k) = PublishedIn(cs, k)
    BY <1>7 DEF PublishedIn, CallsIn
  <2>2. OnePerBatch(b, cs2)
    BY <2>1 DEF JournalHolds, OnePerBatch
  <2>3. InOrder(b, n, cs2)
    BY <1>2, <1>3, <1>4 DEF InOrder
  <2> QED BY <1>6, <2>2, <2>3 DEF JournalHolds
<1>8. ASSUME ~cs2[m].tools PROVE JournalHolds(plan, b + 1, n, cs2)
  <2>1. \A k \in BatchIds : k # b => PublishedIn(cs2, k) = PublishedIn(cs, k)
    BY DEF PublishedIn, CallsIn
  <2>2. PublishedIn(cs2, b) = {m}
    <3>1. PublishedIn(cs, b) = {}
      BY DEF JournalHolds, OnePerBatch, BatchIds
    <3> QED BY <1>8, <3>1 DEF PublishedIn, CallsIn
  <2>3. OnePerBatch(b + 1, cs2)
    <3>1. ASSUME NEW k \in BatchIds, k < b + 1
          PROVE  \E i \in CallIds : PublishedIn(cs2, k) = {i}
      BY <2>1, <2>2, <3>1 DEF JournalHolds, OnePerBatch, BatchIds
    <3>2. ASSUME NEW k \in BatchIds, k >= b + 1 PROVE PublishedIn(cs2, k) = {}
      BY <2>1, <3>2 DEF JournalHolds, OnePerBatch, BatchIds
    <3> QED BY <3>1, <3>2 DEF OnePerBatch
  <2>4. InOrder(b + 1, n, cs2)
    BY <1>2, <1>3, <1>4 DEF InOrder, BatchIds
  <2> QED BY <1>6, <2>3, <2>4 DEF JournalHolds
<1> QED BY <1>2, <1>7, <1>8

\* The published batch is counted: its reviews, and the findings left out.
LEMMA CountedOnce ==
  ASSUME NEW size \in [BatchIds -> Nat], NEW b \in BatchIds, NEW done \in Nat, NEW wrong \in Nat,
         NEW rv \in [BatchIds -> 0 .. MaxBatchSize],
         NEW rv2 \in [BatchIds -> 0 .. MaxBatchSize],
         NEW saved \in Nat, saved <= size[b],
         Counted(size, b, done, wrong, rv),
         rv2[b] = rv[b] + saved, \A k \in BatchIds : k # b => rv2[k] = rv[k]
  PROVE  Counted(size, b + 1, done + saved, wrong + (size[b] - saved), rv2)
<1>1. rv \in [BatchIds -> Nat] /\ rv2 \in [BatchIds -> Nat] /\ size \in [BatchIds -> Nat]
  BY Bounds
<1>2. rv[b] = 0 /\ rv2[b] = saved
  BY <1>1 DEF Counted, BatchIds
<1>3. \A k \in BatchIds : rv2[k] <= size[k]
  BY <1>2 DEF Counted
<1>4. \A k \in BatchIds : k >= b + 1 => rv2[k] = 0
  BY DEF Counted, BatchIds
<1>5. wrong + (size[b] - saved) = 0 => \A k \in BatchIds : k < b + 1 => rv2[k] = size[k]
  <2> SUFFICES ASSUME wrong + (size[b] - saved) = 0, NEW k \in BatchIds, k < b + 1
               PROVE  rv2[k] = size[k]
    OBVIOUS
  <2>1. wrong = 0 /\ saved = size[b]
    <3>1. size[b] \in Nat
      BY <1>1
    <3> QED BY <3>1
  <2>2. CASE k = b
    BY <1>2, <2>1, <2>2
  <2>3. CASE k # b
    <3>1. k < b
      BY <2>3 DEF BatchIds
    <3>2. rv[k] = size[k]
      BY <2>1, <3>1 DEF Counted
    <3> QED BY <2>3, <3>2
  <2> QED BY <2>2, <2>3
<1>6. done + saved = SumTo(rv2, MaxBatches)
  <2>1. SumTo(rv2, MaxBatches)
          = SumTo(rv, MaxBatches) + (IF MaxBatches >= b THEN saved ELSE 0)
    BY SMTT(30), <1>1, Bounds, SumToGrows
  <2> QED BY <2>1, Bounds DEF Counted, BatchIds
<1>7. done + saved + (wrong + (size[b] - saved)) = SumTo(size, b)
  <2>1. SumTo(size, b) = SumTo(size, b - 1) + size[b]
    BY <1>1, Bounds, SumToUnfolds
  <2>2. done + wrong = SumTo(size, b - 1) /\ size[b] \in Nat
    BY <1>1 DEF Counted
  <2>3. done + saved + (wrong + (size[b] - saved)) = (done + wrong) + size[b]
    BY <2>2
  <2> QED BY <2>1, <2>2, <2>3
<1> DEFINE c == b + 1  d == done + saved  w == wrong + (size[b] - saved)
<1>8. /\ \A k \in BatchIds : k >= c => rv2[k] = 0
      /\ w = 0 => \A k \in BatchIds : k < c => rv2[k] = size[k]
      /\ d = SumTo(rv2, MaxBatches)
      /\ d + w = SumTo(size, c - 1)
  <2>1. \A k \in BatchIds : k >= c => rv2[k] = 0
    BY <1>4
  <2>2. w = 0 => \A k \in BatchIds : k < c => rv2[k] = size[k]
    BY <1>5
  <2>3. d = SumTo(rv2, MaxBatches)
    BY <1>6
  <2>4. d + w = SumTo(size, c - 1)
    <3>1. c - 1 = b
      BY DEF BatchIds
    <3>2. d + w = SumTo(size, b)
      BY <1>7
    <3> QED BY <3>1, <3>2
  <2> QED BY <2>1, <2>2, <2>3, <2>4
<1> HIDE DEF c, d, w
<1>9. Counted(size, c, d, w, rv2)
  BY <1>3, <1>8 DEF Counted
<1> QED BY <1>9 DEF c, d, w

(***************************************************************************)
(* Every action keeps the invariant                                        *)
(***************************************************************************)

rowVars == <<request, status, activeKey, progressVars>>

\* What JobHolds(j) speaks of is as it was.
SameRow(j) ==
  /\ request'[j] = request[j] /\ status'[j] = status[j]
  /\ activeKey'[j] = activeKey[j] /\ batch'[j] = batch[j]
  /\ started'[j] = started[j] /\ reviewed'[j] = reviewed[j]
  /\ errors'[j] = errors[j] /\ calls'[j] = calls[j] /\ reviews'[j] = reviews[j]

LEMMA SameRowHolds ==
  ASSUME NEW j \in JobIds, JobHolds(j), SameRow(j)
  PROVE  JobHolds(j)'
<1>1. PlanOf(j)' = PlanOf(j)
  BY DEF SameRow, PlanOf
<1> QED BY <1>1 DEF JobHolds, SameRow

LEMMA RowsUnchanged ==
  ASSUME Inductive, UNCHANGED rowVars
  PROVE  \A j \in JobIds : JobHolds(j)'
<1>1. \A j \in JobIds : JobHolds(j) /\ SameRow(j)
  BY DEF Inductive, rowVars, progressVars, SameRow
<1> QED BY <1>1, SameRowHolds

\* The parts of TypeOK.
LEMMA Types ==
  ASSUME TypeOK
  PROVE  /\ \A j \in JobIds :
              /\ request[j] \in Request /\ PlanOf(j) \in Plans /\ PlanOf(j).last \in BatchIds
              /\ PlanOf(j).size \in [BatchIds -> Nat]
              /\ batch[j] \in 1 .. MaxBatches + 1 /\ started[j] \in 0 .. MaxCalls
              /\ reviewed[j] \in Nat /\ errors[j] \in Nat
              /\ calls[j] \in [CallIds -> Call]
              /\ reviews[j] \in [BatchIds -> 0 .. MaxBatchSize]
              /\ lease[j] \in Lease /\ attempts[j] \in 0 .. MaxAttempts
         /\ \A w \in Workers :
              /\ worker[w] \in WorkerState
              /\ worker[w].phase \in Holding => worker[w].job \in JobIds
<1>1. \A j \in JobIds : request[j] \in Request /\ PlanOf(j) \in Plans
  BY DEF TypeOK, Request, PlanOf
<1>2. \A j \in JobIds : PlanOf(j).last \in BatchIds /\ PlanOf(j).size \in [BatchIds -> Nat]
  BY <1>1, Bounds
<1> QED BY <1>1, <1>2 DEF TypeOK

LEMMA Blanks == NoLease \in Lease /\ NoCall \in Call /\ Idle \in WorkerState
<1>1. 0 \in 0 .. MaxAttempts /\ 0 \in 0 .. LeaseTicks /\ 0 \in 0 .. MaxBatches
  BY Bounds
<1>2. 0 \in 0 .. MaxJobs /\ 0 \in 0 .. MaxBatches + 1 /\ 0 \in 0 .. MaxCalls
  BY LlmJobsAssumption
<1>3. NoLease \in Lease
  BY <1>1 DEF NoLease, Lease
<1>4. NoCall \in Call
  BY <1>1 DEF NoCall, Call
<1>5. Idle \in WorkerState
  BY <1>1, <1>2 DEF Idle, WorkerState
<1> QED BY <1>3, <1>4, <1>5

LEMMA InitHolds == Init => Inductive
<1> SUFFICES ASSUME Init PROVE Inductive
  OBVIOUS
<1>1. TypeOK
  <2>1. request \in [JobIds -> Request]
    <3> DEFINE r == [scan |-> CHOOSE s \in Scans : TRUE,
                     requester |-> CHOOSE u \in Users : TRUE,
                     config |-> CHOOSE c \in Configs : TRUE,
                     plan |-> CHOOSE p \in Plans : TRUE]
    <3>1. r \in Request
      <4>1. /\ (CHOOSE s \in Scans : TRUE) \in Scans
            /\ (CHOOSE u \in Users : TRUE) \in Users
            /\ (CHOOSE c \in Configs : TRUE) \in Configs
            /\ (CHOOSE p \in Plans : TRUE) \in Plans
        BY LlmJobsAssumption
      <4> QED BY <4>1 DEF Request
    <3> QED BY <3>1 DEF Init
  <2>2. NoLease \in Lease /\ NoCall \in Call /\ Idle \in WorkerState
    BY Blanks
  <2>3. Idle.phase \notin Holding
    BY DEF Idle, Holding, Running
  <2> QED BY <2>1, <2>2, <2>3, Bounds DEF Init, TypeOK, Active, Terminal, BatchIds
<1>2. CallsInHand
  BY DEF Init, CallsInHand, Idle
<1>3. ASSUME NEW j \in JobIds PROVE JobHolds(j)
  <2>1. \A b : CallsIn(calls[j], b) = {} /\ PublishedIn(calls[j], b) = {}
    BY DEF Init, NoCall, CallsIn, PublishedIn
  <2>2. InOrder(1, 0, calls[j])
    BY DEF Init, NoCall, InOrder, CallIds
  <2>3. OnePerBatch(1, calls[j])
    BY <2>1 DEF OnePerBatch, BatchIds
  <2>4. WithinTurns(PlanOf(j), calls[j])
    <3>1. \A b : Cardinality(CallsIn(calls[j], b)) = 0
      BY <2>1, FS_EmptySet
    <3>2. 0 <= TurnsOf(PlanOf(j))
      BY Bounds DEF TurnsOf
    <3> QED BY <3>1, <3>2 DEF WithinTurns
  <2>5. Counted(PlanOf(j).size, 1, 0, 0, reviews[j])
    <3>1. reviews[j] \in [BatchIds -> Nat] /\ \A k \in BatchIds : reviews[j][k] = 0
      BY DEF Init
    <3>2. PlanOf(j).size \in [BatchIds -> Nat]
      BY <1>1, Types
    <3>3. SumTo(reviews[j], MaxBatches) = 0
      BY <3>1, NothingToSum, Bounds
    <3>4. SumTo(PlanOf(j).size, 0) = 0
      BY <3>2, SumToUnfolds, Bounds
    <3>5. 1 - 1 = 0 /\ \A k \in BatchIds : ~(k < 1) /\ 0 <= PlanOf(j).size[k]
      <4>1. \A f \in [BatchIds -> Nat] : \A k \in BatchIds : 0 <= f[k]
        OBVIOUS
      <4> QED BY <3>2, <4>1 DEF BatchIds
    <3> QED BY <3>1, <3>3, <3>4, <3>5 DEF Counted
  <2>6. Settled(PlanOf(j), "absent", FALSE, 1, 0, calls[j])
    BY DEF Settled, Active, Terminal
  <2>7. Blank("absent", 1, 0, 0, 0, reviews[j])
    BY DEF Blank, Init
  <2> QED BY <2>2, <2>3, <2>4, <2>5, <2>6, <2>7 DEF JobHolds, JobInvariant, Init
<1> QED BY <1>1, <1>2, <1>3 DEF Inductive

\* Steps of a worker, of time and of an administrator that touch no row.
LEMMA QuietSteps ==
  ASSUME Inductive,
         \/ \E w \in Workers : \/ HeartbeatReview(w) \/ ReceiveAnswer(w) \/ CrashWorker(w)
                               \/ \E heard \in BOOLEAN : InterruptReview(w, heard)
         \/ Tick
         \/ \E j \in JobIds : DeadlinePasses(j) \/ ExpireInput(j)
         \/ Administer
         \/ UNCHANGED vars
  PROVE  Inductive'
<1>1. \A j \in JobIds : JobHolds(j)'
  <2>1. UNCHANGED rowVars
    BY DEF HeartbeatReview, ReceiveAnswer, CrashWorker, InterruptReview, Tick,
           DeadlinePasses, ExpireInput, Administer, vars, rowVars, queueVars, progressVars
  <2> QED BY <2>1, RowsUnchanged
<1>2. TypeOK /\ CallsInHand
  BY DEF Inductive
<1>3. ASSUME NEW w \in Workers, HeartbeatReview(w) PROVE TypeOK' /\ CallsInHand'
  <2>1. lease' \in [JobIds -> Lease]
    <3>1. \A l \in Lease : [l EXCEPT !.left = LeaseTicks] \in Lease
      BY Bounds DEF Lease
    <3>2. lease \in [JobIds -> Lease]
      BY <1>2 DEF TypeOK
    <3> QED BY <1>3, <3>1, <3>2 DEF HeartbeatReview
  <2> QED BY <1>2, <1>3, <2>1 DEF HeartbeatReview, TypeOK, CallsInHand, progressVars, settingVars
<1>4. ASSUME NEW w \in Workers, ReceiveAnswer(w) PROVE TypeOK' /\ CallsInHand'
  <2>1. worker' \in [Workers -> WorkerState]
    <3>1. \A q \in WorkerState :
            [q EXCEPT !.phase = "answered", !.heard = TRUE] \in WorkerState
      BY DEF WorkerState, Holding, Running
    <3>2. worker \in [Workers -> WorkerState]
      BY <1>2 DEF TypeOK
    <3> QED BY <1>4, <3>1, <3>2 DEF ReceiveAnswer
  <2>2. \A v \in Workers : /\ worker'[v].call = worker[v].call /\ worker'[v].job = worker[v].job
                           /\ v # w => worker'[v].phase = worker[v].phase
    BY <1>2, <1>4 DEF ReceiveAnswer, TypeOK, WorkerState
  <2>3. worker[w].phase = "waiting"
    BY <1>4 DEF ReceiveAnswer
  <2> QED BY <1>2, <1>4, <2>1, <2>2, <2>3
          DEF ReceiveAnswer, TypeOK, CallsInHand, Holding, Running, queueVars, progressVars,
              settingVars
<1>5. ASSUME NEW w \in Workers, NEW heard \in BOOLEAN, InterruptReview(w, heard)
      PROVE  TypeOK' /\ CallsInHand'
  <2>1. worker' \in [Workers -> WorkerState]
    BY <1>2, <1>5 DEF InterruptReview, TypeOK, WorkerState, Holding, Running
  <2>2. \A v \in Workers : /\ worker'[v].call = worker[v].call /\ worker'[v].job = worker[v].job
                           /\ v # w => worker'[v].phase = worker[v].phase
    BY <1>2, <1>5 DEF InterruptReview, TypeOK, WorkerState
  <2>3. worker[w].phase \in Holding
    BY <1>5 DEF InterruptReview, Holding
  <2>4. worker'[w].phase \in {"waiting", "answered", "discarding"} => worker[w].call \in CallIds
    <3>1. worker[w].call \in 0 .. MaxCalls
      BY <1>2 DEF TypeOK, WorkerState
    <3>2. worker[w].call = 0 => worker'[w].phase = "failing"
      BY <1>2, <1>5 DEF InterruptReview, TypeOK, WorkerState
    <3> QED BY <3>1, <3>2 DEF CallIds
  <2> QED BY <1>2, <1>5, <2>1, <2>2, <2>3, <2>4
          DEF InterruptReview, TypeOK, CallsInHand, queueVars, progressVars, settingVars
<1>6. ASSUME NEW w \in Workers, CrashWorker(w) PROVE TypeOK' /\ CallsInHand'
  <2>1. Idle.phase \notin Holding /\ Idle.phase \notin {"waiting", "answered", "discarding"}
    BY DEF Idle, Holding, Running
  <2>2. worker' \in [Workers -> WorkerState]
    BY <1>2, <1>6, Blanks DEF CrashWorker, TypeOK
  <2>3. \A v \in Workers : worker'[v] = worker[v] \/ worker'[v] = Idle
    BY <1>2, <1>6 DEF CrashWorker, TypeOK
  <2> QED BY <1>2, <1>6, <2>1, <2>2, <2>3
          DEF CrashWorker, TypeOK, CallsInHand, queueVars, progressVars, settingVars
<1>7. ASSUME Tick PROVE TypeOK' /\ CallsInHand'
  <2>1. lease' \in [JobIds -> Lease]
    BY <1>2, <1>7, Bounds DEF Tick, TypeOK, Lease
  <2> QED BY <1>2, <1>7, <2>1 DEF Tick, TypeOK, CallsInHand, progressVars, settingVars
<1>8. ASSUME NEW j \in JobIds, DeadlinePasses(j) \/ ExpireInput(j)
      PROVE  TypeOK' /\ CallsInHand'
  BY <1>2, <1>8 DEF DeadlinePasses, ExpireInput, TypeOK, CallsInHand, queueVars,
                    progressVars, settingVars
<1>9. ASSUME Administer PROVE TypeOK' /\ CallsInHand'
  BY <1>2, <1>9 DEF Administer, TypeOK, CallsInHand, queueVars, progressVars
<1>10. ASSUME UNCHANGED vars PROVE TypeOK' /\ CallsInHand'
  BY <1>2, <1>10 DEF vars, TypeOK, CallsInHand, queueVars, progressVars, settingVars
<1> QED BY <1>1, <1>3, <1>4, <1>5, <1>6, <1>7, <1>8, <1>9, <1>10 DEF Inductive

\* The end of a job leaves no call under way and changes nothing else of its
\* journal.
LEMMA UncertainCalls ==
  ASSUME NEW c \in Call
  PROVE  /\ Uncertain(c) \in Call
         /\ Uncertain(c).batch = c.batch /\ Uncertain(c).tools = c.tools
         /\ Uncertain(c).status = "absent" <=> c.status = "absent"
         /\ Uncertain(c).status = "completed" <=> c.status = "completed"
         /\ Uncertain(c).status # "dispatched"
BY DEF Uncertain, Call

\* Job j is ended as terminate ends it.
EndedHere(j) ==
  /\ status[j] \in Active
  /\ status'[j] \in {"partial", "failed", "cancelled"}
  /\ activeKey'[j] = FALSE /\ calls'[j] = AfterEnd(j)
  /\ request'[j] = request[j] /\ batch'[j] = batch[j] /\ started'[j] = started[j]
  /\ reviewed'[j] = reviewed[j] /\ errors'[j] = errors[j] /\ reviews'[j] = reviews[j]

LEMMA EndedHolds ==
  ASSUME TypeOK, NEW j \in JobIds, JobHolds(j), EndedHere(j)
  PROVE  JobHolds(j)' /\ calls'[j] \in [CallIds -> Call]
<1>1. PlanOf(j)' = PlanOf(j)
  BY DEF EndedHere, PlanOf
<1>2. calls[j] \in [CallIds -> Call]
  BY DEF TypeOK
<1>3. \A m \in CallIds : calls'[j][m] = Uncertain(calls[j][m])
  BY DEF EndedHere, AfterEnd
<1>4. \A m \in CallIds :
        /\ calls'[j][m] \in Call
        /\ calls'[j][m].batch = calls[j][m].batch /\ calls'[j][m].tools = calls[j][m].tools
        /\ calls'[j][m].status = "absent" <=> calls[j][m].status = "absent"
        /\ calls'[j][m].status = "completed" <=> calls[j][m].status = "completed"
        /\ calls'[j][m].status # "dispatched"
  BY <1>2, <1>3, UncertainCalls
<1>5. JournalHolds(PlanOf(j), batch[j], started[j], calls[j])
  BY DEF JobHolds, JobInvariant, JournalHolds
<1>6. JournalHolds(PlanOf(j), batch[j], started[j], calls'[j])
  BY <1>4, <1>5, JournalRelabelled
<1>7. Settled(PlanOf(j), status'[j], FALSE, batch[j], errors[j], calls'[j])
  BY <1>4 DEF Settled, EndedHere, Active, Terminal
<1>8. Blank(status'[j], batch[j], started[j], reviewed[j], errors[j], reviews[j])
  BY DEF Blank, EndedHere
<1>9. calls'[j] \in [CallIds -> Call]
  BY <1>4 DEF EndedHere, AfterEnd
<1> QED BY <1>1, <1>6, <1>7, <1>8, <1>9
        DEF JobHolds, JobInvariant, JournalHolds, EndedHere

\* terminate on one job.
LEMMA TerminateStep ==
  ASSUME Inductive, NEW j \in JobIds, status[j] \in Active,
         NEW outcome \in {"partial", "failed", "cancelled"}, Terminate(j, outcome),
         UNCHANGED <<request, kept, settingVars>>
  PROVE  /\ \A i \in JobIds : JobHolds(i)'
         /\ status' \in [JobIds -> {"absent"} \cup Active \cup Terminal]
         /\ activeKey' \in [JobIds -> BOOLEAN] /\ lease' \in [JobIds -> Lease]
         /\ calls' \in [JobIds -> [CallIds -> Call]]
<1>1. TypeOK /\ \A i \in JobIds : JobHolds(i)
  BY DEF Inductive
<1>2. EndedHere(j)
  BY <1>1 DEF Terminate, EndedHere, KeyAfterEnd, TypeOK
<1>3. \A i \in JobIds : i # j => SameRow(i)
  BY <1>1 DEF Terminate, SameRow, TypeOK
<1>4. \A i \in JobIds : JobHolds(i)'
  BY <1>1, <1>2, <1>3, EndedHolds, SameRowHolds
<1>5. calls'[j] \in [CallIds -> Call]
  BY <1>1, <1>2, EndedHolds
<1>6. calls' \in [JobIds -> [CallIds -> Call]]
  BY <1>1, <1>5 DEF Terminate, TypeOK
<1>7. /\ status' \in [JobIds -> {"absent"} \cup Active \cup Terminal]
      /\ activeKey' \in [JobIds -> BOOLEAN] /\ lease' \in [JobIds -> Lease]
  BY <1>1, Blanks DEF Terminate, KeyAfterEnd, TypeOK, Terminal
<1> QED BY <1>4, <1>6, <1>7

LEMMA CancelReviewHolds ==
  ASSUME Inductive, NEW j \in JobIds, NEW u \in Users, CancelReview(j, u)
  PROVE  Inductive'
<1>1. /\ \A i \in JobIds : JobHolds(i)'
      /\ status' \in [JobIds -> {"absent"} \cup Active \cup Terminal]
      /\ activeKey' \in [JobIds -> BOOLEAN] /\ lease' \in [JobIds -> Lease]
      /\ calls' \in [JobIds -> [CallIds -> Call]]
  BY TerminateStep DEF CancelReview, Cancellable
<1>2. TypeOK' /\ CallsInHand'
  BY <1>1 DEF Inductive, CancelReview, Terminate, TypeOK, CallsInHand, settingVars
<1> QED BY <1>1, <1>2 DEF Inductive

\* A worker that moves to a new phase.
LEMMA WorkerMoves ==
  ASSUME TypeOK, CallsInHand, NEW w \in Workers, NEW q \in WorkerState,
         worker' = [worker EXCEPT ![w] = q],
         q.phase \in Holding => q.job \in JobIds,
         q.phase \in {"waiting", "answered", "discarding"} => q.call \in CallIds
  PROVE  /\ worker' \in [Workers -> WorkerState] /\ CallsInHand'
         /\ \A v \in Workers : worker'[v].phase \in Holding => worker'[v].job \in JobIds
<1>1. worker' \in [Workers -> WorkerState]
  BY DEF TypeOK
<1>2. \A v \in Workers : worker'[v] = worker[v] \/ worker'[v] = q
  BY DEF TypeOK
<1> QED BY <1>1, <1>2 DEF TypeOK, CallsInHand

LEMMA WorkerRests ==
  ASSUME TypeOK, CallsInHand, NEW w \in Workers, worker' = [worker EXCEPT ![w] = Idle]
  PROVE  /\ worker' \in [Workers -> WorkerState] /\ CallsInHand'
         /\ \A v \in Workers : worker'[v].phase \in Holding => worker'[v].job \in JobIds
<1>1. Idle.phase \notin Holding /\ Idle.phase \notin {"waiting", "answered", "discarding"}
  BY DEF Idle, Holding, Running
<1> QED BY <1>1, Blanks, WorkerMoves

LEMMA FailReviewHolds ==
  ASSUME Inductive, NEW w \in Workers, FailReview(w)
  PROVE  Inductive'
<1> DEFINE j == worker[w].job
<1>1. TypeOK /\ CallsInHand /\ j \in JobIds
  BY DEF Inductive, TypeOK, FailReview, Holding
<1>2. /\ worker' \in [Workers -> WorkerState] /\ CallsInHand'
      /\ \A v \in Workers : worker'[v].phase \in Holding => worker'[v].job \in JobIds
  BY <1>1, WorkerRests DEF FailReview
<1>3. CASE MayFail(w) /\ Terminate(j, EndOf(j))
  <2>1. status[j] \in Active
    BY <1>3 DEF MayFail, Leased, Active
  <2>2. EndOf(j) \in {"partial", "failed", "cancelled"}
    BY DEF EndOf
  <2>3. /\ \A i \in JobIds : JobHolds(i)'
        /\ status' \in [JobIds -> {"absent"} \cup Active \cup Terminal]
        /\ activeKey' \in [JobIds -> BOOLEAN] /\ lease' \in [JobIds -> Lease]
        /\ calls' \in [JobIds -> [CallIds -> Call]]
    BY <1>1, <1>3, <2>1, <2>2, TerminateStep DEF FailReview
  <2>4. TypeOK'
    BY <1>1, <1>2, <1>3, <2>3 DEF FailReview, Terminate, TypeOK, settingVars
  <2> QED BY <1>2, <2>3, <2>4 DEF Inductive
<1>4. CASE UNCHANGED <<queueVars, progressVars>>
  <2>1. \A i \in JobIds : JobHolds(i)'
    BY <1>4, RowsUnchanged DEF rowVars, FailReview, queueVars
  <2>2. TypeOK'
    BY <1>1, <1>2, <1>4 DEF FailReview, TypeOK, queueVars, progressVars, settingVars
  <2> QED BY <1>2, <2>1, <2>2 DEF Inductive
<1> QED BY <1>3, <1>4 DEF FailReview

\* A job is made on a row that nothing was written to, whatever its plan.
LEMMA NewJobHolds ==
  ASSUME NEW plan \in Plans, NEW new \in Plans, NEW key, NEW b, NEW n, NEW done, NEW wrong,
         NEW cs \in [CallIds -> Call], NEW rv \in [BatchIds -> 0 .. MaxBatchSize],
         JobInvariant(plan, "absent", key, b, n, done, wrong, cs, rv)
  PROVE  JobInvariant(new, "pending", TRUE, b, n, done, wrong, cs, rv)
<1>1. b = 1 /\ n = 0 /\ done = 0 /\ wrong = 0 /\ \A k \in BatchIds : rv[k] = 0
  BY DEF JobInvariant, Blank
<1>2. \A m \in CallIds : cs[m].status = "absent"
  BY <1>1 DEF JobInvariant, InOrder, CallIds
<1>3. WithinTurns(new, cs)
  <2>1. \A k : Cardinality(CallsIn(cs, k)) = 0
    BY <1>2, FS_EmptySet DEF CallsIn
  <2>2. 0 <= TurnsOf(new)
    BY Bounds DEF TurnsOf
  <2> QED BY <2>1, <2>2 DEF WithinTurns
<1>4. Counted(new.size, b, done, wrong, rv)
  <2>1. SumTo(new.size, 0) = 0
    BY SumToUnfolds, Bounds
  <2>2. done = SumTo(rv, MaxBatches)
    BY DEF JobInvariant, Counted
  <2>3. 1 - 1 = 0 /\ \A k \in BatchIds : ~(k < 1) /\ 0 <= new.size[k]
    <3>1. \A f \in [BatchIds -> Nat] : \A k \in BatchIds : 0 <= f[k]
      OBVIOUS
    <3> QED BY <3>1, Bounds DEF BatchIds
  <2> QED BY <1>1, <2>1, <2>2, <2>3 DEF Counted
<1>5. Settled(new, "pending", TRUE, b, wrong, cs)
  <2>1. 1 <= new.last
    BY Bounds DEF BatchIds
  <2> QED BY <1>1, <2>1 DEF Settled, Active, Terminal
<1>6. Blank("pending", b, n, done, wrong, rv)
  BY DEF Blank
<1> QED BY <1>3, <1>4, <1>5, <1>6 DEF JobInvariant

LEMMA RequestReviewHolds ==
  ASSUME Inductive, NEW s \in Scans, NEW u \in Users, NEW plan \in Plans,
         RequestReview(s, u, plan)
  PROVE  Inductive'
<1> DEFINE new == [scan |-> s, requester |-> u, config |-> config, plan |-> plan]
<1>1. TypeOK /\ CallsInHand /\ \A i \in JobIds : JobHolds(i)
  BY DEF Inductive
<1>2. PICK j \in JobIds :
        /\ status[j] = "absent"
        /\ request' = [request EXCEPT ![j] = new]
        /\ status' = [status EXCEPT ![j] = "pending"]
        /\ activeKey' = [activeKey EXCEPT ![j] = TRUE]
        /\ kept' = [kept EXCEPT ![j] = TRUE]
  BY DEF RequestReview, NextRow
<1>3. new \in Request /\ new.plan = plan
  BY <1>1 DEF RequestReview, TypeOK, Request
<1>4. UNCHANGED <<attempts, lease, overdue, batch, started, reviewed, errors, calls, reviews,
                  worker, maintainers, archived, config>>
  BY DEF RequestReview, progressVars, settingVars
<1> HIDE DEF new
<1>5. TypeOK'
  BY <1>1, <1>2, <1>3, <1>4 DEF TypeOK, Active
<1>6. CallsInHand'
  BY <1>1, <1>4 DEF CallsInHand
<1>7. JobHolds(j)'
  <2>1. /\ PlanOf(j)' = plan /\ status'[j] = "pending" /\ activeKey'[j] = TRUE
        /\ UNCHANGED <<batch[j], started[j], reviewed[j], errors[j], calls[j], reviews[j]>>
    BY <1>1, <1>2, <1>3, <1>4 DEF TypeOK, PlanOf
  <2>2. JobInvariant(plan, "pending", TRUE, batch[j], started[j], reviewed[j], errors[j],
                     calls[j], reviews[j])
    BY <1>1, <1>2, Types, NewJobHolds DEF JobHolds
  <2> QED BY <2>1, <2>2 DEF JobHolds
<1>8. \A i \in JobIds : i # j => SameRow(i)
  BY <1>1, <1>2, <1>4 DEF SameRow, TypeOK
<1> QED BY <1>1, <1>5, <1>6, <1>7, <1>8, SameRowHolds DEF Inductive

LEMMA ClaimReviewHolds ==
  ASSUME Inductive, NEW w \in Workers, ClaimReview(w)
  PROVE  Inductive'
<1>1. TypeOK /\ CallsInHand /\ \A i \in JobIds : JobHolds(i)
  BY DEF Inductive
<1>2. UNCHANGED <<request, overdue, batch, started, reviewed, errors, reviews, kept,
                  maintainers, archived, config>>
  BY DEF ClaimReview, settingVars
<1> DEFINE dropped == {i \in JobIds : Reached(i) /\ ~Claimable(i)}
           given == {i \in JobIds : Reached(i) /\ Claimable(i)}
<1>3. ASSUME NEW i \in dropped
      PROVE  /\ status'[i] = EndOf(i) /\ activeKey'[i] = KeyAfterEnd(i)
             /\ attempts'[i] = attempts[i] /\ lease'[i] = NoLease /\ calls'[i] = AfterEnd(i)
  BY DEF ClaimReview
<1>4. ASSUME NEW i \in given
      PROVE  /\ status'[i] = "running" /\ activeKey'[i] = activeKey[i]
             /\ attempts'[i] = attempts[i] + 1 /\ calls'[i] = calls[i]
             /\ lease'[i] = [token |-> FreshToken(i), left |-> LeaseTicks]
  <2>1. i \notin dropped
    BY <1>4
  <2> QED BY <1>4, <2>1 DEF ClaimReview
<1>5. ASSUME NEW i \in JobIds, i \notin dropped, i \notin given
      PROVE  /\ status'[i] = status[i] /\ activeKey'[i] = activeKey[i]
             /\ attempts'[i] = attempts[i] /\ lease'[i] = lease[i] /\ calls'[i] = calls[i]
  BY <1>5 DEF ClaimReview
<1>6. /\ status' = [i \in JobIds |-> status'[i]] /\ activeKey' = [i \in JobIds |-> activeKey'[i]]
      /\ attempts' = [i \in JobIds |-> attempts'[i]] /\ lease' = [i \in JobIds |-> lease'[i]]
      /\ calls' = [i \in JobIds |-> calls'[i]]
  BY DEF ClaimReview
<1>7. /\ \/ given = {} /\ UNCHANGED worker
         \/ \E i \in given : worker' = [worker EXCEPT ![w] = ClaimedState(i)]
  BY DEF ClaimReview
<1>8. \A i \in given : attempts[i] < MaxAttempts /\ status[i] \in Active
  BY DEF Reached, Eligible, Claimable, Active
<1>9. \A i \in dropped : status[i] \in Active
  BY DEF Reached, Eligible, Active
<1>10. dropped \subseteq JobIds /\ given \subseteq JobIds
  OBVIOUS
<1> HIDE DEF dropped, given
<1>11. ASSUME NEW i \in JobIds
       PROVE  /\ JobHolds(i)' /\ status'[i] \in {"absent"} \cup Active \cup Terminal
              /\ activeKey'[i] \in BOOLEAN /\ attempts'[i] \in 0 .. MaxAttempts
              /\ lease'[i] \in Lease /\ calls'[i] \in [CallIds -> Call]
  <2>1. /\ status[i] \in {"absent"} \cup Active \cup Terminal /\ activeKey[i] \in BOOLEAN
        /\ attempts[i] \in 0 .. MaxAttempts /\ lease[i] \in Lease
        /\ calls[i] \in [CallIds -> Call]
    BY <1>1 DEF TypeOK
  <2>2. CASE i \in dropped
    <3>1. EndedHere(i)
      BY <1>2, <1>3, <1>9, <2>2 DEF EndedHere, KeyAfterEnd, EndOf
    <3> QED BY <1>1, <1>3, <2>1, <2>2, <3>1, EndedHolds, Blanks
            DEF EndedHere, KeyAfterEnd, Terminal
  <2>3. CASE i \in given
    <3>1. JobHolds(i)'
      <4>1. /\ PlanOf(i)' = PlanOf(i) /\ status'[i] = "running" /\ activeKey'[i] = activeKey[i]
            /\ calls'[i] = calls[i]
            /\ UNCHANGED <<batch[i], started[i], reviewed[i], errors[i], reviews[i]>>
        BY <1>2, <1>4, <2>3 DEF PlanOf
      <4>2. Settled(PlanOf(i), "running", activeKey[i], batch[i], errors[i], calls[i])
        BY <1>1, <1>8, <2>3 DEF JobHolds, JobInvariant, Settled, Active, Terminal
      <4>3. Blank("running", batch[i], started[i], reviewed[i], errors[i], reviews[i])
        BY DEF Blank
      <4> QED BY <1>1, <4>1, <4>2, <4>3 DEF JobHolds, JobInvariant
    <3>2. attempts[i] + 1 \in 0 .. MaxAttempts
      BY <1>8, <2>1, <2>3, Bounds
    <3>3. lease'[i] \in Lease
      <4>1. FreshToken(i) \in 0 .. MaxAttempts /\ LeaseTicks \in 0 .. LeaseTicks
        BY <3>2, Bounds DEF FreshToken
      <4>2. [token |-> FreshToken(i), left |-> LeaseTicks] \in Lease
        BY <4>1 DEF Lease
      <4> QED BY <1>4, <2>3, <4>2
    <3>4. attempts'[i] \in 0 .. MaxAttempts
      BY <1>4, <2>3, <3>2
    <3>5. status'[i] \in Active /\ activeKey'[i] \in BOOLEAN
      BY <1>4, <2>1, <2>3 DEF Active
    <3>6. calls'[i] \in [CallIds -> Call]
      BY <1>4, <2>1, <2>3
    <3> QED BY <3>1, <3>3, <3>4, <3>5, <3>6
  <2>4. CASE i \notin dropped /\ i \notin given
    <3>1. SameRow(i)
      BY <1>2, <1>5, <2>4 DEF SameRow
    <3> QED BY <1>1, <1>5, <2>1, <2>4, <3>1, SameRowHolds
  <2> QED BY <2>2, <2>3, <2>4
<1>12. /\ status' \in [JobIds -> {"absent"} \cup Active \cup Terminal]
       /\ activeKey' \in [JobIds -> BOOLEAN] /\ attempts' \in [JobIds -> 0 .. MaxAttempts]
       /\ lease' \in [JobIds -> Lease] /\ calls' \in [JobIds -> [CallIds -> Call]]
  BY <1>6, <1>11
<1>13. /\ worker' \in [Workers -> WorkerState] /\ CallsInHand'
       /\ \A v \in Workers : worker'[v].phase \in Holding => worker'[v].job \in JobIds
  <2>1. CASE UNCHANGED worker
    BY <1>1, <2>1 DEF TypeOK, CallsInHand
  <2>2. ASSUME NEW i \in given, worker' = [worker EXCEPT ![w] = ClaimedState(i)]
        PROVE  /\ worker' \in [Workers -> WorkerState] /\ CallsInHand'
               /\ \A v \in Workers : worker'[v].phase \in Holding => worker'[v].job \in JobIds
    <3>1. ClaimedState(i) \in WorkerState
      <4>1. attempts[i] + 1 \in 0 .. MaxAttempts
        BY <1>1, <1>8, <1>10, Bounds DEF TypeOK
      <4>2. batch[i] \in 0 .. MaxBatches + 1 /\ 0 \in 0 .. MaxCalls /\ i \in 0 .. MaxJobs
        BY <1>1, <1>10, Bounds, LlmJobsAssumption DEF TypeOK, JobIds
      <4> QED BY <4>1, <4>2 DEF ClaimedState, WorkerState, FreshToken, ResumeAt, Holding, Running
    <3>2. /\ ClaimedState(i).phase \notin {"waiting", "answered", "discarding"}
          /\ ClaimedState(i).job \in JobIds
      BY <1>10 DEF ClaimedState
    <3>3. \A v \in Workers : worker'[v] = worker[v] \/ worker'[v] = ClaimedState(i)
      BY <1>1, <2>2 DEF TypeOK
    <3> QED BY <1>1, <2>2, <3>1, <3>2, <3>3 DEF TypeOK, CallsInHand
  <2> QED BY <1>7, <2>1, <2>2
<1>14. TypeOK'
  BY <1>1, <1>2, <1>12, <1>13 DEF TypeOK
<1> QED BY <1>11, <1>13, <1>14 DEF Inductive

\* What the check at the head of a worker's transaction says of its job.
LEMMA LeasedJob ==
  ASSUME TypeOK, NEW w \in Workers, LeaseHeld(w)
  PROVE  /\ worker[w].job \in JobIds /\ status[worker[w].job] = "running"
         /\ ~overdue[worker[w].job]
         /\ Authorized(worker[w].job) /\ Configured(worker[w].job)
BY DEF LeaseHeld, Leased, TypeOK

LEMMA StartCallHolds ==
  ASSUME Inductive, NEW w \in Workers, StartCall(w)
  PROVE  Inductive'
<1>1. TypeOK /\ CallsInHand /\ \A i \in JobIds : JobHolds(i)
  BY DEF Inductive
<1>2. PICK j \in JobIds : j = worker[w].job /\ status[j] = "running"
  BY <1>1, LeasedJob DEF StartCall
<1> DEFINE n == started[j] + 1
           c == [status |-> "dispatched", batch |-> batch[j], tools |-> FALSE,
                 token |-> worker[w].token, closed |-> FALSE]
<1>3. Resumable(j, batch[j]) /\ started[j] < MaxCalls
  BY <1>2 DEF StartCall, Affordable
<1>4. /\ calls' = [calls EXCEPT ![j] = [calls[j] EXCEPT ![n] = c]]
      /\ started' = [started EXCEPT ![j] = n]
      /\ worker' = [worker EXCEPT ![w].phase = "waiting", ![w].call = n]
  BY <1>2 DEF StartCall
<1>5. UNCHANGED <<request, status, activeKey, attempts, lease, overdue, batch, reviewed, errors,
                  reviews, kept, maintainers, archived, config>>
  BY DEF StartCall, queueVars, settingVars
<1>6. /\ PlanOf(j) \in Plans /\ started[j] \in 0 .. MaxCalls
      /\ calls[j] \in [CallIds -> Call] /\ worker[w] \in WorkerState
  BY <1>1, <1>2, Types
<1>7. n \in CallIds /\ n \in 0 .. MaxCalls
  BY <1>3, <1>6, Bounds DEF CallIds
<1>8. batch[j] \in BatchIds
  <2>1. batch[j] <= PlanOf(j).last
    BY <1>1, <1>2 DEF JobHolds, JobInvariant, Settled, Active
  <2>2. batch[j] \in 1 .. MaxBatches + 1 /\ PlanOf(j).last \in BatchIds
    BY <1>1, <1>2, Types
  <2>3. \A b \in 1 .. MaxBatches + 1, last \in BatchIds : b <= last => b \in BatchIds
    BY Bounds DEF BatchIds
  <2> QED BY <2>1, <2>2, <2>3
<1>9. c \in Call
  <2>1. worker[w].token \in 0 .. MaxAttempts /\ batch[j] \in 0 .. MaxBatches
    BY <1>6, <1>8 DEF WorkerState, BatchIds
  <2> QED BY <2>1 DEF Call
<1> HIDE DEF c, n
<1>10. calls'[j] = [calls[j] EXCEPT ![n] = c] /\ calls'[j] \in [CallIds -> Call]
  BY <1>1, <1>2, <1>4, <1>6, <1>9 DEF TypeOK
<1>11. JobHolds(j)'
  <2>1. JournalHolds(PlanOf(j), batch[j], started[j], calls[j])
    BY <1>1, <1>2 DEF JobHolds, JobInvariant, JournalHolds
  <2>2. /\ \A m \in CallsIn(calls[j], batch[j]) : ToolTurn(calls[j][m])
        /\ IF PlanOf(j).sources THEN Cardinality(CallsIn(calls[j], batch[j])) < Rounds
                                ELSE CallsIn(calls[j], batch[j]) = {}
    BY <1>3 DEF Resumable, CallsOf, CallsIn
  <2>3. /\ calls'[j][n] = c /\ c.status = "dispatched" /\ c.batch = batch[j]
        /\ \A m \in CallIds : m # n => calls'[j][m] = calls[j][m]
    BY <1>6, <1>7, <1>10 DEF c
  <2>4. JournalHolds(PlanOf(j), batch[j], started[j] + 1, calls'[j])
    BY <1>3, <1>6, <1>8, <1>10, <2>1, <2>2, <2>3, JournalStarts DEF n
  <2>5. /\ PlanOf(j)' = PlanOf(j) /\ started'[j] = started[j] + 1
        /\ UNCHANGED <<status[j], activeKey[j], batch[j], reviewed[j], errors[j], reviews[j]>>
    BY <1>1, <1>2, <1>4, <1>5 DEF PlanOf, TypeOK, n
  <2>6. Settled(PlanOf(j), status[j], activeKey[j], batch[j], errors[j], calls'[j])
    BY <1>1, <1>2 DEF JobHolds, JobInvariant, Settled, Active, Terminal
  <2>7. Blank(status[j], batch[j], started[j] + 1, reviewed[j], errors[j], reviews[j])
    BY <1>2 DEF Blank
  <2>8. Counted(PlanOf(j).size, batch[j], reviewed[j], errors[j], reviews[j])
    BY <1>1, <1>2 DEF JobHolds, JobInvariant
  <2>9. JobInvariant(PlanOf(j), status[j], activeKey[j], batch[j], started[j] + 1, reviewed[j],
                     errors[j], calls'[j], reviews[j])
    BY <2>4, <2>6, <2>7, <2>8 DEF JobInvariant, JournalHolds
  <2> QED BY <2>5, <2>9 DEF JobHolds
<1>12. \A i \in JobIds : i # j => SameRow(i)
  BY <1>1, <1>2, <1>4, <1>5 DEF SameRow, TypeOK
<1>13. /\ worker' \in [Workers -> WorkerState] /\ CallsInHand'
       /\ \A v \in Workers : worker'[v].phase \in Holding => worker'[v].job \in JobIds
  <2>1. \A q \in WorkerState : /\ [q EXCEPT !.phase = "waiting", !.call = n] \in WorkerState
                               /\ [q EXCEPT !.phase = "waiting", !.call = n].call = n
                               /\ [q EXCEPT !.phase = "waiting", !.call = n].job = q.job
    BY <1>7 DEF WorkerState, Holding, Running
  <2>2. /\ worker' = [worker EXCEPT ![w] = [worker[w] EXCEPT !.phase = "waiting", !.call = n]]
        /\ worker \in [Workers -> WorkerState]
    BY <1>1, <1>4 DEF TypeOK
  <2>3. /\ worker' \in [Workers -> WorkerState] /\ worker'[w].call = n /\ worker'[w].job = j
        /\ \A v \in Workers : v # w => worker'[v] = worker[v]
    BY <1>2, <2>1, <2>2
  <2> QED BY <1>1, <1>2, <1>7, <2>3 DEF TypeOK, CallsInHand
<1>14. TypeOK'
  BY <1>1, <1>2, <1>4, <1>5, <1>7, <1>10, <1>13 DEF TypeOK
<1>15. \A i \in JobIds : JobHolds(i)'
  BY <1>1, <1>11, <1>12, SameRowHolds
<1> QED BY <1>13, <1>14, <1>15 DEF Inductive

\* Writing the answer of a call into its row.
LEMMA FinishedCall ==
  ASSUME TypeOK, NEW j \in JobIds, NEW n \in CallIds, NEW tools \in BOOLEAN
  PROVE  /\ Finished(j, n, tools) \in [CallIds -> Call]
         /\ Finished(j, n, tools)[n].status = "completed"
         /\ Finished(j, n, tools)[n].tools = tools
         /\ Finished(j, n, tools)[n].batch = calls[j][n].batch
         /\ \A i \in CallIds : i # n => Finished(j, n, tools)[i] = calls[j][i]
<1> DEFINE c == [calls[j][n] EXCEPT !.status = "completed", !.tools = tools, !.closed = TRUE]
<1>1. calls[j] \in [CallIds -> Call] /\ calls[j][n] \in Call
  BY DEF TypeOK
<1>2. c \in Call /\ c.status = "completed" /\ c.tools = tools /\ c.batch = calls[j][n].batch
  BY <1>1 DEF Call
<1>3. Finished(j, n, tools) = [calls[j] EXCEPT ![n] = c]
  BY DEF Finished
<1> HIDE DEF c
<1> QED BY <1>1, <1>2, <1>3

\* The call that a worker is about to settle.
LEMMA CallInHand ==
  ASSUME TypeOK, CallsInHand, NEW w \in Workers, worker[w].phase \in {"answered", "discarding"}
  PROVE  worker[w].job \in JobIds /\ worker[w].call \in CallIds
BY DEF CallsInHand, TypeOK, Holding, Running

LEMMA CompleteToolTurnHolds ==
  ASSUME Inductive, NEW w \in Workers, CompleteToolTurn(w)
  PROVE  Inductive'
<1>1. TypeOK /\ CallsInHand /\ \A i \in JobIds : JobHolds(i)
  BY DEF Inductive
<1>2. PICK j \in JobIds : j = worker[w].job /\ status[j] = "running"
  BY <1>1, LeasedJob DEF CompleteToolTurn
<1>3. PICK n \in CallIds : n = worker[w].call
  BY <1>1, CallInHand DEF CompleteToolTurn
<1>4. /\ calls' = [calls EXCEPT ![j] = Finished(j, n, TRUE)]
      /\ worker' = [worker EXCEPT ![w].phase = "ready", ![w].call = 0, ![w].heard = FALSE]
  BY <1>2, <1>3 DEF CompleteToolTurn
<1>5. UNCHANGED <<request, status, activeKey, attempts, lease, overdue, batch, started, reviewed,
                  errors, reviews, kept, maintainers, archived, config>>
  BY DEF CompleteToolTurn, queueVars, settingVars
<1>6. calls[j][n].status = "dispatched" /\ calls[j][n].batch = batch[j]
  BY <1>2, <1>3 DEF CompleteToolTurn, Publishable
<1> DEFINE row == Finished(j, n, TRUE)
<1>0. /\ row \in [CallIds -> Call] /\ row[n].status = "completed" /\ row[n].tools = TRUE
      /\ row[n].batch = calls[j][n].batch
      /\ \A i \in CallIds : i # n => row[i] = calls[j][i]
  BY <1>1, FinishedCall, Zenon
<1> HIDE DEF row
<1>7. calls'[j] = row /\ calls'[j] \in [CallIds -> Call]
  <2>1. calls' = [calls EXCEPT ![j] = row]
    BY <1>4 DEF row
  <2> QED BY <1>0, <1>1, <2>1 DEF TypeOK
<1>8. JobHolds(j)'
  <2>1. JournalHolds(PlanOf(j), batch[j], started[j], calls[j])
    BY <1>1 DEF JobHolds, JobInvariant, JournalHolds
  <2>2. batch[j] \in BatchIds
    <3>1. calls[j][n].batch \in 0 .. MaxBatches /\ batch[j] \in 1 .. MaxBatches + 1
      BY <1>1, Types DEF Call
    <3> QED BY <1>6, <3>1, Bounds DEF BatchIds
  <2>3. /\ calls'[j][n].status = "completed" /\ calls'[j][n].tools = TRUE
        /\ calls'[j][n].batch = batch[j]
        /\ \A i \in CallIds : i # n => calls'[j][i] = calls[j][i]
    BY <1>0, <1>6, <1>7
  <2>4. JournalHolds(PlanOf(j), batch[j], started[j], calls'[j])
    <3>1. /\ PlanOf(j) \in Plans /\ started[j] \in 0 .. MaxCalls
          /\ calls[j] \in [CallIds -> Call]
      BY <1>1, Types
    <3> QED BY <1>6, <1>7, <2>1, <2>2, <2>3, <3>1, JournalFinishes
  <2>5. /\ PlanOf(j)' = PlanOf(j)
        /\ UNCHANGED <<status[j], activeKey[j], batch[j], started[j], reviewed[j], errors[j],
                       reviews[j]>>
    BY <1>5 DEF PlanOf
  <2>6. Settled(PlanOf(j), status[j], activeKey[j], batch[j], errors[j], calls'[j])
    BY <1>1, <1>2 DEF JobHolds, JobInvariant, Settled, Active, Terminal
  <2>7. JobInvariant(PlanOf(j), status[j], activeKey[j], batch[j], started[j], reviewed[j],
                     errors[j], calls'[j], reviews[j])
    BY <1>1, <2>4, <2>6 DEF JobHolds, JobInvariant, JournalHolds
  <2> QED BY <2>5, <2>7 DEF JobHolds
<1>9. \A i \in JobIds : i # j => SameRow(i)
  BY <1>1, <1>4, <1>5 DEF SameRow, TypeOK
<1>10. /\ worker' \in [Workers -> WorkerState] /\ CallsInHand'
       /\ \A v \in Workers : worker'[v].phase \in Holding => worker'[v].job \in JobIds
  <2> DEFINE Ready(q) == [q EXCEPT !.phase = "ready", !.call = 0, !.heard = FALSE]
  <2>1. \A q \in WorkerState : /\ Ready(q) \in WorkerState /\ Ready(q).phase = "ready"
                               /\ Ready(q).job = q.job
    <3>1. 0 \in 0 .. MaxCalls
      BY Bounds
    <3> QED BY <3>1 DEF WorkerState, Holding, Running
  <2>2. worker' = [worker EXCEPT ![w] = Ready(worker[w])] /\ worker \in [Workers -> WorkerState]
    BY <1>1, <1>4 DEF TypeOK
  <2> HIDE DEF Ready
  <2>3. /\ worker' \in [Workers -> WorkerState] /\ worker'[w].phase = "ready"
        /\ worker'[w].job = j /\ \A v \in Workers : v # w => worker'[v] = worker[v]
    BY <1>2, <2>1, <2>2
  <2> QED BY <1>1, <1>2, <2>3 DEF TypeOK, CallsInHand
<1>11. TypeOK'
  BY <1>1, <1>4, <1>5, <1>7, <1>10 DEF TypeOK
<1>12. \A i \in JobIds : JobHolds(i)'
  BY <1>1, <1>8, <1>9, SameRowHolds
<1> QED BY <1>10, <1>11, <1>12 DEF Inductive

LEMMA DiscardCallHolds ==
  ASSUME Inductive, NEW w \in Workers, DiscardCall(w)
  PROVE  Inductive'
<1>1. TypeOK /\ CallsInHand /\ \A i \in JobIds : JobHolds(i)
  BY DEF Inductive
<1>2. PICK j \in JobIds : j = worker[w].job
  BY <1>1, CallInHand DEF DiscardCall
<1>3. PICK n \in CallIds : n = worker[w].call
  BY <1>1, CallInHand DEF DiscardCall
<1> DEFINE new == [calls[j][n] EXCEPT
                     !.status = IF worker[w].heard THEN "discarded" ELSE "unknown",
                     !.closed = TRUE]
<1>4. worker' = [worker EXCEPT ![w].phase = "failing"]
  BY DEF DiscardCall
<1>5. UNCHANGED <<request, status, activeKey, attempts, lease, overdue, batch, started, reviewed,
                  errors, reviews, kept, maintainers, archived, config>>
  BY DEF DiscardCall, queueVars, settingVars
<1>6. \/ calls' = calls
      \/ /\ calls[j][n].status \in {"dispatched", "unknown"}
         /\ calls' = [calls EXCEPT ![j] = [calls[j] EXCEPT ![n] = new]]
  BY <1>2, <1>3 DEF DiscardCall
<1>7. calls[j] \in [CallIds -> Call] /\ calls[j][n] \in Call
  BY <1>1, Types
<1>8. /\ new \in Call /\ new.status \in {"discarded", "unknown"}
      /\ new.batch = calls[j][n].batch /\ new.tools = calls[j][n].tools
  BY <1>7 DEF Call
<1> HIDE DEF new
<1>9. calls'[j] \in [CallIds -> Call] /\ calls' \in [JobIds -> [CallIds -> Call]]
  <2>1. [calls[j] EXCEPT ![n] = new] \in [CallIds -> Call]
    BY <1>7, <1>8
  <2>2. calls \in [JobIds -> [CallIds -> Call]]
    BY <1>1 DEF TypeOK
  <2> QED BY <1>6, <1>7, <2>1, <2>2
<1>10. JobHolds(j)'
  <2>1. JournalHolds(PlanOf(j), batch[j], started[j], calls[j])
    BY <1>1 DEF JobHolds, JobInvariant, JournalHolds
  <2>2. \A m \in CallIds :
          /\ calls'[j][m].batch = calls[j][m].batch /\ calls'[j][m].tools = calls[j][m].tools
          /\ calls'[j][m].status = "absent" <=> calls[j][m].status = "absent"
          /\ calls'[j][m].status = "completed" <=> calls[j][m].status = "completed"
          /\ calls'[j][m].status = "dispatched" => calls[j][m].status = "dispatched"
    <3>1. CASE calls' = calls
      BY <3>1
    <3>2. CASE /\ calls[j][n].status \in {"dispatched", "unknown"}
               /\ calls' = [calls EXCEPT ![j] = [calls[j] EXCEPT ![n] = new]]
      <4>1. calls'[j] = [calls[j] EXCEPT ![n] = new]
        BY <1>1, <3>2 DEF TypeOK
      <4>2. calls'[j][n] = new /\ \A m \in CallIds : m # n => calls'[j][m] = calls[j][m]
        BY <1>7, <4>1
      <4> QED BY <1>8, <3>2, <4>2
    <3> QED BY <1>6, <3>1, <3>2
  <2>3. JournalHolds(PlanOf(j), batch[j], started[j], calls'[j])
    BY <2>1, <2>2, JournalRelabelled
  <2>4. /\ PlanOf(j)' = PlanOf(j)
        /\ UNCHANGED <<status[j], activeKey[j], batch[j], started[j], reviewed[j], errors[j],
                       reviews[j]>>
    BY <1>5 DEF PlanOf
  <2>5. Settled(PlanOf(j), status[j], activeKey[j], batch[j], errors[j], calls'[j])
    BY <1>1, <2>2 DEF JobHolds, JobInvariant, Settled
  <2>6. JobInvariant(PlanOf(j), status[j], activeKey[j], batch[j], started[j], reviewed[j],
                     errors[j], calls'[j], reviews[j])
    BY <1>1, <2>3, <2>5 DEF JobHolds, JobInvariant, JournalHolds
  <2> QED BY <2>4, <2>6 DEF JobHolds
<1>11. \A i \in JobIds : i # j => SameRow(i)
  BY <1>1, <1>5, <1>6 DEF SameRow, TypeOK
<1>12. /\ worker' \in [Workers -> WorkerState] /\ CallsInHand'
       /\ \A v \in Workers : worker'[v].phase \in Holding => worker'[v].job \in JobIds
  <2> DEFINE q == [worker[w] EXCEPT !.phase = "failing"]
  <2>1. worker[w] \in WorkerState
    BY <1>1, Types
  <2>2. q \in WorkerState /\ q.phase = "failing" /\ q.job = j
    BY <1>2, <2>1 DEF WorkerState, Holding
  <2>3. worker' = [worker EXCEPT ![w] = q]
    BY <1>4
  <2> HIDE DEF q
  <2> QED BY <1>1, <2>2, <2>3, WorkerMoves
<1>13. TypeOK'
  BY <1>1, <1>5, <1>9, <1>12 DEF TypeOK
<1>14. \A i \in JobIds : JobHolds(i)'
  BY <1>1, <1>10, <1>11, SameRowHolds
<1> QED BY <1>12, <1>13, <1>14 DEF Inductive

LEMMA PublishBatchHolds ==
  ASSUME Inductive, NEW w \in Workers, NEW saved \in 0 .. MaxBatchSize, PublishBatch(w, saved)
  PROVE  Inductive'
<1>1. TypeOK /\ CallsInHand /\ \A i \in JobIds : JobHolds(i)
  BY DEF Inductive
<1>2. PICK j \in JobIds : j = worker[w].job /\ status[j] = "running"
  BY <1>1, LeasedJob DEF PublishBatch
<1>3. PICK n \in CallIds : n = worker[w].call
  BY <1>1, CallInHand DEF PublishBatch
<1>4. PICK b : b = worker[w].batch
  OBVIOUS
<1>5. /\ calls[j][n].status = "dispatched" /\ calls[j][n].batch = b /\ batch[j] = b
  BY <1>2, <1>3, <1>4 DEF PublishBatch, Publishable
<1>6. /\ PlanOf(j) \in Plans /\ started[j] \in 0 .. MaxCalls /\ reviewed[j] \in Nat
      /\ errors[j] \in Nat /\ calls[j] \in [CallIds -> Call] /\ calls[j][n] \in Call
      /\ reviews[j] \in [BatchIds -> 0 .. MaxBatchSize] /\ batch[j] \in 1 .. MaxBatches + 1
      /\ PlanOf(j).last \in BatchIds /\ PlanOf(j).size \in [BatchIds -> Nat]
  BY <1>1, Types
<1>7. b \in BatchIds
  BY <1>5, <1>6, Bounds DEF Call, BatchIds
<1> DEFINE row == Finished(j, n, FALSE)
           size == PlanOf(j).size
           last == PlanOf(j).last
           done == reviewed[j] + saved
           wrong == errors[j] + (size[b] - saved)
           rv == [reviews[j] EXCEPT ![b] = reviews[j][b] + saved]
<1>8. /\ saved <= size[b] /\ calls' = [calls EXCEPT ![j] = row]
      /\ reviews' = [reviews EXCEPT ![j] = rv]
      /\ batch' = [batch EXCEPT ![j] = b + 1] /\ reviewed' = [reviewed EXCEPT ![j] = done]
      /\ errors' = [errors EXCEPT ![j] = wrong]
  BY <1>2, <1>3, <1>4 DEF PublishBatch, Missing
<1>9. \/ /\ b = last
         /\ status' = [status EXCEPT ![j] = TerminalStatus(Total(j), done, wrong)]
         /\ activeKey' = [activeKey EXCEPT ![j] = FALSE]
         /\ lease' = [lease EXCEPT ![j] = NoLease]
         /\ worker' = [worker EXCEPT ![w] = Idle]
      \/ /\ b # last
         /\ worker' = [worker EXCEPT ![w] = [phase |-> "ready", job |-> j,
              token |-> worker[w].token, batch |-> b + 1, call |-> 0, heard |-> FALSE]]
         /\ UNCHANGED <<status, activeKey, lease>>
  BY <1>2, <1>4 DEF PublishBatch, Missing, KeyAfterEnd
<1>10. UNCHANGED <<request, attempts, overdue, started, kept, maintainers, archived, config>>
  BY DEF PublishBatch, settingVars
<1>11. /\ row \in [CallIds -> Call] /\ row[n].status = "completed" /\ row[n].tools = FALSE
       /\ row[n].batch = calls[j][n].batch
       /\ \A i \in CallIds : i # n => row[i] = calls[j][i]
  BY <1>1, FinishedCall, Zenon
<1>12. JobInvariant(PlanOf(j), "running", activeKey[j], b, started[j], reviewed[j], errors[j],
                    calls[j], reviews[j])
  BY <1>1, <1>2, <1>5 DEF JobHolds
<1> HIDE DEF row, size, last, done, wrong, rv
<1>13. /\ size \in [BatchIds -> Nat] /\ last \in BatchIds
       /\ \A k \in BatchIds : size[k] <= MaxBatchSize
  <2>1. size \in [BatchIds -> 0 .. MaxBatchSize]
    BY <1>6, Bounds DEF size
  <2> QED BY <1>6, <2>1, Bounds DEF size, last
<1>14. Counted(size, b, reviewed[j], errors[j], reviews[j])
  BY <1>12 DEF JobInvariant, size
<1>15. rv \in [BatchIds -> 0 .. MaxBatchSize] /\ rv[b] = reviews[j][b] + saved
       /\ \A k \in BatchIds : k # b => rv[k] = reviews[j][k]
  <2>1. reviews[j][b] = 0
    BY <1>7, <1>14 DEF Counted, BatchIds
  <2>2. reviews[j][b] + saved \in 0 .. MaxBatchSize
    BY <2>1
  <2> QED BY <1>6, <1>7, <2>2 DEF rv
<1>16. Counted(size, b + 1, done, wrong, rv)
  <2>1. saved \in Nat /\ saved <= size[b]
    BY <1>8 DEF size
  <2>2. Counted(size, b + 1, reviewed[j] + saved, errors[j] + (size[b] - saved), rv)
    BY <1>6, <1>7, <1>13, <1>14, <1>15, <2>1, CountedOnce
  <2> QED BY <2>2 DEF done, wrong
<1>17. /\ JournalHolds(PlanOf(j), b + 1, started[j], row)
       /\ \A i \in CallIds : row[i].status \in {"absent", "completed"}
  <2>1. JournalHolds(PlanOf(j), b, started[j], calls[j])
    BY <1>12 DEF JobInvariant, JournalHolds
  <2>2. row[n].batch = b /\ ~row[n].tools
    BY <1>5, <1>11
  <2> QED BY <1>5, <1>6, <1>7, <1>11, <2>1, <2>2, JournalFinishes
<1>18. done \in Nat /\ wrong \in Nat
  BY <1>6, <1>7, <1>8, <1>13 DEF done, wrong
<1>19. /\ calls'[j] = row /\ reviews'[j] = rv /\ batch'[j] = b + 1 /\ reviewed'[j] = done
       /\ errors'[j] = wrong /\ started'[j] = started[j] /\ PlanOf(j)' = PlanOf(j)
  BY <1>1, <1>8, <1>10 DEF TypeOK, PlanOf
<1>20. Settled(PlanOf(j), status'[j], activeKey'[j], b + 1, wrong, row) /\ status'[j] # "absent"
  <2>1. b <= last /\ activeKey[j] = TRUE
    <3>1. b <= last
      BY <1>12 DEF JobInvariant, Settled, Active, last
    <3>2. activeKey[j] <=> TRUE
      BY <1>12 DEF JobInvariant, Settled, Active
    <3>3. activeKey[j] \in BOOLEAN
      BY <1>1 DEF TypeOK
    <3> QED BY <3>1, <3>2, <3>3
  <2>2. CASE /\ b = last
             /\ status' = [status EXCEPT ![j] = TerminalStatus(Total(j), done, wrong)]
             /\ activeKey' = [activeKey EXCEPT ![j] = FALSE]
    <3>1. status'[j] = TerminalStatus(Total(j), done, wrong) /\ activeKey'[j] = FALSE
      BY <1>1, <2>2 DEF TypeOK
    <3>2. /\ status'[j] \in {"completed", "partial", "failed"}
          /\ status'[j] = "completed" => wrong = 0
      BY <3>1 DEF TerminalStatus
    <3>3. b + 1 > PlanOf(j).last
      BY <1>7, <1>13, <2>2 DEF last, BatchIds
    <3> QED BY <1>17, <3>1, <3>2, <3>3 DEF Settled, Active, Terminal
  <2>3. CASE b # last /\ UNCHANGED <<status, activeKey>>
    <3>1. b + 1 <= PlanOf(j).last
      <4>1. b + 1 <= last
        BY <1>7, <1>13, <2>1, <2>3 DEF BatchIds
      <4> QED BY <4>1 DEF last
    <3>2. status'[j] = "running" /\ activeKey'[j] = TRUE
      BY <1>2, <2>1, <2>3
    <3> QED BY <3>1, <3>2 DEF Settled, Active, Terminal
  <2> QED BY <1>9, <2>2, <2>3
<1>21. JobHolds(j)'
  <2>1. Blank(status'[j], b + 1, started[j], done, wrong, rv)
    BY <1>20 DEF Blank
  <2>2. JobInvariant(PlanOf(j), status'[j], activeKey'[j], b + 1, started[j], done, wrong, row, rv)
    BY <1>16, <1>17, <1>20, <2>1 DEF JobInvariant, JournalHolds, size
  <2> QED BY <1>19, <2>2 DEF JobHolds
<1>22. \A i \in JobIds : i # j => SameRow(i)
  BY <1>1, <1>8, <1>9, <1>10 DEF SameRow, TypeOK
<1>23. \A i \in JobIds : JobHolds(i)'
  BY <1>1, <1>21, <1>22, SameRowHolds
<1>24. /\ worker' \in [Workers -> WorkerState] /\ CallsInHand'
       /\ \A v \in Workers : worker'[v].phase \in Holding => worker'[v].job \in JobIds
  <2>1. CASE worker' = [worker EXCEPT ![w] = Idle]
    BY <1>1, <2>1, WorkerRests
  <2> DEFINE q == [phase |-> "ready", job |-> j, token |-> worker[w].token, batch |-> b + 1,
                   call |-> 0, heard |-> FALSE]
  <2>2. CASE worker' = [worker EXCEPT ![w] = q]
    <3>1. worker[w].token \in 0 .. MaxAttempts
      BY <1>1, Types DEF WorkerState
    <3>2. b + 1 \in 0 .. MaxBatches + 1 /\ 0 \in 0 .. MaxCalls /\ j \in 0 .. MaxJobs
      BY <1>7, Bounds, LlmJobsAssumption DEF BatchIds, JobIds
    <3>3. q \in WorkerState
      BY <3>1, <3>2 DEF WorkerState, Holding, Running
    <3>4. q.phase = "ready" /\ q.job = j
      OBVIOUS
    <3> HIDE DEF q
    <3> QED BY <1>1, <2>2, <3>3, <3>4, WorkerMoves
  <2> QED BY <1>9, <2>1, <2>2
<1>25. /\ status' \in [JobIds -> {"absent"} \cup Active \cup Terminal]
       /\ activeKey' \in [JobIds -> BOOLEAN] /\ lease' \in [JobIds -> Lease]
  <2>1. TerminalStatus(Total(j), done, wrong) \in Terminal
    BY DEF TerminalStatus, Terminal
  <2> DEFINE end == TerminalStatus(Total(j), done, wrong)
  <2> HIDE DEF end
  <2>2. CASE /\ status' = [status EXCEPT ![j] = end]
             /\ activeKey' = [activeKey EXCEPT ![j] = FALSE]
             /\ lease' = [lease EXCEPT ![j] = NoLease]
    <3>1. end \in Terminal
      BY <2>1 DEF end
    <3> QED BY <1>1, <2>2, <3>1, Blanks DEF TypeOK
  <2>3. CASE UNCHANGED <<status, activeKey, lease>>
    BY <1>1, <2>3 DEF TypeOK
  <2> QED BY <1>9, <2>2, <2>3 DEF end
<1>26. /\ calls' \in [JobIds -> [CallIds -> Call]]
       /\ reviews' \in [JobIds -> [BatchIds -> 0 .. MaxBatchSize]]
       /\ batch' \in [JobIds -> 1 .. MaxBatches + 1]
       /\ reviewed' \in [JobIds -> Nat] /\ errors' \in [JobIds -> Nat]
  <2>1. b + 1 \in 1 .. MaxBatches + 1
    BY <1>7, Bounds DEF BatchIds
  <2> QED BY <1>1, <1>8, <1>11, <1>15, <1>18, <2>1 DEF TypeOK
<1>27. TypeOK'
  BY <1>1, <1>10, <1>24, <1>25, <1>26 DEF TypeOK
<1> QED BY <1>23, <1>24, <1>27 DEF Inductive

(***************************************************************************)
(* Theorems                                                                *)
(***************************************************************************)

LEMMA NextHolds == Inductive /\ [Next]_vars => Inductive'
BY QuietSteps, RequestReviewHolds, CancelReviewHolds, ClaimReviewHolds, StartCallHolds,
   CompleteToolTurnHolds, PublishBatchHolds, DiscardCallHolds, FailReviewHolds
   DEF Next, RunReview

LEMMA Invariance == Spec => []Inductive
<1>1. Init => Inductive
  BY InitHolds
<1>2. Inductive /\ [Next]_vars => Inductive'
  BY NextHolds
<1> QED BY <1>1, <1>2, PTL DEF Spec

LEMMA InductiveMeans == Inductive => ReviewJobInvariant
<1> SUFFICES ASSUME Inductive PROVE ReviewJobInvariant
  OBVIOUS
<1>1. TypeOK /\ \A j \in JobIds : JobHolds(j)
  BY DEF Inductive
<1>2. \A j \in JobIds : \A b :
                          /\ CallsOf(j, b) = CallsIn(calls[j], b)
                          /\ Published(j, b) = PublishedIn(calls[j], b)
  BY DEF CallsOf, CallsIn, Published, PublishedIn
<1>3. UnusedCallIsLast
  BY <1>1 DEF UnusedCallIsLast, Made, JobHolds, JobInvariant, InOrder
<1>4. SpendIsBounded
  <2> SUFFICES ASSUME NEW j \in JobIds
               PROVE  /\ Made(j) = 1 .. started[j]
                      /\ \A b \in BatchIds : Cardinality(CallsOf(j, b)) <= TurnsOf(PlanOf(j))
    BY DEF SpendIsBounded, TurnsOf
  <2>1. InOrder(batch[j], started[j], calls[j]) /\ WithinTurns(PlanOf(j), calls[j])
    BY <1>1 DEF JobHolds, JobInvariant
  <2>2. started[j] \in 0 .. MaxCalls
    BY <1>1, Types
  <2>3. Made(j) = 1 .. started[j]
    BY <2>1, <2>2, Bounds DEF Made, InOrder, CallIds
  <2> QED BY <1>2, <2>1, <2>3 DEF WithinTurns
<1>5. EndedCallsAreSettled /\ KeyIsExact
  BY <1>1 DEF EndedCallsAreSettled, KeyIsExact, JobHolds, JobInvariant, Settled
<1>6. BatchesArePublishedOnce
  <2> SUFFICES ASSUME NEW j \in JobIds
               PROVE  /\ \A k \in BatchIds :
                           Cardinality(Published(j, k)) = IF k < batch[j] THEN 1 ELSE 0
                      /\ \A k \in BatchIds : reviews[j][k] <= PlanOf(j).size[k]
                      /\ reviewed[j] = SumTo(reviews[j], MaxBatches)
                      /\ reviewed[j] + errors[j] = SumTo(PlanOf(j).size, batch[j] - 1)
    BY DEF BatchesArePublishedOnce
  <2>1. /\ OnePerBatch(batch[j], calls[j])
        /\ Counted(PlanOf(j).size, batch[j], reviewed[j], errors[j], reviews[j])
    BY <1>1 DEF JobHolds, JobInvariant
  <2>2. ASSUME NEW k \in BatchIds
        PROVE  Cardinality(Published(j, k)) = IF k < batch[j] THEN 1 ELSE 0
    <3>1. batch[j] \in 1 .. MaxBatches + 1
      BY <1>1, Types
    <3>2. CASE k < batch[j]
      <4>1. PICK m : PublishedIn(calls[j], k) = {m}
        BY <2>1, <3>2 DEF OnePerBatch
      <4> QED BY <1>2, <3>2, <4>1, FS_Singleton
    <3>3. CASE ~(k < batch[j])
      <4>1. PublishedIn(calls[j], k) = {}
        BY <2>1, <3>1, <3>3 DEF OnePerBatch, BatchIds
      <4> QED BY <1>2, <3>3, <4>1, FS_EmptySet
    <3> QED BY <3>2, <3>3
  <2> QED BY <2>1, <2>2 DEF Counted
<1>7. CompletedMeansAllReviewed
  <2> SUFFICES ASSUME NEW j \in JobIds, status[j] = "completed",
                      NEW b \in BatchIds, b <= PlanOf(j).last
               PROVE  reviews[j][b] = PlanOf(j).size[b]
    BY DEF CompletedMeansAllReviewed
  <2>1. errors[j] = 0 /\ PlanOf(j).last < batch[j]
    BY <1>1 DEF JobHolds, JobInvariant, Settled
  <2>2. b < batch[j]
    <3>1. PlanOf(j).last \in BatchIds /\ batch[j] \in 1 .. MaxBatches + 1
      BY <1>1, Types
    <3>2. \A x \in BatchIds, y \in 1 .. MaxBatches + 1 : b <= x /\ x < y => b < y
      BY Bounds DEF BatchIds
    <3> QED BY <2>1, <3>1, <3>2
  <2> QED BY <1>1, <2>1, <2>2 DEF JobHolds, JobInvariant, Counted
<1> QED BY <1>1, <1>3, <1>4, <1>5, <1>6, <1>7 DEF ReviewJobInvariant

\* The journal of calls tells the truth over every recovery: for any workers,
\* jobs, plans, budgets and interleavings of claims, lost leases, crashes and late
\* answers, no call follows one whose answer was lost, the provider budget
\* holds, every finding is reviewed and counted once and "completed" means all.
THEOREM ReviewsTellTheTruth == Spec => []ReviewJobInvariant
BY Invariance, InductiveMeans, PTL

\* What a step may do to job j once it ended: close an open call.
FinalRow(j) ==
  /\ status'[j] = status[j] /\ batch'[j] = batch[j]
  /\ reviews'[j] = reviews[j] /\ started'[j] = started[j]
  /\ reviewed'[j] = reviewed[j] /\ errors'[j] = errors[j]
  /\ \A n \in CallIds : calls'[j][n] # calls[j][n] => ~calls[j][n].closed /\ calls'[j][n].closed

\* What allows the program to send a call for job j or to publish a batch of it.
MayWork(j) ==
  /\ status[j] = "running" /\ ~overdue[j]
  /\ request[j].requester \in maintainers[Project(j)]
  /\ ~archived[Project(j)]
  /\ config = request[j].config

RightStep(j) ==
  /\ status[j] \in Terminal => FinalRow(j)
  /\ started'[j] # started[j] \/ reviews'[j] # reviews[j] => MayWork(j)

LEMMA QuietRow ==
  ASSUME NEW j \in JobIds, UNCHANGED <<status, progressVars>>
  PROVE  RightStep(j)
BY DEF RightStep, FinalRow, progressVars

\* A step that changes only rows which have not ended, and sends and publishes
\* nothing.
LEMMA OtherRow ==
  ASSUME NEW j \in JobIds, UNCHANGED <<batch, reviews, started, reviewed, errors>>,
         status[j] \in Terminal => status'[j] = status[j] /\ calls'[j] = calls[j]
  PROVE  RightStep(j)
BY DEF RightStep, FinalRow

LEMMA TerminatedRow ==
  ASSUME TypeOK, NEW j \in JobIds, NEW i \in JobIds, status[i] \in Active, NEW outcome,
         Terminate(i, outcome)
  PROVE  RightStep(j)
<1>1. UNCHANGED <<batch, reviews, started, reviewed, errors>>
  BY DEF Terminate
<1>2. status[j] \in Terminal => j # i
  BY DEF Active, Terminal
<1>3. j # i => status'[j] = status[j] /\ calls'[j] = calls[j]
  BY DEF Terminate, TypeOK
<1> QED BY <1>1, <1>2, <1>3, OtherRow

LEMMA WorkingRow ==
  ASSUME TypeOK, NEW j \in JobIds, NEW w \in Workers, LeaseHeld(w),
         j # worker[w].job =>
           /\ UNCHANGED <<status[j], batch[j], reviews[j], started[j], reviewed[j], errors[j]>>
           /\ calls'[j] = calls[j]
  PROVE  RightStep(j)
<1>1. CASE j = worker[w].job
  <2>1. MayWork(j)
    BY <1>1, LeasedJob DEF MayWork, Authorized, Configured
  <2>2. status[j] \notin Terminal
    BY <2>1 DEF MayWork, Terminal
  <2> QED BY <2>1, <2>2 DEF RightStep
<1>2. CASE j # worker[w].job
  BY <1>2 DEF RightStep, FinalRow
<1> QED BY <1>1, <1>2

LEMMA StepsAreRight ==
  ASSUME Inductive, [Next]_vars, NEW j \in JobIds
  PROVE  RightStep(j)
<1>1. TypeOK /\ CallsInHand
  BY DEF Inductive
<1>2. ASSUME NEW s \in Scans, NEW u \in Users, NEW plan \in Plans, RequestReview(s, u, plan)
      PROVE  RightStep(j)
  <2>1. PICK i \in JobIds : status[i] = "absent" /\ status' = [status EXCEPT ![i] = "pending"]
    BY <1>2 DEF RequestReview, NextRow
  <2>2. status[j] \in Terminal => status'[j] = status[j]
    BY <1>1, <2>1 DEF TypeOK, Terminal
  <2> QED BY <1>2, <2>2, OtherRow DEF RequestReview, progressVars
<1>3. ASSUME NEW i \in JobIds, NEW u \in Users, CancelReview(i, u) PROVE RightStep(j)
  BY <1>1, <1>3, TerminatedRow DEF CancelReview, Cancellable
<1>4. ASSUME NEW w \in Workers, ClaimReview(w) PROVE RightStep(j)
  <2>1. UNCHANGED <<batch, reviews, started, reviewed, errors>>
    BY <1>4 DEF ClaimReview
  <2>2. status[j] \in Terminal => ~Reached(j)
    BY DEF Reached, Eligible, Terminal
  <2>3. ~Reached(j) => status'[j] = status[j] /\ calls'[j] = calls[j]
    BY <1>4 DEF ClaimReview
  <2> QED BY <2>1, <2>2, <2>3, OtherRow
<1>5. ASSUME NEW w \in Workers, StartCall(w) PROVE RightStep(j)
  <2>1. LeaseHeld(w)
    BY <1>5 DEF StartCall
  <2>2. j # worker[w].job => started'[j] = started[j] /\ calls'[j] = calls[j]
    BY <1>1, <1>5 DEF StartCall, TypeOK
  <2> QED BY <1>1, <1>5, <2>1, <2>2, WorkingRow DEF StartCall, queueVars
<1>6. ASSUME NEW w \in Workers, CompleteToolTurn(w) PROVE RightStep(j)
  <2>1. LeaseHeld(w)
    BY <1>6 DEF CompleteToolTurn
  <2>2. j # worker[w].job => calls'[j] = calls[j]
    BY <1>1, <1>6 DEF CompleteToolTurn, TypeOK
  <2> QED BY <1>1, <1>6, <2>1, <2>2, WorkingRow DEF CompleteToolTurn, queueVars
<1>7. ASSUME NEW w \in Workers, NEW saved \in 0 .. MaxBatchSize, PublishBatch(w, saved)
      PROVE  RightStep(j)
  <2>1. LeaseHeld(w)
    BY <1>7 DEF PublishBatch
  <2>2. j # worker[w].job =>
          /\ UNCHANGED <<batch[j], reviews[j], reviewed[j], errors[j]>>
          /\ calls'[j] = calls[j]
    BY <1>1, <1>7 DEF PublishBatch, TypeOK
  <2>3. j # worker[w].job => status'[j] = status[j]
    BY <1>1, <1>7 DEF PublishBatch, TypeOK
  <2> QED BY <1>1, <1>7, <2>1, <2>2, <2>3, WorkingRow DEF PublishBatch
<1>8. ASSUME NEW w \in Workers, DiscardCall(w) PROVE RightStep(j)
  <2>1. PICK i \in JobIds : i = worker[w].job
    BY <1>1, <1>8, CallInHand DEF DiscardCall
  <2>2. PICK m \in CallIds : m = worker[w].call
    BY <1>1, <1>8, CallInHand DEF DiscardCall
  <2> DEFINE new == [calls[i][m] EXCEPT
                       !.status = IF worker[w].heard THEN "discarded" ELSE "unknown",
                       !.closed = TRUE]
  <2>3. \/ calls' = calls
        \/ ~calls[i][m].closed /\ calls' = [calls EXCEPT ![i] = [calls[i] EXCEPT ![m] = new]]
    BY <1>8, <2>1, <2>2 DEF DiscardCall
  <2>4. new.closed
    BY <1>1, Types DEF Call
  <2> HIDE DEF new
  <2>5. \A n \in CallIds :
          calls'[j][n] # calls[j][n] => ~calls[j][n].closed /\ calls'[j][n].closed
    <3>1. calls \in [JobIds -> [CallIds -> Call]] /\ calls[i] \in [CallIds -> Call]
      BY <1>1 DEF TypeOK
    <3>2. CASE calls' = calls
      BY <3>2
    <3>3. CASE ~calls[i][m].closed /\ calls' = [calls EXCEPT ![i] = [calls[i] EXCEPT ![m] = new]]
      <4>1. j # i => calls'[j] = calls[j]
        BY <3>1, <3>3
      <4>2. calls'[i][m] = new /\ \A n \in CallIds : n # m => calls'[i][n] = calls[i][n]
        BY <3>1, <3>3
      <4> QED BY <2>4, <3>3, <4>1, <4>2
    <3> QED BY <2>3, <3>2, <3>3
  <2>6. UNCHANGED <<status, batch, reviews, started, reviewed, errors>>
    BY <1>8 DEF DiscardCall, queueVars
  <2> QED BY <2>5, <2>6 DEF RightStep, FinalRow
<1>9. ASSUME NEW w \in Workers, FailReview(w) PROVE RightStep(j)
  <2>1. CASE MayFail(w) /\ Terminate(worker[w].job, EndOf(worker[w].job))
    <3>1. worker[w].job \in JobIds /\ status[worker[w].job] \in Active
      BY <1>1, <2>1 DEF MayFail, Leased, Active, TypeOK
    <3> QED BY <1>1, <2>1, <3>1, TerminatedRow
  <2>2. CASE UNCHANGED <<queueVars, progressVars>>
    BY <2>2, QuietRow DEF queueVars
  <2> QED BY <1>9, <2>1, <2>2 DEF FailReview
<1>10. ASSUME \/ \E w \in Workers : \/ HeartbeatReview(w) \/ ReceiveAnswer(w) \/ CrashWorker(w)
                                    \/ \E heard \in BOOLEAN : InterruptReview(w, heard)
              \/ Tick \/ \E i \in JobIds : DeadlinePasses(i) \/ ExpireInput(i)
              \/ Administer \/ UNCHANGED vars
       PROVE  RightStep(j)
  BY <1>10, QuietRow
     DEF HeartbeatReview, ReceiveAnswer, CrashWorker, InterruptReview, Tick, DeadlinePasses,
         ExpireInput, Administer, vars, queueVars
<1> QED BY <1>2, <1>3, <1>4, <1>5, <1>6, <1>7, <1>8, <1>9, <1>10 DEF Next, RunReview

\* Late work is refused: after the end of a job a worker may only append the
\* receipt of its own call, and no call is sent and no batch published late, for
\* a requester who lost the project or under another configuration.
THEOREM LateWork == Spec => LateWorkIsRefused
<1>1. Inductive /\ [Next]_vars =>
        [\A j \in JobIds : status[j] \in Terminal =>
           /\ status'[j] = status[j] /\ batch'[j] = batch[j]
           /\ reviews'[j] = reviews[j] /\ started'[j] = started[j]
           /\ reviewed'[j] = reviewed[j] /\ errors'[j] = errors[j]
           /\ \A n \in CallIds : calls'[j][n] # calls[j][n] =>
                ~calls[j][n].closed /\ calls'[j][n].closed]_vars
  BY StepsAreRight DEF RightStep, FinalRow
<1>2. Inductive /\ [Next]_vars =>
        [\A j \in JobIds :
           started'[j] # started[j] \/ reviews'[j] # reviews[j] =>
             /\ status[j] = "running" /\ ~overdue[j]
             /\ request[j].requester \in maintainers[Project(j)]
             /\ ~archived[Project(j)]
             /\ config = request[j].config]_vars
  BY StepsAreRight DEF RightStep, MayWork
<1>3. Spec => EndedIsFinal
  BY Invariance, <1>1, PTL DEF Spec, EndedIsFinal
<1>4. Spec => WorkIsAuthorized
  BY Invariance, <1>2, PTL DEF Spec, WorkIsAuthorized
<1> QED BY <1>3, <1>4 DEF LateWorkIsRefused

=============================================================================
