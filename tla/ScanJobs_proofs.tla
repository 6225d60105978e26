-------------------------- MODULE ScanJobs_proofs --------------------------
(***************************************************************************)
(* Proofs about ScanJobs for every number of workers, jobs, attempts and   *)
(* skips: types, fencing, the source a report is of, the agreement of the  *)
(* tables, and that the queue implements ScanContract.                     *)
(***************************************************************************)
EXTENDS ScanJobs, TLAPS

USE ScanJobsAssumption DEF JobIds

(***************************************************************************)
(* Types: each group of variables on its own, then together                *)
(***************************************************************************)

LEMMA WorkerUpdate ==
  ASSUME WorkerTypes, NEW w \in Workers, NEW state \in WorkerState,
         state.phase \in Holding => state.job \in JobIds,
         worker' = [worker EXCEPT ![w] = state]
  PROVE  WorkerTypes'
  BY DEF WorkerTypes

LEMMA PhaseUpdate ==
  ASSUME WorkerTypes, NEW w \in Workers, worker[w].phase \in Holding,
         NEW phase \in Holding, worker' = [worker EXCEPT ![w].phase = phase]
  PROVE  WorkerTypes'
  BY DEF WorkerTypes, WorkerState

LEMMA IdleUpdate ==
  ASSUME WorkerTypes, NEW w \in Workers, worker' = [worker EXCEPT ![w] = Idle]
  PROVE  WorkerTypes'
<1>1. Idle \in WorkerState /\ Idle.phase \notin Holding
  BY DEF Idle, WorkerState, Holding, Working
<1> QED BY <1>1, WorkerUpdate

LEMMA WorkerTypesStep == ASSUME TypeOK, [Next]_vars PROVE WorkerTypes'
<1> USE DEF TypeOK
<1>1. ASSUME NEW w \in Workers, ClaimScan(w) PROVE WorkerTypes'
  <2>1. CASE UNCHANGED worker
    BY <2>1 DEF WorkerTypes
  <2>2. ASSUME NEW j \in JobIds, ~Refused(j),
               worker' = [worker EXCEPT ![w] = ClaimedState(j)]
        PROVE  WorkerTypes'
    <3>1. FreshToken(j) \in 0 .. MaxAttempts
      BY <2>2 DEF Refused, FreshToken, QueueTypes
    <3>2. ClaimedState(j) \in WorkerState /\ ClaimedState(j).job = j
      BY <3>1 DEF ClaimedState, Snapshot, SourceTypes, WorkerState, Holding, Working
    <3> QED BY <2>2, <3>2, WorkerUpdate
  <2> QED BY <1>1, <2>1, <2>2 DEF ClaimScan
<1>2. ASSUME NEW w \in Workers, RunScan(w) PROVE WorkerTypes'
  <2>1. CASE StartScan(w)
    BY <2>1, PhaseUpdate DEF StartScan, Holding, Working
  <2>2. CASE PinCommit(w)
    <3>1. PICK c \in Resolved(w), content \in Contents :
             worker' = [worker EXCEPT ![w] =
               [phase |-> "store", job |-> worker[w].job,
                token |-> worker[w].token, commit |-> c,
                source |-> [commit |-> c, content |-> content],
                retryable |-> FALSE]]
      BY <2>2 DEF PinCommit
    <3>2. c \in Commits /\ worker[w].job \in JobIds
      BY <2>2, <3>1 DEF PinCommit, Resolved, WorkerTypes, WorkerState, Holding, Working
    <3> DEFINE state == [phase |-> "store", job |-> worker[w].job,
                token |-> worker[w].token, commit |-> c,
                source |-> [commit |-> c, content |-> content],
                retryable |-> FALSE]
    <3>3. state \in WorkerState /\ state.job \in JobIds
      BY <3>2 DEF WorkerTypes, WorkerState, Sources, Holding, Working
    <3> QED BY <3>1, <3>3, WorkerUpdate
  <2>3. CASE StoreSnapshot(w)
    BY <2>3, PhaseUpdate DEF StoreSnapshot, Holding, Working
  <2>4. CASE \E retryable \in BOOLEAN : InterruptScan(w, retryable)
    <3>1. PICK b \in BOOLEAN : worker' = [worker EXCEPT ![w] =
             [phase |-> "failing", job |-> worker[w].job,
              token |-> worker[w].token, commit |-> None, source |-> None,
              retryable |-> b]]
      BY <2>4 DEF InterruptScan
    <3> DEFINE state == [phase |-> "failing", job |-> worker[w].job,
              token |-> worker[w].token, commit |-> None, source |-> None,
              retryable |-> b]
    <3>2. state \in WorkerState /\ state.job \in JobIds
      BY <2>4 DEF InterruptScan, WorkerTypes, WorkerState, Holding, Working
    <3> QED BY <3>1, <3>2, WorkerUpdate
  <2> QED BY <1>2, <2>1, <2>2, <2>3, <2>4, IdleUpdate
       DEF RunScan, PublishScan, AbandonScan, FailScan
<1>3. ASSUME NEW w \in Workers, CrashWorker(w) PROVE WorkerTypes'
  BY <1>3, IdleUpdate DEF CrashWorker
<1>4. CASE UNCHANGED worker
  BY <1>4 DEF WorkerTypes
<1> QED
  BY <1>1, <1>2, <1>3, <1>4 DEF Next, vars, RequestScan, CheckRetry,
     EnqueueRetry, CancelScan, HeartbeatScan, Tick, BackoffElapses,
     ExpireSource, Administer

LEMMA EndTypes ==
  ASSUME QueueTypes, NEW j \in JobIds, NEW outcome \in Terminal,
         End(j, outcome), UNCHANGED request
  PROVE  QueueTypes'
  BY DEF QueueTypes, End, KeyAfterEnd, NoLease, Lease

LEMMA EnqueueTypes ==
  ASSUME TypeOK, NEW p \in Projects, NEW u \in Users,
         NEW c \in Commits \cup {None}, NEW o \in 0 .. MaxJobs,
         Enqueue(p, u, c, o)
  PROVE  QueueTypes' /\ SourceTypes'
<1>1. QueueTypes'
  BY DEF TypeOK, QueueTypes, ProjectTypes, Enqueue, Request, Active
<1>2. SourceTypes'
  BY DEF TypeOK, SourceTypes, Enqueue
<1> QED BY <1>1, <1>2

\* A retry request carries the commit of a job, or none is in flight.
LEMMA RetryTypes ==
  ASSUME TypeOK, NEW p \in Projects, retrying[p] # 0
  PROVE  /\ retrying[p] \in JobIds
         /\ commit[retrying[p]] \in Commits \cup {None}
  BY DEF TypeOK, ProjectTypes, SourceTypes

\* Each column of a claim, seen row by row.
LEMMA ClaimTypes ==
  ASSUME QueueTypes, NEW w \in Workers, ClaimScan(w) PROVE QueueTypes'
<1> DEFINE dropped == {j \in JobIds : Reached(j) /\ Refused(j)}
           given   == {j \in JobIds : Reached(j) /\ ~Refused(j)}
<1>1. \A j \in given : attempts[j] + 1 \in 0 .. MaxAttempts
  BY DEF QueueTypes, Refused
<1>2. /\ request' = request /\ due' = due
      /\ status' = [j \in JobIds |->
           CASE j \in dropped -> "failed" [] j \in given -> "running"
             [] OTHER -> status[j]]
      /\ scan' = [j \in JobIds |->
           CASE j \in dropped -> "failed" [] j \in given -> "running"
             [] OTHER -> scan[j]]
      /\ activeKey' = [j \in JobIds |->
           CASE j \in dropped -> FALSE [] j \in given -> activeKey[j]
             [] OTHER -> activeKey[j]]
      /\ attempts' = [j \in JobIds |->
           CASE j \in dropped -> attempts[j] [] j \in given -> attempts[j] + 1
             [] OTHER -> attempts[j]]
      /\ lease' = [j \in JobIds |->
           CASE j \in dropped -> NoLease
             [] j \in given -> [token |-> attempts[j] + 1, left |-> LeaseTicks]
             [] OTHER -> lease[j]]
  BY DEF ClaimScan, KeyAfterEnd, FreshToken
<1> HIDE DEF dropped, given
<1>3. status' \in [JobIds -> {"absent"} \cup Active \cup Terminal]
  BY <1>2 DEF QueueTypes, Active, Terminal, Reported
<1>4. scan' \in [JobIds -> {"absent", "pending", "running"} \cup Terminal]
  BY <1>2 DEF QueueTypes, Terminal, Reported
<1>5. activeKey' \in [JobIds -> BOOLEAN]
  BY <1>2 DEF QueueTypes
<1>6. attempts' \in [JobIds -> 0 .. MaxAttempts]
  BY <1>1, <1>2 DEF QueueTypes
<1>7. lease' \in [JobIds -> Lease]
  BY <1>1, <1>2 DEF QueueTypes, Lease, NoLease
<1> QED BY <1>2, <1>3, <1>4, <1>5, <1>6, <1>7 DEF QueueTypes

LEMMA QueueTypesStep == ASSUME TypeOK, [Next]_vars PROVE QueueTypes'
<1> USE DEF TypeOK
<1>1. ASSUME NEW p \in Projects, NEW u \in Users,
             RequestScan(p, u) \/ EnqueueRetry(p, u)
      PROVE  QueueTypes'
  <2>1. CASE RequestScan(p, u) BY <2>1, EnqueueTypes DEF RequestScan
  <2>2. CASE EnqueueRetry(p, u) /\ Enqueue(p, u, commit[retrying[p]], retrying[p])
    BY <2>2, RetryTypes, EnqueueTypes DEF EnqueueRetry
  <2>3. CASE UNCHANGED <<request, queueVars, sourceVars>>
    BY <2>3 DEF queueVars, QueueTypes
  <2> QED BY <1>1, <2>1, <2>2, <2>3 DEF EnqueueRetry
<1>2. ASSUME NEW j \in JobIds, NEW u \in Users, CancelScan(j, u)
      PROVE  QueueTypes'
  BY <1>2, EndTypes DEF CancelScan, Terminal
<1>3. ASSUME NEW w \in Workers, ClaimScan(w) PROVE QueueTypes'
  BY <1>3, ClaimTypes
<1>4. ASSUME NEW w \in Workers, HeartbeatScan(w) PROVE QueueTypes'
  <2>1. lease' \in [JobIds -> Lease]
    <3>1. worker[w].job \in JobIds /\ worker[w].token \in 0 .. MaxAttempts
      BY <1>4 DEF HeartbeatScan, WorkerTypes, WorkerState, Holding
    <3> QED BY <1>4, <3>1 DEF HeartbeatScan, QueueTypes, Lease
  <2> QED BY <1>4, <2>1 DEF HeartbeatScan, QueueTypes
<1>5. ASSUME NEW w \in Workers, RunScan(w) PROVE QueueTypes'
  <2>1. CASE UNCHANGED <<request, queueVars>>
    BY <2>1 DEF queueVars, QueueTypes
  <2> DEFINE mine == worker[w].job
  <2>5. worker[w].phase \in Holding => mine \in JobIds
    BY DEF WorkerTypes
  <2>2. ASSUME NEW health \in Reported, PublishScan(w, health)
        PROVE  QueueTypes'
    BY <2>2, <2>5, EndTypes DEF PublishScan, LeaseHeld, Leased, Terminal
  <2>3. ASSUME NEW j \in JobIds, Requeue(j), UNCHANGED request PROVE QueueTypes'
    BY <2>3 DEF Requeue, ScanAfterRequeue, NoLease, QueueTypes, Active, Lease
  <2>4. CASE FailScan(w)
    BY <2>1, <2>3, <2>4, <2>5, EndTypes DEF FailScan, Leased, Terminal, Reported
  <2>6. CASE StartScan(w) BY <2>1, <2>6 DEF StartScan
  <2>7. CASE PinCommit(w) BY <2>1, <2>7 DEF PinCommit
  <2>8. CASE StoreSnapshot(w) BY <2>1, <2>8 DEF StoreSnapshot
  <2>9. CASE AbandonScan(w) BY <2>1, <2>9 DEF AbandonScan
  <2>10. CASE \E b \in BOOLEAN : InterruptScan(w, b)
    BY <2>1, <2>10 DEF InterruptScan
  <2> QED BY <1>5, <2>2, <2>4, <2>6, <2>7, <2>8, <2>9, <2>10 DEF RunScan
<1>6. CASE Tick
  <2>1. \A j \in JobIds :
           [token |-> lease[j].token,
            left |-> IF lease[j].left > 0 THEN lease[j].left - 1 ELSE 0] \in Lease
    BY DEF QueueTypes, Lease
  <2>2. lease' \in [JobIds -> Lease]
    BY <1>6, <2>1 DEF Tick
  <2> QED BY <1>6, <2>2 DEF Tick, QueueTypes
<1>7. ASSUME NEW j \in JobIds, BackoffElapses(j) PROVE QueueTypes'
  BY <1>7 DEF BackoffElapses, QueueTypes
<1>8. CASE UNCHANGED <<request, queueVars>>
  BY <1>8 DEF queueVars, QueueTypes
<1> QED
  BY <1>1, <1>2, <1>3, <1>4, <1>5, <1>6, <1>7, <1>8 DEF Next, vars,
     CheckRetry, CrashWorker, ExpireSource, Administer

LEMMA SourceTypesStep == ASSUME TypeOK, [Next]_vars PROVE SourceTypes'
<1> USE DEF TypeOK
<1>1. ASSUME NEW p \in Projects, NEW u \in Users,
             RequestScan(p, u) \/ EnqueueRetry(p, u)
      PROVE  SourceTypes'
  <2>1. CASE RequestScan(p, u) BY <2>1, EnqueueTypes DEF RequestScan
  <2>2. CASE EnqueueRetry(p, u) /\ Enqueue(p, u, commit[retrying[p]], retrying[p])
    BY <2>2, RetryTypes, EnqueueTypes DEF EnqueueRetry
  <2>3. CASE UNCHANGED <<request, queueVars, sourceVars>>
    BY <2>3 DEF sourceVars, SourceTypes
  <2> QED BY <1>1, <2>1, <2>2, <2>3 DEF EnqueueRetry
<1>2. CASE UNCHANGED sourceVars
  BY <1>2 DEF sourceVars, SourceTypes
<1>3. ASSUME NEW w \in Workers, PinCommit(w) PROVE SourceTypes'
  <2>1. PICK c \in Resolved(w) : commit' = [commit EXCEPT ![worker[w].job] = c]
    BY <1>3 DEF PinCommit
  <2>2. c \in Commits /\ worker[w].job \in JobIds
    BY <1>3, <2>1 DEF PinCommit, Resolved, WorkerTypes, WorkerState, Holding, Working
  <2> QED BY <1>3, <2>1, <2>2 DEF PinCommit, SourceTypes
<1>4. ASSUME NEW w \in Workers, StoreSnapshot(w) PROVE SourceTypes'
  <2>1. worker[w].source \in Sources \cup {None} /\ worker[w].job \in JobIds
    BY <1>4 DEF StoreSnapshot, WorkerTypes, WorkerState, Holding, Working
  <2> QED BY <1>4, <2>1 DEF StoreSnapshot, SourceTypes
<1>5. ASSUME NEW w \in Workers, NEW health \in Reported, PublishScan(w, health)
      PROVE  SourceTypes'
  <2>1. worker[w].source \in Sources \cup {None} /\ worker[w].job \in JobIds
    BY <1>5 DEF PublishScan, WorkerTypes, WorkerState, Holding, Working
  <2> QED BY <1>5, <2>1 DEF PublishScan, SourceTypes
<1>6. ASSUME NEW j \in JobIds, ExpireSource(j) PROVE SourceTypes'
  BY <1>6 DEF ExpireSource, SourceTypes
<1> QED
  BY <1>1, <1>2, <1>3, <1>4, <1>5, <1>6 DEF Next, vars, RunScan, CheckRetry,
     CancelScan, ClaimScan, HeartbeatScan, StartScan, AbandonScan,
     InterruptScan, FailScan, CrashWorker, Tick, BackoffElapses, Administer

LEMMA ProjectTypesStep == ASSUME TypeOK, [Next]_vars PROVE ProjectTypes'
<1> USE DEF TypeOK, ProjectTypes
<1>1. ASSUME NEW j \in JobIds, CheckRetry(j) PROVE ProjectTypes'
  <2>1. request[j].project \in Projects
    BY DEF QueueTypes, Request
  <2> QED BY <1>1, <2>1 DEF CheckRetry, projectVars
<1>2. ASSUME NEW p \in Projects, NEW u \in Users, EnqueueRetry(p, u)
      PROVE  ProjectTypes'
  BY <1>2 DEF EnqueueRetry, projectVars
<1>3. ASSUME NEW p \in Projects, Administer(p) PROVE ProjectTypes'
  BY <1>3 DEF Administer
<1>4. CASE UNCHANGED <<projectVars, retrying>>
  BY <1>4 DEF projectVars
<1>5. ASSUME NEW w \in Workers, RunScan(w)
      PROVE  UNCHANGED <<projectVars, retrying>>
  <2>1. CASE \E health \in Reported : PublishScan(w, health)
    BY <2>1 DEF PublishScan
  <2>2. CASE \E retryable \in BOOLEAN : InterruptScan(w, retryable)
    BY <2>2 DEF InterruptScan
  <2>3. CASE StartScan(w) \/ PinCommit(w) \/ StoreSnapshot(w)
    BY <2>3 DEF StartScan, PinCommit, StoreSnapshot
  <2>4. CASE AbandonScan(w) \/ FailScan(w)
    BY <2>4 DEF AbandonScan, FailScan
  <2> QED BY <1>5, <2>1, <2>2, <2>3, <2>4 DEF RunScan
<1>6. ASSUME NEW w \in Workers, ClaimScan(w) \/ HeartbeatScan(w) \/ CrashWorker(w)
      PROVE  UNCHANGED <<projectVars, retrying>>
  BY <1>6 DEF ClaimScan, HeartbeatScan, CrashWorker
<1>7. ASSUME NEW p \in Projects, NEW u \in Users, RequestScan(p, u)
      PROVE  UNCHANGED <<projectVars, retrying>>
  BY <1>7 DEF RequestScan
<1>8. ASSUME NEW j \in JobIds, NEW u \in Users, CancelScan(j, u)
      PROVE  UNCHANGED <<projectVars, retrying>>
  BY <1>8 DEF CancelScan
<1>9. CASE Tick \/ (\E j \in JobIds : BackoffElapses(j) \/ ExpireSource(j))
  <2>1. UNCHANGED <<projectVars, retrying>>
    BY <1>9 DEF Tick, BackoffElapses, ExpireSource
  <2> QED BY <2>1, <1>4
<1>10. CASE UNCHANGED vars
  BY <1>10, <1>4 DEF vars
<1> QED
  BY <1>1, <1>2, <1>3, <1>4, <1>5, <1>6, <1>7, <1>8, <1>9, <1>10 DEF Next

LEMMA InitTypes == Init => TypeOK
<1> SUFFICES ASSUME Init PROVE TypeOK
  OBVIOUS
<1>1. QueueTypes
  BY DEF Init, QueueTypes, Request, NoLease, Lease
<1>2. SourceTypes
  BY DEF Init, SourceTypes
<1>3. WorkerTypes
  BY DEF Init, WorkerTypes, WorkerState, Idle, Holding, Working
<1>4. ProjectTypes
  BY DEF Init, ProjectTypes
<1> QED BY <1>1, <1>2, <1>3, <1>4 DEF TypeOK

\* Every variable keeps its type: in particular no job is ever attempted more
\* than MaxAttempts times and every held job exists.
THEOREM TypeCorrect == Spec => []TypeOK
<1>1. TypeOK /\ [Next]_vars => TypeOK'
  BY QueueTypesStep, SourceTypesStep, WorkerTypesStep, ProjectTypesStep DEF TypeOK
<1> QED BY InitTypes, <1>1, PTL DEF Spec

(***************************************************************************)
(* Fencing: tokens                                                         *)
(***************************************************************************)

\* What a claim does to one row: it fails it, starts it or leaves it alone.
LEMMA ClaimedRow ==
  ASSUME TypeOK, NEW w \in Workers, ClaimScan(w), NEW j \in JobIds
  PROVE  \/ /\ Eligible(j) /\ status'[j] = "failed"
            /\ lease'[j] = NoLease /\ attempts'[j] = attempts[j]
         \/ /\ Eligible(j) /\ status'[j] = "running"
            /\ lease'[j].token = attempts[j] + 1
            /\ attempts'[j] = attempts[j] + 1
         \/ /\ status'[j] = status[j]
            /\ lease'[j] = lease[j] /\ attempts'[j] = attempts[j]
<1> DEFINE dropped == {i \in JobIds : Reached(i) /\ Refused(i)}
           given   == {i \in JobIds : Reached(i) /\ ~Refused(i)}
<1>1. /\ status'[j] = CASE j \in dropped -> "failed" [] j \in given -> "running"
                        [] OTHER -> status[j]
      /\ attempts'[j] = CASE j \in dropped -> attempts[j]
                          [] j \in given -> attempts[j] + 1
                          [] OTHER -> attempts[j]
      /\ lease'[j] = CASE j \in dropped -> NoLease
            [] j \in given -> [token |-> attempts[j] + 1, left |-> LeaseTicks]
            [] OTHER -> lease[j]
  BY DEF ClaimScan, FreshToken
<1>2. j \in dropped \cup given => Eligible(j)
  BY DEF Reached
<1>3. dropped \cap given = {}
  OBVIOUS
<1> HIDE DEF dropped, given
<1> QED BY <1>1, <1>2, <1>3

\* What a claim gives its worker, if anything.
LEMMA ClaimedWorker ==
  ASSUME TypeOK, NEW w \in Workers, ClaimScan(w)
  PROVE  \/ UNCHANGED worker
         \/ \E j \in JobIds :
              /\ Eligible(j) /\ worker' = [worker EXCEPT ![w] = ClaimedState(j)]
              /\ status'[j] = "running" /\ lease'[j].token = attempts[j] + 1
              /\ attempts'[j] = attempts[j] + 1
<1>1. ASSUME NEW j \in JobIds, Reached(j), ~Refused(j)
      PROVE  /\ Eligible(j) /\ status'[j] = "running"
             /\ lease'[j].token = attempts[j] + 1
             /\ attempts'[j] = attempts[j] + 1
  BY <1>1 DEF ClaimScan, Reached, FreshToken
<1>2. UNCHANGED worker \/ \E j \in JobIds : Reached(j) /\ ~Refused(j)
         /\ worker' = [worker EXCEPT ![w] = ClaimedState(j)]
  BY DEF ClaimScan
<1> QED BY <1>1, <1>2

LEMMA RowTokensStep ==
  ASSUME FencingInvariant, [Next]_vars PROVE RowTokens'
<1> USE DEF FencingInvariant, RowTokens
<1>t. \A j \in JobIds : attempts[j] \in Nat /\ lease[j].token \in Nat
  BY DEF TypeOK, QueueTypes, Lease
<1>1. ASSUME NEW p \in Projects, NEW u \in Users, NEW c, NEW o,
             Enqueue(p, u, c, o)
      PROVE  RowTokens'
  BY <1>1 DEF Enqueue, NextRow, TypeOK, QueueTypes
<1>2. ASSUME NEW j \in JobIds, NEW outcome \in Terminal, End(j, outcome)
      PROVE  RowTokens'
  BY <1>2, <1>t DEF End, NoLease, Terminal, Reported, TypeOK, QueueTypes
<1>3. ASSUME NEW w \in Workers, ClaimScan(w) PROVE RowTokens'
  BY <1>3, <1>t, ClaimedRow DEF NoLease
<1>4. ASSUME NEW w \in Workers, HeartbeatScan(w) PROVE RowTokens'
  BY <1>4 DEF HeartbeatScan, LeaseHeld, Leased, TypeOK, QueueTypes, WorkerTypes
<1>5. ASSUME NEW j \in JobIds, Requeue(j) PROVE RowTokens'
  BY <1>5, <1>t DEF Requeue, NoLease, TypeOK, QueueTypes
<1>6. CASE Tick
  BY <1>6 DEF Tick
<1>7. CASE UNCHANGED <<status, attempts, lease>>
  BY <1>7
<1>8. ASSUME NEW w \in Workers, RunScan(w) PROVE RowTokens'
  <2>1. CASE \E health \in Reported : PublishScan(w, health)
    <3>1. worker[w].job \in JobIds
      BY <2>1 DEF PublishScan, LeaseHeld, Leased, TypeOK, WorkerTypes
    <3> QED BY <2>1, <3>1, <1>2 DEF PublishScan, Terminal
  <2>2. CASE FailScan(w)
    <3>1. worker[w].job \in JobIds
      BY <2>2 DEF FailScan, TypeOK, WorkerTypes, Holding
    <3> QED BY <2>2, <3>1, <1>2, <1>5, <1>7 DEF FailScan, Terminal, Reported, queueVars
  <2>3. CASE StartScan(w) \/ PinCommit(w) \/ StoreSnapshot(w) \/ AbandonScan(w)
    BY <2>3, <1>7 DEF StartScan, PinCommit, StoreSnapshot, AbandonScan, queueVars
  <2>4. CASE \E b \in BOOLEAN : InterruptScan(w, b)
    BY <2>4, <1>7 DEF InterruptScan, queueVars
  <2> QED BY <1>8, <2>1, <2>2, <2>3, <2>4 DEF RunScan
<1>9. ASSUME NEW p \in Projects, NEW u \in Users,
             RequestScan(p, u) \/ EnqueueRetry(p, u)
      PROVE  RowTokens'
  BY <1>9, <1>1, <1>7 DEF RequestScan, EnqueueRetry, queueVars
<1>10. ASSUME NEW j \in JobIds, NEW u \in Users, CancelScan(j, u)
       PROVE  RowTokens'
  BY <1>10, <1>2 DEF CancelScan, Terminal
<1>11. CASE \/ \E j \in JobIds : CheckRetry(j) \/ BackoffElapses(j) \/ ExpireSource(j)
            \/ \E w \in Workers : CrashWorker(w)
            \/ \E p \in Projects : Administer(p)
            \/ UNCHANGED vars
  BY <1>11, <1>7 DEF CheckRetry, BackoffElapses, ExpireSource, CrashWorker,
     Administer, queueVars, vars
<1> QED BY <1>3, <1>4, <1>6, <1>8, <1>9, <1>10, <1>11 DEF Next

\* Worker w keeps what it holds of its job and every other worker keeps its
\* state, or w holds nothing afterwards.
Narrowed(w) ==
  /\ \A v \in Workers : v # w => worker'[v] = worker[v]
  /\ worker'[w].phase \in Holding =>
       /\ worker[w].phase \in Holding
       /\ worker'[w].job = worker[w].job /\ worker'[w].token = worker[w].token

LEMMA RunNarrows ==
  ASSUME TypeOK, NEW w \in Workers, RunScan(w) \/ CrashWorker(w)
  PROVE  Narrowed(w)
<1>t. worker \in [Workers -> WorkerState]
  BY DEF TypeOK, WorkerTypes
<1>0. CASE worker' = [worker EXCEPT ![w] = Idle]
  BY <1>0, <1>t DEF Narrowed, Idle, Holding, Working
<1>1. CASE StartScan(w)
  <2>1. PICK phase \in {"scan", "fetch"} :
           worker' = [worker EXCEPT ![w].phase = phase]
    BY <1>1 DEF StartScan
  <2> QED BY <1>1, <2>1, <1>t DEF StartScan, Narrowed, Holding, Working, WorkerState
<1>2. CASE PinCommit(w)
  <2>1. PICK c, content : worker' = [worker EXCEPT ![w] =
               [phase |-> "store", job |-> worker[w].job,
                token |-> worker[w].token, commit |-> c,
                source |-> [commit |-> c, content |-> content],
                retryable |-> FALSE]]
    BY <1>2 DEF PinCommit
  <2> QED BY <1>2, <2>1, <1>t DEF PinCommit, Narrowed, Holding, Working
<1>3. CASE StoreSnapshot(w)
  BY <1>3, <1>t DEF StoreSnapshot, Narrowed, Holding, Working, WorkerState
<1>4. CASE \E b \in BOOLEAN : InterruptScan(w, b)
  <2>1. PICK b : worker' = [worker EXCEPT ![w] =
             [phase |-> "failing", job |-> worker[w].job,
              token |-> worker[w].token, commit |-> None, source |-> None,
              retryable |-> b]]
    BY <1>4 DEF InterruptScan
  <2> QED BY <1>4, <2>1, <1>t DEF InterruptScan, Narrowed, Holding, Working
<1>5. CASE \E health \in Reported : PublishScan(w, health)
  BY <1>5, <1>0 DEF PublishScan
<1> QED BY <1>0, <1>1, <1>2, <1>3, <1>4, <1>5
     DEF RunScan, AbandonScan, FailScan, CrashWorker

LEMMA NarrowedTokens ==
  ASSUME TokensAreUnique, NEW w \in Workers, Narrowed(w), UNCHANGED attempts
  PROVE  TokensAreUnique'
BY DEF TokensAreUnique, Narrowed

LEMMA TokensStep ==
  ASSUME FencingInvariant, [Next]_vars PROVE TokensAreUnique'
<1> USE DEF FencingInvariant
<1>1. ASSUME NEW w \in Workers, ClaimScan(w) PROVE TokensAreUnique'
  <2>t. /\ worker \in [Workers -> WorkerState]
        /\ \A v \in Workers : worker[v].phase \in Holding =>
             worker[v].job \in JobIds
        /\ \A j \in JobIds : attempts[j] \in Nat
    BY DEF TypeOK, QueueTypes, WorkerTypes
  <2>1. \A j \in JobIds : attempts'[j] \in {attempts[j], attempts[j] + 1}
    BY <1>1, ClaimedRow
  <2>2. CASE UNCHANGED worker
    BY <2>t, <2>1, <2>2 DEF TokensAreUnique
  <2>3. ASSUME NEW j \in JobIds, attempts'[j] = attempts[j] + 1,
               worker' = [worker EXCEPT ![w] = ClaimedState(j)]
        PROVE  TokensAreUnique'
    <3>1. /\ worker'[w].job = j /\ worker'[w].token = attempts[j] + 1
          /\ \A v \in Workers : v # w => worker'[v] = worker[v]
      BY <2>t, <2>3 DEF ClaimedState, FreshToken
    <3>2. ASSUME NEW v \in Workers, worker'[v].phase \in Holding
          PROVE  worker'[v].token \in 1 .. attempts'[worker'[v].job]
      BY <2>t, <2>1, <2>3, <3>1, <3>2 DEF TokensAreUnique
    <3>3. ASSUME NEW v \in Workers, v # w, worker'[v].phase \in Holding,
                 worker'[v].job = j
          PROVE  worker'[v].token < attempts[j] + 1
      BY <2>t, <3>1, <3>3 DEF TokensAreUnique
    <3>4. ASSUME NEW u \in Workers, NEW v \in Workers,
                 worker'[u].phase \in Holding, worker'[v].phase \in Holding,
                 worker'[u].job = worker'[v].job,
                 worker'[u].token = worker'[v].token
          PROVE  u = v
      <4>1. CASE u # w /\ v # w
        BY <3>1, <3>4, <4>1 DEF TokensAreUnique
      <4>2. CASE u = w \/ v = w
        BY <2>t, <3>1, <3>3, <3>4, <4>2
      <4> QED BY <4>1, <4>2
    <3> QED BY <3>2, <3>4 DEF TokensAreUnique
  <2> QED BY <1>1, <2>2, <2>3, ClaimedWorker
<1>2. ASSUME NEW w \in Workers, RunScan(w) PROVE TokensAreUnique'
  <2>1. UNCHANGED attempts
    <3>1. CASE \E health \in Reported : PublishScan(w, health)
      BY <3>1 DEF PublishScan, End
    <3>2. CASE FailScan(w)
      BY <3>2 DEF FailScan, End, Requeue, queueVars
    <3>3. CASE \/ StartScan(w) \/ PinCommit(w) \/ StoreSnapshot(w)
               \/ AbandonScan(w) \/ \E b \in BOOLEAN : InterruptScan(w, b)
      BY <3>3 DEF StartScan, PinCommit, StoreSnapshot, AbandonScan,
         InterruptScan, queueVars
    <3> QED BY <1>2, <3>1, <3>2, <3>3 DEF RunScan
  <2> QED BY <1>2, <2>1, RunNarrows, NarrowedTokens
<1>3. ASSUME NEW w \in Workers, CrashWorker(w) PROVE TokensAreUnique'
  BY <1>3, RunNarrows, NarrowedTokens DEF CrashWorker, queueVars
<1>4. CASE UNCHANGED <<worker, attempts>>
  BY <1>4 DEF TokensAreUnique
<1>5. ASSUME NEW p \in Projects, NEW u \in Users,
             RequestScan(p, u) \/ EnqueueRetry(p, u)
      PROVE  UNCHANGED <<worker, attempts>>
  BY <1>5 DEF RequestScan, EnqueueRetry, Enqueue, queueVars
<1>6. CASE \/ \E j \in JobIds : CheckRetry(j) \/ BackoffElapses(j) \/ ExpireSource(j)
           \/ \E j \in JobIds, u \in Users : CancelScan(j, u)
           \/ \E w \in Workers : HeartbeatScan(w)
           \/ \E p \in Projects : Administer(p)
           \/ Tick \/ UNCHANGED vars
  BY <1>4, <1>6 DEF CheckRetry, BackoffElapses, ExpireSource, CancelScan, End,
     HeartbeatScan, Administer, Tick, queueVars, vars
<1> QED BY <1>1, <1>2, <1>3, <1>4, <1>5, <1>6 DEF Next

(***************************************************************************)
(* The source: what a row keeps and what its last claimer holds            *)
(***************************************************************************)

\* At the head of a worker's transaction: its job is a running row, and its
\* copies are those of the last claimer.
LEMMA HolderFacts ==
  ASSUME FencingInvariant, NEW w \in Workers, Leased(w)
  PROVE  /\ worker[w].job \in JobIds /\ status[worker[w].job] = "running"
         /\ Holds(w)
BY DEF FencingInvariant, TypeOK, WorkerTypes, Leased, Holds

\* No other worker holds the job worker w holds.
LEMMA OneHolder ==
  ASSUME FencingInvariant, NEW v \in Workers, NEW w \in Workers,
         Holds(v), Holds(w), worker[v].job = worker[w].job
  PROVE  v = w
BY DEF FencingInvariant, TokensAreUnique, Holds

LEMMA RowsStep ==
  ASSUME FencingInvariant, [Next]_vars PROVE RowsAreConsistent'
<1> USE DEF FencingInvariant
<1>0. CASE UNCHANGED <<status, sourceVars>>
  BY <1>0 DEF RowsAreConsistent, sourceVars
<1>1. ASSUME NEW p \in Projects, NEW u \in Users, NEW c, NEW o,
             Enqueue(p, u, c, o)
      PROVE  RowsAreConsistent'
  <2>1. PICK j \in JobIds : /\ status[j] = "absent"
                            /\ status' = [status EXCEPT ![j] = "queued"]
                            /\ commit' = [commit EXCEPT ![j] = c]
    BY <1>1 DEF Enqueue, NextRow
  <2>2. UNCHANGED <<source, stored, result>>
    BY <1>1 DEF Enqueue
  <2> QED BY <2>1, <2>2 DEF RowsAreConsistent, TypeOK, QueueTypes, SourceTypes,
          Active, Terminal, Reported
<1>2. ASSUME NEW j \in JobIds, NEW outcome \in Terminal, End(j, outcome),
             UNCHANGED sourceVars
      PROVE  RowsAreConsistent'
  BY <1>2 DEF End, sourceVars, RowsAreConsistent, TypeOK, QueueTypes, Active,
     Terminal, Reported
<1>3. ASSUME NEW w \in Workers, ClaimScan(w) PROVE RowsAreConsistent'
  <2>1. \A j \in JobIds :
           \/ status'[j] = status[j]
           \/ status[j] \in Active /\ status'[j] \in {"failed", "running"}
    <3>1. \A j \in JobIds : Eligible(j) => status[j] \in Active
      BY DEF Eligible, Active
    <3>2. ASSUME NEW j \in JobIds
          PROVE  \/ status'[j] = status[j]
                 \/ Eligible(j) /\ status'[j] \in {"failed", "running"}
      BY <1>3, ClaimedRow
    <3> QED BY <3>1, <3>2
  <2>2. UNCHANGED sourceVars
    BY <1>3 DEF ClaimScan
  <2> QED BY <2>1, <2>2 DEF RowsAreConsistent, sourceVars, Active, Terminal,
          Reported
<1>4. ASSUME NEW j \in JobIds, Requeue(j), status[j] = "running",
             UNCHANGED sourceVars
      PROVE  RowsAreConsistent'
  BY <1>4 DEF Requeue, sourceVars, RowsAreConsistent, TypeOK, QueueTypes,
     Active, Terminal, Reported
<1>5. ASSUME NEW w \in Workers, PinCommit(w) PROVE RowsAreConsistent'
  <2> DEFINE j == worker[w].job
  <2>1. j \in JobIds /\ Holds(w) /\ source[j] = None
    BY <1>5, HolderFacts DEF PinCommit, LeaseHeld, CopiesAreCurrent
  <2>2. status[j] = "running" /\ result[j] = None
    BY <2>1 DEF Holds, RowsAreConsistent, Terminal, Reported
  <2>3. PICK c : commit' = [commit EXCEPT ![j] = c]
    BY <1>5 DEF PinCommit
  <2>4. UNCHANGED <<status, source, stored, result>>
    BY <1>5 DEF PinCommit, queueVars
  <2> QED BY <2>1, <2>2, <2>3, <2>4 DEF RowsAreConsistent, TypeOK, SourceTypes
<1>6. ASSUME NEW w \in Workers, StoreSnapshot(w) PROVE RowsAreConsistent'
  <2> DEFINE j == worker[w].job
  <2>1. /\ j \in JobIds /\ status[j] = "running"
        /\ worker[w].source # None /\ worker[w].source.commit = commit[j]
    BY <1>6, HolderFacts DEF StoreSnapshot, LeaseHeld, CopiesAreCurrent
  <2>2. result[j] = None
    BY <2>1 DEF RowsAreConsistent, Terminal, Reported
  <2>3. /\ source' = [source EXCEPT ![j] = worker[w].source]
        /\ stored' = [stored EXCEPT ![j] = TRUE]
        /\ UNCHANGED <<status, commit, result>>
    BY <1>6 DEF StoreSnapshot, queueVars
  <2> QED BY <2>1, <2>2, <2>3 DEF RowsAreConsistent, TypeOK, SourceTypes
<1>7. ASSUME NEW w \in Workers, NEW health \in Reported, PublishScan(w, health)
      PROVE  RowsAreConsistent'
  <2> DEFINE j == worker[w].job
  <2>1. /\ j \in JobIds /\ status[j] = "running" /\ worker[w].source = source[j]
    BY <1>7, HolderFacts DEF PublishScan, LeaseHeld, CopiesAreCurrent
  <2>2. /\ status' = [status EXCEPT ![j] = health]
        /\ result' = [result EXCEPT ![j] = source[j]]
        /\ UNCHANGED <<commit, source, stored>>
    BY <1>7, <2>1 DEF PublishScan, End
  <2> QED BY <2>1, <2>2 DEF RowsAreConsistent, TypeOK, QueueTypes, SourceTypes,
          Active, Terminal, Reported
<1>8. ASSUME NEW w \in Workers, FailScan(w) PROVE RowsAreConsistent'
  <2>1. UNCHANGED sourceVars
    BY <1>8 DEF FailScan
  <2>2. Leased(w) => worker[w].job \in JobIds /\ status[worker[w].job] = "running"
    BY HolderFacts
  <2> QED BY <1>8, <1>0, <1>2, <1>4, <2>1, <2>2
          DEF FailScan, queueVars, Terminal, Reported
<1>9. ASSUME NEW j \in JobIds, ExpireSource(j) PROVE RowsAreConsistent'
  BY <1>9 DEF ExpireSource, queueVars, RowsAreConsistent, Active, Terminal,
     Reported, TypeOK, SourceTypes
<1>10. ASSUME NEW w \in Workers,
              StartScan(w) \/ AbandonScan(w) \/ \E b \in BOOLEAN : InterruptScan(w, b)
       PROVE  RowsAreConsistent'
  BY <1>0, <1>10 DEF StartScan, AbandonScan, InterruptScan, queueVars
<1>11. ASSUME NEW p \in Projects, NEW u \in Users,
              RequestScan(p, u) \/ EnqueueRetry(p, u)
       PROVE  RowsAreConsistent'
  BY <1>0, <1>1, <1>11 DEF RequestScan, EnqueueRetry, queueVars
<1>12. ASSUME NEW j \in JobIds, NEW u \in Users, CancelScan(j, u)
       PROVE  RowsAreConsistent'
  BY <1>2, <1>12 DEF CancelScan, Terminal
<1>13. CASE \/ \E j \in JobIds : CheckRetry(j) \/ BackoffElapses(j)
            \/ \E w \in Workers : HeartbeatScan(w) \/ CrashWorker(w)
            \/ \E p \in Projects : Administer(p)
            \/ Tick \/ UNCHANGED vars
  BY <1>0, <1>13 DEF CheckRetry, BackoffElapses, HeartbeatScan, CrashWorker,
     Administer, Tick, queueVars, vars
<1> QED BY <1>3, <1>5, <1>6, <1>7, <1>8, <1>9, <1>10, <1>11, <1>12, <1>13
        DEF Next, RunScan

\* A claim makes its worker the holder of a row; the holders of all other rows
\* keep them.
LEMMA ClaimKeepsCopies ==
  ASSUME FencingInvariant, NEW w \in Workers, ClaimScan(w)
  PROVE  CopiesAreCurrent'
<1> USE DEF FencingInvariant
<1>t. worker \in [Workers -> WorkerState]
  BY DEF TypeOK, WorkerTypes
<1>u. UNCHANGED <<commit, source>>
  BY DEF ClaimScan, sourceVars
<1>1. ASSUME NEW v \in Workers, worker'[v] = worker[v], Holds(v)'
      PROVE  Holds(v)
  <2> DEFINE j == worker[v].job
  <2>1. j \in JobIds /\ worker[v].token \in 1 .. attempts[j] /\ attempts[j] \in Nat
    BY <1>1 DEF Holds, TypeOK, QueueTypes, WorkerTypes, TokensAreUnique
  <2>2. lease'[j].token # attempts[j] + 1 /\ status'[j] = "running"
    BY <1>1, <2>1 DEF Holds
  <2>3. status'[j] = status[j] /\ lease'[j] = lease[j]
    BY <2>1, <2>2, ClaimedRow
  <2> QED BY <1>1, <2>3 DEF Holds
<1>2. CASE UNCHANGED worker
  BY <1>1, <1>2, <1>u DEF CopiesAreCurrent, Holds
<1>3. ASSUME NEW j \in JobIds, Eligible(j),
             worker' = [worker EXCEPT ![w] = ClaimedState(j)]
      PROVE  CopiesAreCurrent'
  <2>1. worker'[w] = ClaimedState(j) /\ \A v \in Workers : v # w => worker'[v] = worker[v]
    BY <1>3, <1>t
  <2>2. Snapshot(j) = source[j]
    <3>1. stored[j] <=> source[j] # None
      BY <1>3 DEF Eligible, RowsAreConsistent, Active
    <3> QED BY <3>1 DEF Snapshot
  <2>3. /\ worker'[w].phase = "claimed" /\ worker'[w].job = j
        /\ worker'[w].commit = commit[j] /\ worker'[w].source = source[j]
    BY <2>1, <2>2 DEF ClaimedState
  <2> QED BY <1>1, <1>u, <2>1, <2>3 DEF CopiesAreCurrent, Holds
<1> QED BY <1>2, <1>3, ClaimedWorker

\* A transaction of the holder of job j changes the copies of no other holder.
LEMMA HolderKeepsCopies ==
  ASSUME FencingInvariant, NEW w \in Workers, Holds(w), UNCHANGED <<status, lease>>,
         \A v \in Workers : v # w => worker'[v] = worker[v],
         \A j \in JobIds : j # worker[w].job =>
           commit'[j] = commit[j] /\ source'[j] = source[j],
         NEW v \in Workers, v # w, Holds(v)'
  PROVE  /\ Holds(v) /\ worker'[v] = worker[v]
         /\ worker[v].job \in JobIds /\ worker[v].job # worker[w].job
BY OneHolder DEF FencingInvariant, TypeOK, WorkerTypes, Holds

LEMMA CopiesStep ==
  ASSUME FencingInvariant, [Next]_vars PROVE CopiesAreCurrent'
<1> USE DEF FencingInvariant
<1>t. worker \in [Workers -> WorkerState]
  BY DEF TypeOK, WorkerTypes
<1>0. ASSUME UNCHANGED <<commit, source, worker>>,
             \A w \in Workers : Holds(w)' => Holds(w)
      PROVE  CopiesAreCurrent'
  BY <1>0 DEF CopiesAreCurrent
<1>i. ASSUME NEW w \in Workers, worker' = [worker EXCEPT ![w] = Idle],
             UNCHANGED <<commit, source>>,
             \A v \in Workers : v # w /\ Holds(v)' => Holds(v)
      PROVE  CopiesAreCurrent'
  BY <1>i, <1>t DEF CopiesAreCurrent, Holds, Idle, Holding, Working
<1>e. ASSUME NEW j \in JobIds, NEW outcome \in Terminal,
             End(j, outcome) \/ Requeue(j),
             NEW v \in Workers, worker'[v] = worker[v], Holds(v)'
      PROVE  Holds(v)
  <2>1. /\ status \in [JobIds -> {"absent"} \cup Active \cup Terminal] /\ lease \in [JobIds -> Lease]
        /\ worker[v].phase \in Holding => worker[v].job \in JobIds
    BY DEF TypeOK, QueueTypes, WorkerTypes
  <2>2. /\ worker[v].phase \in Holding /\ worker[v].job \in JobIds
        /\ status'[worker[v].job] = "running" /\ lease'[worker[v].job].token = worker[v].token
    BY <1>e, <2>1 DEF Holds
  <2>3. PICK new : status' = [status EXCEPT ![j] = new] /\ new # "running"
    BY <1>e DEF End, Requeue, Terminal, Reported
  <2>4. lease' = [lease EXCEPT ![j] = NoLease]
    BY <1>e DEF End, Requeue
  <2>5. worker[v].job # j
    BY <2>1, <2>2, <2>3
  <2>6. status'[worker[v].job] = status[worker[v].job] /\ lease'[worker[v].job] = lease[worker[v].job]
    BY <2>1, <2>2, <2>3, <2>4, <2>5
  <2> QED BY <2>2, <2>6 DEF Holds
<1>1. ASSUME NEW p \in Projects, NEW u \in Users, NEW c, NEW o,
             Enqueue(p, u, c, o), UNCHANGED worker
      PROVE  CopiesAreCurrent'
  <2>1. PICK j \in JobIds : /\ status[j] = "absent"
                            /\ status' = [status EXCEPT ![j] = "queued"]
                            /\ commit' = [commit EXCEPT ![j] = c]
    BY <1>1 DEF Enqueue, NextRow
  <2>2. UNCHANGED <<source, lease, worker>>
    BY <1>1 DEF Enqueue
  <2>3. ASSUME NEW w \in Workers, Holds(w)'
        PROVE  Holds(w) /\ worker[w].job \in JobIds /\ worker[w].job # j
    BY <2>1, <2>2, <2>3 DEF Holds, TypeOK, QueueTypes, WorkerTypes
  <2>4. \A i \in JobIds : i # j => commit'[i] = commit[i]
    BY <2>1 DEF TypeOK, SourceTypes
  <2> QED BY <2>2, <2>3, <2>4 DEF CopiesAreCurrent
<1>2. ASSUME NEW w \in Workers, StartScan(w) PROVE CopiesAreCurrent'
  <2>1. worker[w].phase = "claimed" /\ Holds(w) /\ worker[w].job \in JobIds
    BY <1>2, HolderFacts DEF StartScan, LeaseHeld
  <2>2. /\ worker[w].commit = commit[worker[w].job]
        /\ worker[w].source = source[worker[w].job]
    BY <2>1 DEF CopiesAreCurrent, Working
  <2>3. PICK phase \in {"scan", "fetch"} :
          /\ phase = "scan" <=> worker[w].source # None
          /\ worker' = [worker EXCEPT ![w].phase = phase]
    BY <1>2 DEF StartScan
  <2>4. /\ worker'[w].phase = phase /\ worker'[w].job = worker[w].job
        /\ worker'[w].commit = worker[w].commit
        /\ worker'[w].source = worker[w].source
        /\ \A v \in Workers : v # w => worker'[v] = worker[v]
    BY <2>3, <1>t DEF WorkerState
  <2>5. UNCHANGED <<status, lease, commit, source>>
    BY <1>2 DEF StartScan, queueVars, sourceVars
  <2> QED BY <2>1, <2>2, <2>3, <2>4, <2>5 DEF CopiesAreCurrent, Holds
<1>3. ASSUME NEW w \in Workers, PinCommit(w) PROVE CopiesAreCurrent'
  <2> DEFINE j == worker[w].job
  <2>1. Holds(w) /\ j \in JobIds /\ source[j] = None
    BY <1>3, HolderFacts DEF PinCommit, LeaseHeld, CopiesAreCurrent
  <2>2. PICK c \in Resolved(w), content \in Contents :
          /\ commit' = [commit EXCEPT ![j] = c]
          /\ worker' = [worker EXCEPT ![w] =
               [phase |-> "store", job |-> j, token |-> worker[w].token,
                commit |-> c, source |-> [commit |-> c, content |-> content],
                retryable |-> FALSE]]
    BY <1>3 DEF PinCommit
  <2>3. UNCHANGED <<status, lease, source>>
    BY <1>3 DEF PinCommit, queueVars
  <2>4. /\ worker'[w].phase = "store" /\ worker'[w].job = j
        /\ worker'[w].commit = c
        /\ worker'[w].source = [commit |-> c, content |-> content]
        /\ \A v \in Workers : v # w => worker'[v] = worker[v]
    BY <2>2, <1>t
  <2>5. c \in Commits /\ worker'[w].source \in Sources
    BY <1>3, <2>2, <2>4, <1>t DEF Resolved, WorkerState, Sources
  <2>6. commit'[j] = c /\ \A i \in JobIds : i # j => commit'[i] = commit[i]
    BY <2>1, <2>2 DEF TypeOK, SourceTypes
  <2>7. ASSUME NEW v \in Workers, v # w, Holds(v)'
        PROVE  /\ Holds(v) /\ worker'[v] = worker[v]
               /\ worker[v].job \in JobIds /\ worker[v].job # j
    BY <2>1, <2>3, <2>4, <2>6, <2>7, HolderKeepsCopies
  <2>8. worker'[w].source # None /\ worker'[w].source.commit = commit'[j]
    BY <2>4, <2>5, <2>6
  <2> QED BY <2>1, <2>3, <2>4, <2>6, <2>7, <2>8 DEF CopiesAreCurrent
<1>4. ASSUME NEW w \in Workers, StoreSnapshot(w) PROVE CopiesAreCurrent'
  <2> DEFINE j == worker[w].job
  <2>1. /\ Holds(w) /\ j \in JobIds /\ worker[w].source # None
        /\ worker[w].commit = commit[j]
    BY <1>4, HolderFacts DEF StoreSnapshot, LeaseHeld, CopiesAreCurrent, Working
  <2>2. /\ source' = [source EXCEPT ![j] = worker[w].source]
        /\ worker' = [worker EXCEPT ![w].phase = "scan"]
        /\ UNCHANGED <<status, lease, commit>>
    BY <1>4 DEF StoreSnapshot, queueVars
  <2>3. /\ worker'[w].phase = "scan" /\ worker'[w].job = j
        /\ worker'[w].commit = worker[w].commit
        /\ worker'[w].source = worker[w].source
        /\ \A v \in Workers : v # w => worker'[v] = worker[v]
    BY <2>2, <1>t DEF WorkerState
  <2>4. source'[j] = worker[w].source /\ \A i \in JobIds : i # j => source'[i] = source[i]
    BY <2>1, <2>2 DEF TypeOK, SourceTypes
  <2>5. ASSUME NEW v \in Workers, v # w, Holds(v)'
        PROVE  /\ Holds(v) /\ worker'[v] = worker[v]
               /\ worker[v].job \in JobIds /\ worker[v].job # j
    BY <2>1, <2>2, <2>3, <2>4, <2>5, HolderKeepsCopies
  <2> QED BY <2>1, <2>2, <2>3, <2>4, <2>5 DEF CopiesAreCurrent
<1>5. ASSUME NEW w \in Workers, \E health \in Reported : PublishScan(w, health)
      PROVE  CopiesAreCurrent'
  <2>1. PICK health \in Reported : PublishScan(w, health)
    BY <1>5
  <2>2. worker[w].job \in JobIds
    BY <2>1, HolderFacts DEF PublishScan, LeaseHeld
  <2>3. \A v \in Workers : v # w => worker'[v] = worker[v]
    BY <2>1, <1>t DEF PublishScan
  <2> QED BY <2>1, <2>2, <2>3, <1>i, <1>e DEF PublishScan, Terminal
<1>6. ASSUME NEW w \in Workers, FailScan(w) PROVE CopiesAreCurrent'
  <2>1. worker[w].job \in JobIds
    BY <1>6 DEF FailScan, TypeOK, WorkerTypes, Holding
  <2>2. \A v \in Workers : v # w => worker'[v] = worker[v]
    BY <1>6, <1>t DEF FailScan
  <2>3. \A v \in Workers : v # w /\ Holds(v)' => Holds(v)
    <3>1. CASE UNCHANGED queueVars
      BY <3>1, <2>2 DEF queueVars, Holds
    <3> QED BY <1>6, <1>e, <2>1, <2>2, <3>1 DEF FailScan, Terminal, Reported
  <2> QED BY <1>6, <1>i, <2>3 DEF FailScan, sourceVars
<1>7. ASSUME NEW w \in Workers, AbandonScan(w) \/ CrashWorker(w)
      PROVE  CopiesAreCurrent'
  <2>1. /\ worker' = [worker EXCEPT ![w] = Idle]
        /\ UNCHANGED <<status, lease, commit, source>>
    BY <1>7 DEF AbandonScan, CrashWorker, queueVars, sourceVars
  <2>2. \A v \in Workers : v # w /\ Holds(v)' => Holds(v)
    BY <2>1, <1>t DEF Holds
  <2> QED BY <2>1, <2>2, <1>i
<1>8. ASSUME NEW w \in Workers, \E b \in BOOLEAN : InterruptScan(w, b)
      PROVE  CopiesAreCurrent'
  <2>1. PICK b \in BOOLEAN : worker' = [worker EXCEPT ![w] =
             [phase |-> "failing", job |-> worker[w].job,
              token |-> worker[w].token, commit |-> None, source |-> None,
              retryable |-> b]]
    BY <1>8 DEF InterruptScan
  <2>2. /\ worker'[w].phase = "failing"
        /\ \A v \in Workers : v # w => worker'[v] = worker[v]
    BY <2>1, <1>t
  <2>3. UNCHANGED <<status, lease, commit, source>>
    BY <1>8 DEF InterruptScan, queueVars, sourceVars
  <2> QED BY <2>2, <2>3 DEF CopiesAreCurrent, Holds, Working
<1>9. ASSUME NEW j \in JobIds, NEW u \in Users, CancelScan(j, u)
      PROVE  CopiesAreCurrent'
  BY <1>9, <1>e, <1>0 DEF CancelScan, Terminal, sourceVars
<1>10. ASSUME NEW w \in Workers, HeartbeatScan(w) PROVE CopiesAreCurrent'
  <2>1. worker[w].job \in JobIds /\ lease[worker[w].job].token = worker[w].token
    BY <1>10, HolderFacts DEF HeartbeatScan, LeaseHeld, Leased
  <2>2. \A j \in JobIds : lease'[j].token = lease[j].token
    BY <1>10, <2>1 DEF HeartbeatScan, TypeOK, QueueTypes
  <2>3. UNCHANGED <<worker, status, commit, source>>
    BY <1>10 DEF HeartbeatScan, sourceVars
  <2> QED BY <1>0, <2>2, <2>3 DEF Holds, TypeOK, WorkerTypes
<1>11. CASE Tick
  <2>1. \A j \in JobIds : lease'[j].token = lease[j].token
    BY <1>11 DEF Tick
  <2>2. UNCHANGED <<worker, status, commit, source>>
    BY <1>11 DEF Tick, sourceVars
  <2> QED BY <1>0, <2>1, <2>2 DEF Holds, TypeOK, WorkerTypes
<1>12. CASE UNCHANGED <<worker, status, lease, commit, source>>
  BY <1>12, <1>0 DEF Holds
<1>13. ASSUME NEW p \in Projects, NEW u \in Users,
              RequestScan(p, u) \/ EnqueueRetry(p, u)
       PROVE  CopiesAreCurrent'
  BY <1>1, <1>12, <1>13 DEF RequestScan, EnqueueRetry, queueVars, sourceVars
<1>14. CASE \/ \E j \in JobIds : CheckRetry(j) \/ BackoffElapses(j) \/ ExpireSource(j)
            \/ \E p \in Projects : Administer(p)
            \/ UNCHANGED vars
  BY <1>12, <1>14 DEF CheckRetry, BackoffElapses, ExpireSource, Administer,
     queueVars, sourceVars, vars
<1> QED BY <1>2, <1>3, <1>4, <1>5, <1>6, <1>7, <1>8, <1>9, <1>10, <1>11, <1>13,
           <1>14, ClaimKeepsCopies DEF Next, RunScan

(***************************************************************************)
(* Theorems                                                                *)
(***************************************************************************)

LEMMA InitFencing == Init => FencingInvariant
<1> SUFFICES ASSUME Init PROVE FencingInvariant
  OBVIOUS
<1>1. RowTokens
  BY DEF Init, RowTokens, NoLease
<1>2. TokensAreUnique /\ CopiesAreCurrent
  BY DEF Init, TokensAreUnique, CopiesAreCurrent, Holds, Idle, Holding, Working
<1>3. RowsAreConsistent
  BY DEF Init, RowsAreConsistent, Active
<1> QED BY <1>1, <1>2, <1>3, InitTypes DEF FencingInvariant

LEMMA FencingStep == FencingInvariant /\ [Next]_vars => FencingInvariant'
<1> SUFFICES ASSUME FencingInvariant, [Next]_vars PROVE FencingInvariant'
  OBVIOUS
<1>1. TypeOK'
  BY QueueTypesStep, SourceTypesStep, WorkerTypesStep, ProjectTypesStep
     DEF FencingInvariant, TypeOK
<1> QED BY <1>1, RowTokensStep, TokensStep, RowsStep, CopiesStep
        DEF FencingInvariant

\* The inductive invariant: a token is held by one process, the last claimer's
\* copies are those of the row, and a row's source is of its commit.
THEOREM Fencing == Spec => []FencingInvariant
BY InitFencing, FencingStep, PTL DEF Spec

\* However many workers believe they run a job, one passes the lease check.
THEOREM OneHolderPerJob == Spec => []OneLeaseHolder
<1>1. FencingInvariant => OneLeaseHolder
  BY DEF FencingInvariant, TokensAreUnique, OneLeaseHolder, Leased
<1> QED BY <1>1, Fencing, PTL

\* A published report is of the stored snapshot, of the pinned commit.
THEOREM ReportMatchesSource == Spec => []ReportIsOfPinnedSource
<1>1. FencingInvariant => ReportIsOfPinnedSource
  BY DEF FencingInvariant, RowsAreConsistent, ReportIsOfPinnedSource
<1> QED BY <1>1, Fencing, PTL

\* What a worker that passes the lease check holds of the row is current.
THEOREM HolderHoldsCurrent == Spec => []HolderIsCurrent
<1>1. FencingInvariant => HolderIsCurrent
  <2> SUFFICES ASSUME FencingInvariant, NEW w \in Workers, Leased(w)
      PROVE  LET j == worker[w].job IN
             /\ worker[w].phase \in {"claimed", "fetch", "store", "scan"} =>
                  worker[w].commit = commit[j]
             /\ worker[w].phase = "scan" =>
                  stored[j] /\ worker[w].source = source[j]
    BY DEF HolderIsCurrent
  <2>1. /\ Holds(w) /\ worker[w].job \in JobIds
        /\ status[worker[w].job] = "running"
    BY HolderFacts
  <2> QED BY <2>1 DEF FencingInvariant, CopiesAreCurrent, RowsAreConsistent,
          Active, Working
<1> QED BY <1>1, Fencing, PTL

(***************************************************************************)
(* The source is chosen once                                               *)
(***************************************************************************)

ChosenOnce ==
  \A j \in JobIds : status[j] # "absent" =>
    /\ commit[j] # None => commit'[j] = commit[j]
    /\ source[j] # None => source'[j] = source[j]

LEMMA ChosenStep == ASSUME FencingInvariant, [Next]_vars PROVE ChosenOnce
<1> USE DEF FencingInvariant
<1>t. SourceTypes /\ WorkerTypes
  BY DEF TypeOK
<1>0. CASE UNCHANGED <<commit, source>>
  BY <1>0 DEF ChosenOnce
<1>1. ASSUME NEW p \in Projects, NEW u \in Users, NEW c, NEW o, Enqueue(p, u, c, o)
      PROVE  ChosenOnce
  BY <1>1, <1>t DEF Enqueue, NextRow, SourceTypes, ChosenOnce
<1>2. ASSUME NEW w \in Workers, PinCommit(w) PROVE ChosenOnce
  <2>1. worker[w].job \in JobIds
    BY <1>2, HolderFacts DEF PinCommit, LeaseHeld
  <2> QED BY <1>2, <2>1, <1>t DEF PinCommit, SourceTypes, ChosenOnce
<1>3. ASSUME NEW w \in Workers, StoreSnapshot(w) PROVE ChosenOnce
  <2>1. /\ worker[w].job \in JobIds /\ Holds(w) /\ worker[w].phase = "store"
    BY <1>3, HolderFacts DEF StoreSnapshot, LeaseHeld
  <2>2. source[worker[w].job] = None
    BY <2>1 DEF CopiesAreCurrent
  <2> QED BY <1>3, <2>1, <2>2, <1>t DEF StoreSnapshot, SourceTypes, ChosenOnce
<1>4. ASSUME NEW p \in Projects, NEW u \in Users, RequestScan(p, u) \/ EnqueueRetry(p, u)
      PROVE  ChosenOnce
  BY <1>0, <1>1, <1>4 DEF RequestScan, EnqueueRetry, sourceVars
<1>5. ASSUME NEW w \in Workers,
             \/ ClaimScan(w) \/ HeartbeatScan(w) \/ CrashWorker(w) \/ StartScan(w)
             \/ \E health \in Reported : PublishScan(w, health)
             \/ AbandonScan(w) \/ FailScan(w)
             \/ \E b \in BOOLEAN : InterruptScan(w, b)
      PROVE  ChosenOnce
  BY <1>0, <1>5 DEF ClaimScan, HeartbeatScan, CrashWorker, StartScan, PublishScan,
     AbandonScan, FailScan, InterruptScan, sourceVars
<1>6. CASE \/ \E j \in JobIds : CheckRetry(j) \/ BackoffElapses(j) \/ ExpireSource(j)
           \/ \E j \in JobIds, u \in Users : CancelScan(j, u)
           \/ \E p \in Projects : Administer(p)
           \/ Tick \/ UNCHANGED vars
  BY <1>0, <1>6 DEF CheckRetry, BackoffElapses, ExpireSource, CancelScan, Administer,
     Tick, sourceVars, vars
<1> QED BY <1>2, <1>3, <1>4, <1>5, <1>6 DEF Next, RunScan

\* A recovered job analyses the commit and the snapshot it had.
THEOREM SourceStaysChosen == Spec => SourceIsChosenOnce
<1>1. FencingInvariant /\ [Next]_vars => [ChosenOnce]_vars
  BY ChosenStep
<1> QED BY <1>1, Fencing, PTL DEF Spec, SourceIsChosenOnce, ChosenOnce

(***************************************************************************)
(* Job rows, scan rows and project keys                                    *)
(***************************************************************************)

Aligned(j) ==
  /\ activeKey[j] <=> status[j] \in Active
  /\ scan[j] = CASE status[j] = "queued" -> "pending" [] OTHER -> status[j]

LEMMA AlignedSuffices ==
  JobInvariant <=>
    /\ \A j \in JobIds : Aligned(j)
    /\ \A i, j \in JobIds :
         activeKey[i] /\ activeKey[j] /\ request[i].project = request[j].project => i = j
BY DEF JobInvariant, ActiveKeyIsExact, ScanAgreesWithJob, Aligned

\* Keys that only go away, of rows that keep their project, stay unique.
LEMMA FewerKeys ==
  ASSUME JobInvariant, UNCHANGED request,
         \A j \in JobIds : activeKey'[j] => activeKey[j],
         \A j \in JobIds : Aligned(j)'
  PROVE  JobInvariant'
BY DEF JobInvariant, ActiveKeyIsExact, ScanAgreesWithJob, Aligned

LEMMA JobStep == ASSUME TypeOK, JobInvariant, [Next]_vars PROVE JobInvariant'
<1>t. QueueTypes /\ WorkerTypes
  BY DEF TypeOK
<1>a. \A j \in JobIds : Aligned(j)
  BY AlignedSuffices
<1>0. CASE UNCHANGED <<request, status, activeKey, scan>>
  BY <1>0 DEF JobInvariant, ActiveKeyIsExact, ScanAgreesWithJob
<1>1. ASSUME NEW p \in Projects, NEW u \in Users, NEW c, NEW o, Enqueue(p, u, c, o)
      PROVE  JobInvariant'
  <2>1. PICK j \in JobIds :
          /\ status[j] = "absent"
          /\ request' = [request EXCEPT ![j] =
               [project |-> p, requester |-> u, repository |-> binding[p], retryOf |-> o]]
          /\ status' = [status EXCEPT ![j] = "queued"]
          /\ scan' = [scan EXCEPT ![j] = "pending"]
          /\ activeKey' = [activeKey EXCEPT ![j] = TRUE]
    BY <1>1 DEF Enqueue, NextRow
  <2>2. \A i \in JobIds : i # j => /\ request'[i] = request[i] /\ status'[i] = status[i]
                                   /\ scan'[i] = scan[i] /\ activeKey'[i] = activeKey[i]
    BY <2>1, <1>t DEF QueueTypes
  <2>3. request'[j].project = p /\ status'[j] = "queued" /\ scan'[j] = "pending" /\ activeKey'[j]
    BY <2>1, <1>t DEF QueueTypes
  <2>4. \A i \in JobIds : activeKey[i] => request[i].project # p
    BY <1>1 DEF Enqueue, HasActive
  <2> QED BY <1>a, <2>2, <2>3, <2>4 DEF JobInvariant, ActiveKeyIsExact, ScanAgreesWithJob, Aligned, Active
<1>2. ASSUME NEW j \in JobIds, NEW outcome \in Terminal, End(j, outcome), UNCHANGED request
      PROVE  JobInvariant'
  <2>1. \A i \in JobIds : Aligned(i)'
    BY <1>2, <1>a, <1>t DEF End, Aligned, KeyAfterEnd, QueueTypes, Terminal, Reported, Active
  <2>2. \A i \in JobIds : activeKey'[i] => activeKey[i]
    BY <1>2, <1>t DEF End, KeyAfterEnd, QueueTypes
  <2> QED BY <1>2, <2>1, <2>2, FewerKeys
<1>3. ASSUME NEW w \in Workers, FailScan(w) PROVE JobInvariant'
  <2>1. worker[w].job \in JobIds
    BY <1>3, <1>t DEF FailScan, WorkerTypes, Holding
  <2>2. ASSUME Leased(w), Requeue(worker[w].job) PROVE JobInvariant'
    <3>1. \A i \in JobIds : Aligned(i)'
      BY <2>1, <2>2, <1>a, <1>t DEF Leased, Requeue, ScanAfterRequeue, Aligned, QueueTypes, Active
    <3>2. UNCHANGED <<request, activeKey>>
      BY <1>3, <2>2 DEF FailScan, Requeue
    <3> QED BY <3>1, <3>2, FewerKeys
  <2> QED BY <1>0, <1>2, <1>3, <2>1, <2>2 DEF FailScan, queueVars, Terminal, Reported
<1>4. ASSUME NEW w \in Workers, \E health \in Reported : PublishScan(w, health)
      PROVE  JobInvariant'
  <2>1. worker[w].job \in JobIds
    BY <1>4, <1>t DEF PublishScan, LeaseHeld, Leased, WorkerTypes
  <2> QED BY <1>2, <1>4, <2>1 DEF PublishScan, Terminal
<1>5. ASSUME NEW w \in Workers, ClaimScan(w) PROVE JobInvariant'
  <2> DEFINE dropped == {i \in JobIds : Reached(i) /\ Refused(i)}
             given   == {i \in JobIds : Reached(i) /\ ~Refused(i)}
  <2>1. ASSUME NEW j \in JobIds
        PROVE  /\ status'[j] = CASE j \in dropped -> "failed" [] j \in given -> "running"
                                 [] OTHER -> status[j]
               /\ scan'[j] = CASE j \in dropped -> "failed" [] j \in given -> "running"
                               [] OTHER -> scan[j]
               /\ activeKey'[j] = CASE j \in dropped -> FALSE [] j \in given -> activeKey[j]
                                    [] OTHER -> activeKey[j]
    BY <1>5 DEF ClaimScan, KeyAfterEnd
  <2>2. \A j \in JobIds : j \in dropped \cup given => status[j] \in Active
    BY DEF Reached, Eligible, Active
  <2>3. dropped \cap given = {}
    OBVIOUS
  <2> HIDE DEF dropped, given
  <2>4. \A j \in JobIds : Aligned(j)'
    BY <2>1, <2>2, <2>3, <1>a DEF Aligned, Active
  <2>5. \A j \in JobIds : activeKey'[j] => activeKey[j]
    BY <2>1, <2>3
  <2>6. UNCHANGED request
    BY <1>5 DEF ClaimScan
  <2> QED BY <2>4, <2>5, <2>6, FewerKeys
<1>6. ASSUME NEW w \in Workers,
             \/ HeartbeatScan(w) \/ CrashWorker(w) \/ StartScan(w) \/ PinCommit(w)
             \/ StoreSnapshot(w) \/ AbandonScan(w) \/ \E b \in BOOLEAN : InterruptScan(w, b)
      PROVE  JobInvariant'
  BY <1>0, <1>6 DEF HeartbeatScan, CrashWorker, StartScan, PinCommit, StoreSnapshot,
     AbandonScan, InterruptScan, queueVars
<1>7. ASSUME NEW p \in Projects, NEW u \in Users, RequestScan(p, u) \/ EnqueueRetry(p, u)
      PROVE  JobInvariant'
  BY <1>0, <1>1, <1>7 DEF RequestScan, EnqueueRetry, queueVars
<1>8. ASSUME NEW j \in JobIds, NEW u \in Users, CancelScan(j, u) PROVE JobInvariant'
  BY <1>2, <1>8 DEF CancelScan, Terminal
<1>9. CASE \/ \E j \in JobIds : CheckRetry(j) \/ BackoffElapses(j) \/ ExpireSource(j)
           \/ \E p \in Projects : Administer(p)
           \/ Tick \/ UNCHANGED vars
  BY <1>0, <1>9 DEF CheckRetry, BackoffElapses, ExpireSource, Administer, Tick, queueVars, vars
<1> QED BY <1>3, <1>4, <1>5, <1>6, <1>7, <1>8, <1>9 DEF Next, RunScan

\* A project has one active job at most, and the scan shown is the job's.
THEOREM RowsAgreeWithScans == Spec => []JobInvariant
<1>1. Init => JobInvariant
  BY DEF Init, JobInvariant, ActiveKeyIsExact, ScanAgreesWithJob, Active
<1>2. TypeOK /\ JobInvariant /\ [Next]_vars => JobInvariant'
  BY JobStep
<1> QED BY <1>1, <1>2, TypeCorrect, PTL DEF Spec

(***************************************************************************)
(* The queue implements ScanContract                                       *)
(***************************************************************************)

Stage(j) == CASE status[j] = "queued"  -> "waiting"
              [] status[j] = "running" -> "working"
              [] OTHER -> status[j]
Allowed(j) ==
  LET p == request[j].project IN
  /\ request[j].requester \in maintainers[p] /\ ~archived[p]
  /\ binding[p] = request[j].repository

Stages == [j \in JobIds |-> Stage(j)]
Pins == [j \in JobIds |-> commit[j]]
Results == [j \in JobIds |-> result[j]]
Permissions == [j \in JobIds |-> Allowed(j)]

LEMMA OneJobSteps ==
  ASSUME NEW i \in JobIds,
         Contract!Submit(i) \/ Contract!Requeue(i) \/ Contract!Pin(i) \/ Contract!Publish(i)
  PROVE  Contract!Next
BY DEF Contract!Next

\* One job ends without a report.
LEMMA EndDispatches ==
  ASSUME TypeOK, NEW j \in JobIds, NEW outcome \in Terminal, status[j] \in Active,
         End(j, outcome), UNCHANGED <<request, sourceVars, projectVars>>
  PROVE  Contract!Next
<1>1. /\ status' = [status EXCEPT ![j] = outcome] /\ status \in [JobIds -> {"absent"} \cup Active \cup Terminal]
      /\ UNCHANGED <<commit, result, request, maintainers, archived, binding>>
  BY DEF End, TypeOK, QueueTypes, sourceVars, projectVars
<1>2. Contract!Dispatch({j}, {}, outcome)
  BY <1>1 DEF Contract!Dispatch, Contract!Unfinished, Active, Terminal, Reported
<1> QED BY <1>2 DEF Contract!Next

Same == UNCHANGED <<Stages, Pins, Results, Permissions>>

LEMMA SameStutters == Same => UNCHANGED Contract!vars
BY DEF Same, Stages, Pins, Results, Permissions, Stage, Allowed, Contract!vars

LEMMA EnqueueSubmits ==
  ASSUME TypeOK, NEW p \in Projects, NEW u \in Users, NEW c \in Commits \cup {None}, NEW o,
         Enqueue(p, u, c, o), UNCHANGED projectVars
  PROVE  Contract!Next
<1>1. PICK j \in JobIds :
        /\ status[j] = "absent"
        /\ request' = [request EXCEPT ![j] =
             [project |-> p, requester |-> u, repository |-> binding[p], retryOf |-> o]]
        /\ status' = [status EXCEPT ![j] = "queued"]
        /\ commit' = [commit EXCEPT ![j] = c]
  BY DEF Enqueue, NextRow
<1>2. /\ UNCHANGED <<result, maintainers, archived, binding>>
      /\ status \in [JobIds -> {"absent"} \cup Active \cup Terminal]
      /\ commit \in [JobIds -> Commits \cup {None}]
      /\ request \in [JobIds -> Request]
  BY DEF Enqueue, TypeOK, QueueTypes, SourceTypes, projectVars
<1>3. \A i \in JobIds : i # j => /\ status'[i] = status[i] /\ commit'[i] = commit[i]
                                 /\ request'[i] = request[i]
  BY <1>1, <1>2
<1>4. status'[j] = "queued" /\ commit'[j] = c
  BY <1>1, <1>2
<1>5. Stages' = [Stages EXCEPT ![j] = "waiting"] /\ Stages[j] = "absent"
  <2>1. Stage(j) = "absent" /\ Stage(j)' = "waiting"
    BY <1>1, <1>4 DEF Stage
  <2>2. \A i \in JobIds : i # j => Stage(i)' = Stage(i)
    BY <1>3 DEF Stage
  <2> QED BY <2>1, <2>2 DEF Stages
<1>6. Pins' = [Pins EXCEPT ![j] = c]
  BY <1>3, <1>4 DEF Pins
<1>7. Permissions' = [Permissions EXCEPT ![j] = Allowed(j)']
  BY <1>2, <1>3 DEF Permissions, Allowed
<1>8. Allowed(j)' \in BOOLEAN /\ UNCHANGED Results
  BY <1>2 DEF Allowed, Results
<1>9. Contract!Submit(j)
  BY <1>5, <1>6, <1>7, <1>8 DEF Contract!Submit, Stages, Stage, Pins, Permissions, Allowed, Results
<1> QED BY <1>9, OneJobSteps

\* A claim ends the jobs it drops and starts or restarts the one it gives away.
LEMMA ClaimDispatches ==
  ASSUME TypeOK, NEW w \in Workers, ClaimScan(w)
  PROVE  Contract!Next
<1> DEFINE dropped == {i \in JobIds : Reached(i) /\ Refused(i)}
           given   == {i \in JobIds : Reached(i) /\ ~Refused(i)}
<1>1. status' = [j \in JobIds |-> CASE j \in dropped -> "failed" [] j \in given -> "running"
                                     [] OTHER -> status[j]]
  BY DEF ClaimScan
<1>2. /\ dropped \subseteq JobIds /\ given \subseteq JobIds /\ dropped \cap given = {}
      /\ \A j \in dropped \cup given : status[j] \in Active
  BY DEF Reached, Eligible, Active
<1>3. UNCHANGED <<Pins, Results, Permissions>>
  BY DEF ClaimScan, sourceVars, projectVars, Pins, Results, Permissions, Allowed
<1> HIDE DEF dropped, given
<1>4. Stages' = [j \in JobIds |-> CASE j \in dropped -> "failed" [] j \in given -> "working"
                                     [] OTHER -> Stages[j]]
  BY <1>1, <1>2 DEF Stages, Stage
<1>5. \A j \in dropped \cup given : Stages[j] \in {"waiting", "working"}
  BY <1>2 DEF Stages, Stage, Active
<1>6. Contract!Dispatch(dropped, given, "failed")
  BY <1>2, <1>3, <1>4, <1>5 DEF Contract!Dispatch, Contract!Unfinished, Stages, Stage, Pins,
     Results, Permissions, Allowed
<1> QED BY <1>2, <1>6 DEF Contract!Next, Terminal, Reported

LEMMA PinPins ==
  ASSUME TypeOK, NEW w \in Workers, PinCommit(w)
  PROVE  Contract!Next \/ Same
<1>0. PICK j \in JobIds : j = worker[w].job
  BY DEF PinCommit, LeaseHeld, Leased, TypeOK, WorkerTypes
<1>1. status[j] = "running" /\ Allowed(j)
  BY <1>0 DEF PinCommit, LeaseHeld, Leased, Permitted, Allowed
<1>2. PICK c \in Commits : commit[j] \in {None, c} /\ commit' = [commit EXCEPT ![j] = c]
  BY <1>0 DEF PinCommit, Resolved, TypeOK, WorkerTypes, WorkerState
<1>3. /\ UNCHANGED <<Stages, Results, Permissions>>
      /\ commit \in [JobIds -> Commits \cup {None}]
  BY DEF PinCommit, queueVars, projectVars, Stages, Stage, Results, Permissions, Allowed,
     TypeOK, SourceTypes
<1>4. Pins' = [Pins EXCEPT ![j] = c]
  BY <1>1, <1>2, <1>3 DEF Pins
<1>5. CASE commit[j] = None
  <2>1. Contract!Pin(j)
    BY <1>1, <1>3, <1>4, <1>5 DEF Contract!Pin, Stages, Stage, Pins, Results, Permissions, Allowed
  <2> QED BY <2>1, OneJobSteps
<1>6. CASE commit[j] = c
  BY <1>1, <1>2, <1>3, <1>6 DEF Same, Pins
<1> QED BY <1>2, <1>5, <1>6

\* The report is of the snapshot the worker holds, and so of the pinned commit.
LEMMA PublishPublishes ==
  ASSUME FencingInvariant, NEW w \in Workers, NEW health \in Reported, PublishScan(w, health)
  PROVE  Contract!Next
<1>0. PICK j \in JobIds : j = worker[w].job
  BY HolderFacts DEF PublishScan, LeaseHeld
<1>1. status[j] = "running" /\ Allowed(j) /\ Holds(w)
  BY <1>0, HolderFacts DEF PublishScan, LeaseHeld, Permitted, Allowed
<1>2. worker[w].source \in Sources /\ worker[w].source.commit = commit[j]
  <2>1. source[j] # None /\ worker[w].source = source[j]
    BY <1>0, <1>1 DEF PublishScan, FencingInvariant, CopiesAreCurrent
  <2> QED BY <1>1, <2>1 DEF FencingInvariant, RowsAreConsistent, TypeOK, SourceTypes
<1>3. /\ status' = [status EXCEPT ![j] = health] /\ result' = [result EXCEPT ![j] = worker[w].source]
      /\ UNCHANGED <<Pins, Permissions>>
      /\ status \in [JobIds -> {"absent"} \cup Active \cup Terminal]
      /\ result \in [JobIds -> Sources \cup {None}]
  BY <1>0 DEF PublishScan, End, projectVars, Pins, Permissions, Allowed, FencingInvariant, TypeOK,
     QueueTypes, SourceTypes
<1>4. Stages' = [Stages EXCEPT ![j] = health] /\ Stages[j] = "working"
  BY <1>1, <1>3 DEF Stages, Stage, Reported
<1>5. Results' = [Results EXCEPT ![j] = worker[w].source]
  BY <1>1, <1>3 DEF Results
<1>6. Contract!Publish(j)
  BY <1>1, <1>2, <1>3, <1>4, <1>5 DEF Contract!Publish, Stages, Stage, Pins, Results,
     Permissions, Allowed, Terminal
<1> QED BY <1>6, OneJobSteps

LEMMA FailRequeues ==
  ASSUME TypeOK, NEW w \in Workers, FailScan(w)
  PROVE  Contract!Next \/ Same
<1>0. PICK j \in JobIds : j = worker[w].job
  BY DEF FailScan, TypeOK, WorkerTypes, Holding
<1>1. UNCHANGED <<request, sourceVars, projectVars>>
  BY DEF FailScan
<1>2. CASE Leased(w) /\ Requeue(j)
  <2>1. status[j] = "running"
    BY <1>0, <1>2 DEF Leased
  <2>2. /\ status' = [status EXCEPT ![j] = "queued"]
        /\ status \in [JobIds -> {"absent"} \cup Active \cup Terminal]
        /\ UNCHANGED <<Pins, Results, Permissions>>
    BY <1>1, <1>2 DEF Requeue, TypeOK, QueueTypes, sourceVars, projectVars, Pins, Results,
       Permissions, Allowed
  <2>3. Stages' = [Stages EXCEPT ![j] = "waiting"] /\ Stages[j] = "working"
    BY <2>1, <2>2 DEF Stages, Stage
  <2>4. Contract!Requeue(j)
    BY <2>1, <2>2, <2>3 DEF Contract!Requeue, Stages, Stage, Pins, Results, Permissions, Allowed
  <2> QED BY <2>4, OneJobSteps
<1>3. CASE Leased(w) /\ End(j, "failed")
  <2>1. status[j] = "running"
    BY <1>0, <1>3 DEF Leased
  <2> QED BY <1>1, <1>3, <2>1, EndDispatches DEF Terminal, Reported, Active
<1>4. CASE UNCHANGED queueVars
  BY <1>1, <1>4 DEF queueVars, sourceVars, projectVars, Same, Stages, Stage, Pins, Results,
     Permissions, Allowed
<1> QED BY <1>0, <1>2, <1>3, <1>4 DEF FailScan

LEMMA AdministerReauthorizes ==
  ASSUME NEW p \in Projects, Administer(p)
  PROVE  Contract!Next
<1>1. UNCHANGED <<Stages, Pins, Results>>
  BY DEF Administer, queueVars, sourceVars, Stages, Stage, Pins, Results
<1>2. Permissions' \in [JobIds -> BOOLEAN]
  BY DEF Permissions, Allowed
<1>3. Contract!Reauthorize
  BY <1>1, <1>2 DEF Contract!Reauthorize, Stages, Stage, Pins, Results, Permissions, Allowed
<1> QED BY <1>3 DEF Contract!Next

LEMMA ContractStep ==
  ASSUME FencingInvariant, [Next]_vars
  PROVE  Contract!Next \/ Same
<1>t. TypeOK
  BY DEF FencingInvariant
<1>0. CASE UNCHANGED <<status, commit, result, request, projectVars>>
  BY <1>0 DEF Same, projectVars, Stages, Stage, Pins, Results, Permissions, Allowed
<1>1. ASSUME NEW p \in Projects, NEW u \in Users, RequestScan(p, u) PROVE Contract!Next
  BY <1>t, <1>1, EnqueueSubmits DEF RequestScan
<1>2. ASSUME NEW p \in Projects, NEW u \in Users, EnqueueRetry(p, u) PROVE Contract!Next \/ Same
  <2>1. commit[retrying[p]] \in Commits \cup {None}
    BY <1>t, <1>2 DEF EnqueueRetry, TypeOK, ProjectTypes, SourceTypes
  <2> QED BY <1>0, <1>t, <1>2, <2>1, EnqueueSubmits DEF EnqueueRetry, queueVars, sourceVars
<1>3. ASSUME NEW j \in JobIds, NEW u \in Users, CancelScan(j, u) PROVE Contract!Next
  BY <1>t, <1>3, EndDispatches DEF CancelScan, Cancellable, Terminal
<1>4. ASSUME NEW w \in Workers, RunScan(w) PROVE Contract!Next \/ Same
  <2>1. CASE StartScan(w) \/ StoreSnapshot(w) \/ AbandonScan(w) \/ \E b \in BOOLEAN : InterruptScan(w, b)
    BY <1>0, <2>1 DEF StartScan, StoreSnapshot, AbandonScan, InterruptScan, queueVars, sourceVars
  <2> QED BY <1>t, <1>4, <2>1, PinPins, PublishPublishes, FailRequeues DEF RunScan
<1>5. CASE \/ \E w \in Workers : HeartbeatScan(w) \/ CrashWorker(w)
           \/ \E j \in JobIds : CheckRetry(j) \/ BackoffElapses(j) \/ ExpireSource(j)
           \/ Tick \/ UNCHANGED vars
  BY <1>0, <1>5 DEF HeartbeatScan, CrashWorker, CheckRetry, BackoffElapses, ExpireSource, Tick,
     queueVars, sourceVars, vars
<1> QED BY <1>t, <1>1, <1>2, <1>3, <1>4, <1>5, ClaimDispatches, AdministerReauthorizes DEF Next

\* The queue, with its leases, tokens, copies, crashes and retries, implements
\* the contract: one outcome, one commit, one report of that commit, delivered
\* while the requester is allowed to scan.
THEOREM QueueKeepsContract == Spec => KeepsContract
<1>1. Init => Contract!Init
  BY DEF Init, Contract!Init
<1>2. FencingInvariant /\ [Next]_vars => [Contract!Next]_Contract!vars
  BY ContractStep, SameStutters
<1> QED BY <1>1, <1>2, Fencing, PTL DEF Spec, KeepsContract, Contract!Spec
=============================================================================
