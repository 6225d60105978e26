------------------------------ MODULE LlmJobs ------------------------------
(***************************************************************************)
(* Durable AI review jobs: the job and call tables, the handlers that      *)
(* enqueue and cancel a review, and the worker processes that claim a job, *)
(* record each provider call before it is sent and publish its batches.    *)
(*                                                                         *)
(* dashboard/src/lib/llm-jobs.ts, llm-worker.ts, llm-source-journal.ts,    *)
(* ai-source-review.ts, llm-job-state.ts and scripts/llm-worker.mjs.       *)
(*                                                                         *)
(* A transaction is one step, as in ScanJobs.  The calls of a job are      *)
(* numbered in the order they were recorded; the roundIndex of a call is   *)
(* the number of calls recorded before it in its batch.  A batch is a      *)
(* number of findings, batches count from 1.  The findings and the scan a  *)
(* job froze are never rewritten by the program, so the digest comparisons *)
(* of the transactions always succeed and are left out.                    *)
(***************************************************************************)
EXTENDS Naturals, FiniteSets, PartialSums

CONSTANTS
  Workers,        \* AI review worker processes
  Scans,          \* published scans that may be reviewed
  Projects,
  ProjectOf,      \* the project of each scan
  Users,
  Configs,        \* provider configurations an administrator may save
  None,           \* reviews disabled
  Plans,          \* what enqueueLlmJob may freeze: mode and batch sizes
  MaxBatches,     \* bound: batches of a plan
  MaxBatchSize,   \* bound: findings of a batch
  MaxJobs,        \* bound: rows the job table may hold
  MaxAttempts,    \* LlmJob.maxAttempts
  MaxCalls,       \* min(LlmJob.maxCalls, REVIEW_LIMITS.calls)
  Rounds,         \* SOURCE_TOOL_LIMITS.rounds
  MaxActive,      \* active jobs of the workspace (50 in the code)
  MaxProjectActive, \* active jobs of a project (2 in the code)
  MaxSkips,       \* jobs one claim transaction may end (50 in the code)
  LeaseTicks      \* AI_LEASE_MS in ticks

BatchIds == 1 .. MaxBatches

\* The mode of a review and its batches; a batch beyond last has no findings.
Plan == [sources : BOOLEAN, last : BatchIds, size : [BatchIds -> 0 .. MaxBatchSize]]

ASSUME LlmJobsAssumption ==
  /\ {MaxBatches, MaxJobs, MaxAttempts, MaxCalls, Rounds, MaxBatchSize,
      MaxActive, MaxProjectActive, MaxSkips, LeaseTicks} \subseteq Nat \ {0}
  /\ ProjectOf \in [Scans -> Projects]
  /\ Plans \subseteq Plan /\ Plans # {} /\ Users # {} /\ Scans # {}
  /\ None \notin Configs /\ Configs # {}

VARIABLES
  \* LlmJob rows, one function per column
  request,      \* what enqueueLlmJob froze: scan, requester, config, plan
  status,
  activeKey,    \* is the unique key set?  Its value would be the scan
  attempts,
  lease,        \* leaseToken (0 is null) and the ticks left of leaseExpiresAt
  overdue,      \* has deadlineAt passed?
  batch,        \* currentBatch, the first batch without a published review
  started,      \* callsStarted
  reviewed,     \* reviewedCount
  errors,       \* errorCount
  kept,         \* is inputCiphertext still kept?
  \* other tables
  calls,        \* LlmCall rows of each job
  reviews,      \* LlmReview rows of each job, counted by batch
  \* other state
  worker,       \* what each worker process holds in memory
  maintainers,  \* the enabled users with the maintainer role, by project
  archived,     \* Project.archived
  config        \* the saved provider configuration, None when disabled

queueVars == <<status, activeKey, attempts, lease, overdue>>
progressVars == <<batch, started, reviewed, errors, calls, reviews>>
settingVars == <<maintainers, archived, config>>
vars == <<request, queueVars, progressVars, kept, worker, settingVars>>

JobIds   == 1 .. MaxJobs
CallIds  == 1 .. MaxCalls
Active   == {"pending", "running"}
Terminal == {"completed", "partial", "failed", "cancelled"}

Request == [scan : Scans, requester : Users, config : Configs, plan : Plans]
Lease   == [token : 0 .. MaxAttempts, left : 0 .. LeaseTicks]
NoLease == [token |-> 0, left |-> 0]

\* closed: completedAt is set.  tools: responseKind is "tools".
Call == [status : {"absent", "dispatched", "unknown", "discarded", "completed"},
         batch : 0 .. MaxBatches, tools : BOOLEAN, token : 0 .. MaxAttempts,
         closed : BOOLEAN]
NoCall == [status |-> "absent", batch |-> 0, tools |-> FALSE, token |-> 0,
           closed |-> FALSE]

\* Phases of runClaimedLlmJob: before the next call, waiting for the provider,
\* with a validated answer in hand, and on the two steps of the error path.
Running == {"ready", "waiting", "answered"}
Holding == Running \cup {"discarding", "failing"}
WorkerState ==
  [phase : Holding \cup {"idle"}, job : 0 .. MaxJobs, token : 0 .. MaxAttempts,
   batch : 0 .. MaxBatches + 1,  \* batchIndex of the loop
   call  : 0 .. MaxCalls,        \* callId
   heard : BOOLEAN]              \* the receipt says the provider answered
Idle == [phase |-> "idle", job |-> 0, token |-> 0, batch |-> 0, call |-> 0,
         heard |-> FALSE]

TypeOK ==
  /\ request \in [JobIds -> Request]
  /\ status \in [JobIds -> {"absent"} \cup Active \cup Terminal]
  /\ activeKey \in [JobIds -> BOOLEAN]
  /\ attempts \in [JobIds -> 0 .. MaxAttempts]
  /\ lease \in [JobIds -> Lease]
  /\ overdue \in [JobIds -> BOOLEAN] /\ kept \in [JobIds -> BOOLEAN]
  /\ batch \in [JobIds -> 1 .. MaxBatches + 1]
  /\ started \in [JobIds -> 0 .. MaxCalls]
  /\ reviewed \in [JobIds -> Nat] /\ errors \in [JobIds -> Nat]
  /\ calls \in [JobIds -> [CallIds -> Call]]
  /\ reviews \in [JobIds -> [BatchIds -> 0 .. MaxBatchSize]]
  /\ worker \in [Workers -> WorkerState]
  /\ \A w \in Workers : worker[w].phase \in Holding => worker[w].job \in JobIds
  /\ maintainers \in [Projects -> SUBSET Users]
  /\ archived \in [Projects -> BOOLEAN]
  /\ config \in Configs \cup {None}

(***************************************************************************)
(* Leases, permission and configuration                                    *)
(***************************************************************************)

Project(j) == ProjectOf[request[j].scan]
PlanOf(j) == request[j].plan

\* authorizeJob: the requester still maintains the unarchived project.
Authorized(j) ==
  /\ request[j].requester \in maintainers[Project(j)]
  /\ ~archived[Project(j)]

\* checkedConfig: reviews are enabled and configured as when the job was made.
Configured(j) == config = request[j].config

\* The row worker w claimed is still running under w's unexpired token.
Leased(w) ==
  LET j == worker[w].job IN
  /\ worker[w].phase \in Holding
  /\ status[j] = "running"
  /\ lease[j].token = worker[w].token
  /\ lease[j].left > 0

\* mutant: the deadline is not compared
LeaseWithoutDeadline(w) ==
  /\ Leased(w) /\ Authorized(worker[w].job) /\ Configured(worker[w].job)

\* assertLlmLease, the check at the head of every transaction of a worker.
LeaseHeld(w) ==
  LET j == worker[w].job IN
  Leased(w) /\ ~overdue[j] /\ Authorized(j) /\ Configured(j)

(***************************************************************************)
(* The call journal                                                        *)
(***************************************************************************)

CallsOf(j, b) == {n \in CallIds : calls[j][n].status # "absent" /\ calls[j][n].batch = b}

AnsweredTurn(c) ==  \* mutant: an answer that was not used counts as well
  c.status \in {"completed", "discarded"}

\* A finished tool turn: its answer was received, checked and saved.
ToolTurn(c) == c.status = "completed" /\ c.tools

\* loadSourceSession, and its counterpart for reviews without sources: the
\* calls of a batch are tool turns that leave a turn to spend.
Resumable(j, b) ==
  /\ \A n \in CallsOf(j, b) : ToolTurn(calls[j][n])
  /\ IF PlanOf(j).sources THEN Cardinality(CallsOf(j, b)) < Rounds
                          ELSE CallsOf(j, b) = {}

\* What a claim checks in the journal: no call is uncertain, and those from
\* the current batch on are tool turns of the current batch.
JournalClean(j) ==
  /\ \A n \in CallIds : calls[j][n].status \notin {"dispatched", "unknown"}
  /\ \A n \in CallIds : calls[j][n].batch > batch[j] => calls[j][n].status = "absent"
  /\ Resumable(j, batch[j])

\* terminate leaves no call in the dispatched state.
Uncertain(c) ==
  IF c.status = "dispatched" THEN [c EXCEPT !.status = "unknown"] ELSE c

AfterEnd(j) == [n \in CallIds |-> Uncertain(calls[j][n])]

\* The value terminate and the last publication leave in activeKey.
KeyAfterEnd(j) == FALSE

\* terminate keeps what was published as a partial review.
EndOf(j) == IF reviewed[j] > 0 THEN "partial" ELSE "failed"

\* The columns terminate writes for job j.
Terminate(j, outcome) ==
  /\ status' = [status EXCEPT ![j] = outcome]
  /\ activeKey' = [activeKey EXCEPT ![j] = KeyAfterEnd(j)]
  /\ lease' = [lease EXCEPT ![j] = NoLease]
  /\ calls' = [calls EXCEPT ![j] = AfterEnd(j)]
  /\ UNCHANGED <<attempts, overdue, batch, started, reviewed, errors, reviews>>

(***************************************************************************)
(* Web handlers                                                            *)
(***************************************************************************)

ActiveJobs == {j \in JobIds : status[j] \in Active}

\* The workspace and the project have room for one more active job.
Room(p) ==
  /\ Cardinality(ActiveJobs) < MaxActive
  /\ Cardinality({j \in ActiveJobs : Project(j) = p}) < MaxProjectActive

NextRow(j) == /\ status[j] = "absent"
              /\ \A i \in JobIds : i < j => status[i] # "absent"

\* enqueueLlmJob.  With an active job of the scan it answers alreadyQueued.
RequestReview(s, u, plan) ==
  LET p == ProjectOf[s] IN
  /\ u \in maintainers[p] /\ ~archived[p]
  /\ \A j \in JobIds : activeKey[j] => request[j].scan # s
  /\ Room(p)
  /\ config # None
  /\ \E j \in JobIds :
       /\ NextRow(j)
       /\ request' = [request EXCEPT ![j] =
            [scan |-> s, requester |-> u, config |-> config, plan |-> plan]]
       /\ status' = [status EXCEPT ![j] = "pending"]
       /\ activeKey' = [activeKey EXCEPT ![j] = TRUE]
       /\ kept' = [kept EXCEPT ![j] = TRUE]
  /\ UNCHANGED <<attempts, lease, overdue, progressVars, worker, settingVars>>

Cancellable(j) == status[j] \in Active

\* cancelLlmJob: a maintainer may cancel in an archived project too.
CancelReview(j, u) ==
  /\ Cancellable(j)
  /\ u \in maintainers[Project(j)]
  /\ Terminate(j, "cancelled")
  /\ UNCHANGED <<request, kept, worker, settingVars>>

(***************************************************************************)
(* Claiming                                                                *)
(***************************************************************************)

EligibleWhenPending(j) == status[j] = "pending"  \* mutant: nothing recovers

\* The rows the claim query selects, oldest first.
Eligible(j) ==
  \/ status[j] = "pending"
  \/ status[j] = "running" /\ lease[j].left = 0

Claimable(j) ==
  /\ JournalClean(j)
  /\ ~overdue[j]
  /\ attempts[j] < MaxAttempts
  /\ Authorized(j) /\ Configured(j)
  /\ kept[j]

Ahead(j) == {i \in JobIds : i < j /\ Eligible(i)}

\* The loop reaches j: every row ahead was ended, within its 50 rounds.
Reached(j) ==
  /\ Eligible(j)
  /\ Cardinality(Ahead(j)) < MaxSkips
  /\ \A i \in Ahead(j) : ~Claimable(i)

\* The batch runClaimedLlmJob resumes at.
ResumeAt(j) == batch[j]

ReusedToken(j) == 1  \* mutant: the token is not renewed by a claim

\* randomUUID(): a value no earlier claim of the job was given.
FreshToken(j) == attempts[j] + 1

ClaimedState(j) ==
  [phase |-> "ready", job |-> j, token |-> FreshToken(j), batch |-> ResumeAt(j),
   call |-> 0, heard |-> FALSE]

\* claimLlmJob: one transaction ends every job it may not resume, then gives
\* the first other one, if any, to the worker under a fresh token.
ClaimReview(w) ==
  LET dropped == {j \in JobIds : Reached(j) /\ ~Claimable(j)}
      given   == {j \in JobIds : Reached(j) /\ Claimable(j)}
      After(j, ended, taken, left) ==
        CASE j \in dropped -> ended [] j \in given -> taken [] OTHER -> left
  IN
  /\ worker[w].phase = "idle"
  /\ dropped \cup given # {}
  /\ status' = [j \in JobIds |-> After(j, EndOf(j), "running", status[j])]
  /\ activeKey' = [j \in JobIds |->
       After(j, KeyAfterEnd(j), activeKey[j], activeKey[j])]
  /\ attempts' = [j \in JobIds |->
       After(j, attempts[j], attempts[j] + 1, attempts[j])]
  /\ lease' = [j \in JobIds |->
       After(j, NoLease, [token |-> FreshToken(j), left |-> LeaseTicks],
             lease[j])]
  /\ calls' = [j \in JobIds |-> After(j, AfterEnd(j), calls[j], calls[j])]
  /\ \/ given = {} /\ UNCHANGED worker
     \/ \E j \in given : worker' = [worker EXCEPT ![w] = ClaimedState(j)]
  /\ UNCHANGED <<request, overdue, batch, started, reviewed, errors, reviews,
                 kept, settingVars>>

(***************************************************************************)
(* A worker's run of one claimed job                                       *)
(***************************************************************************)

\* heartbeatLlmJob, every 10 s beside the run.
HeartbeatReview(w) ==
  /\ worker[w].phase \in Running
  /\ LeaseHeld(w)
  /\ lease' = [lease EXCEPT ![worker[w].job].left = LeaseTicks]
  /\ UNCHANGED <<request, status, activeKey, attempts, overdue, progressVars,
                 kept, worker, settingVars>>

Affordable(j) == started[j] < MaxCalls

\* startLlmCall records the call and spends its budget; then it is sent.  The
\* job must be in the worker's batch and the batch must be resumable.
StartCall(w) ==
  LET j == worker[w].job  n == started[j] + 1 IN
  /\ worker[w].phase = "ready"
  /\ LeaseHeld(w)
  /\ batch[j] = worker[w].batch
  /\ Resumable(j, batch[j])
  /\ Affordable(j)
  /\ calls' = [calls EXCEPT ![j] = [@ EXCEPT ![n] =
       [status |-> "dispatched", batch |-> batch[j], tools |-> FALSE,
        token |-> worker[w].token, closed |-> FALSE]]]
  /\ started' = [started EXCEPT ![j] = n]
  /\ worker' = [worker EXCEPT ![w].phase = "waiting", ![w].call = n]
  /\ UNCHANGED <<request, queueVars, batch, reviewed, errors, reviews, kept,
                 settingVars>>

\* callProviderDetailed returns a complete answer the parser accepts.
ReceiveAnswer(w) ==
  /\ worker[w].phase = "waiting"
  /\ worker' = [worker EXCEPT ![w].phase = "answered", ![w].heard = TRUE]
  /\ UNCHANGED <<request, queueVars, progressVars, kept, settingVars>>

\* The call in hand is this worker's, still open, and of the current batch.
Publishable(w) ==
  LET j == worker[w].job  c == calls[j][worker[w].call] IN
  /\ c.status = "dispatched" /\ c.token = worker[w].token
  /\ c.batch = worker[w].batch /\ batch[j] = worker[w].batch

Finished(j, n, tools) ==
  [calls[j] EXCEPT ![n] = [@ EXCEPT !.status = "completed", !.tools = tools,
                                    !.closed = TRUE]]

\* runSourceRequests: the last turn of a batch must be a review.
TurnsLeft(w) ==
  Cardinality(CallsOf(worker[w].job, worker[w].batch)) < Rounds

\* completeLlmToolTurn saves the evidence the model asked for; the next turn
\* of the batch follows.
CompleteToolTurn(w) ==
  LET j == worker[w].job IN
  /\ worker[w].phase = "answered"
  /\ LeaseHeld(w) /\ Publishable(w)
  /\ PlanOf(j).sources /\ TurnsLeft(w)
  /\ calls' = [calls EXCEPT ![j] = Finished(j, worker[w].call, TRUE)]
  /\ worker' = [worker EXCEPT ![w].phase = "ready", ![w].call = 0,
                              ![w].heard = FALSE]
  /\ UNCHANGED <<request, queueVars, batch, started, reviewed, errors, reviews,
                 kept, settingVars>>

\* Findings of the batch the answer left out.
Missing(j, b, saved) == PlanOf(j).size[b] - saved

\* llmJobTerminalStatus
TerminalStatus(total, done, wrong) ==
  IF wrong = 0 /\ done >= total THEN "completed"
  ELSE IF done > 0 THEN "partial" ELSE "failed"

\* totalFindings, which is fixed when the job is made.
Total(j) == SumTo(PlanOf(j).size, PlanOf(j).last)

\* publishLlmBatch saves the reviews of the answer, counts the findings it
\* left out and moves the job to the next batch, or ends it after the last.
PublishBatch(w, saved) ==
  LET j == worker[w].job
      b == worker[w].batch
      done == reviewed[j] + saved
      wrong == errors[j] + Missing(j, b, saved)
      last == b = PlanOf(j).last
  IN
  /\ worker[w].phase = "answered"
  /\ LeaseHeld(w) /\ Publishable(w)
  /\ saved <= PlanOf(j).size[b]
  /\ reviews' = [reviews EXCEPT ![j][b] = @ + saved]
  /\ calls' = [calls EXCEPT ![j] = Finished(j, worker[w].call, FALSE)]
  /\ batch' = [batch EXCEPT ![j] = b + 1]
  /\ reviewed' = [reviewed EXCEPT ![j] = done]
  /\ errors' = [errors EXCEPT ![j] = wrong]
  /\ IF last THEN
       /\ status' = [status EXCEPT ![j] = TerminalStatus(Total(j), done, wrong)]
       /\ activeKey' = [activeKey EXCEPT ![j] = KeyAfterEnd(j)]
       /\ lease' = [lease EXCEPT ![j] = NoLease]
       /\ worker' = [worker EXCEPT ![w] = Idle]
     ELSE
       /\ worker' = [worker EXCEPT ![w] = [phase |-> "ready", job |-> j,
            token |-> worker[w].token, batch |-> b + 1, call |-> 0,
            heard |-> FALSE]]
       /\ UNCHANGED <<status, activeKey, lease>>
  /\ UNCHANGED <<request, attempts, overdue, started, kept, settingVars>>

(***************************************************************************)
(* Failure paths of a run                                                  *)
(***************************************************************************)

\* Any error of a run: a refused transaction, a spent budget, a provider or
\* transport error (heard says whether it answered), an answer the parser
\* refuses, a heartbeat that failed, the deadline, a stop signal.
InterruptReview(w, heard) ==
  /\ worker[w].phase \in Running
  /\ worker[w].phase = "answered" => heard
  /\ worker[w].phase = "ready" => ~heard
  /\ worker' = [worker EXCEPT ![w].heard = heard, ![w].phase =
       IF worker[w].call # 0 THEN "discarding" ELSE "failing"]
  /\ UNCHANGED <<request, queueVars, progressVars, kept, settingVars>>

\* recordDiscardedLlmCall: the receipt of the worker's own call, whatever
\* became of the job meanwhile; no receipt is written twice.
DiscardCall(w) ==
  LET j == worker[w].job  n == worker[w].call  c == calls[j][n]
      open == /\ c.token = worker[w].token /\ ~c.closed
              /\ c.status \in {"dispatched", "unknown"}
  IN
  /\ worker[w].phase = "discarding"
  /\ calls' = IF open THEN [calls EXCEPT ![j] = [@ EXCEPT ![n] = [c EXCEPT
                  !.status = IF worker[w].heard THEN "discarded" ELSE "unknown",
                  !.closed = TRUE]]]
              ELSE calls
  /\ worker' = [worker EXCEPT ![w].phase = "failing"]
  /\ UNCHANGED <<request, queueVars, batch, started, reviewed, errors, reviews,
                 kept, settingVars>>

\* failLlmJob writes only while the worker still holds its lease.
MayFail(w) == Leased(w)

\* failLlmJob.  AiLeaseLost skips it; the lease is then gone for good, so the
\* transaction would not have written either.
FailReview(w) ==
  LET j == worker[w].job IN
  /\ worker[w].phase = "failing"
  /\ \/ MayFail(w) /\ Terminate(j, EndOf(j))
     \/ ~MayFail(w) /\ UNCHANGED <<queueVars, progressVars>>
  /\ worker' = [worker EXCEPT ![w] = Idle]
  /\ UNCHANGED <<request, kept, settingVars>>

\* The process dies in any phase, or is stopped before a call is recorded:
\* the rows stay as they are.
CrashWorker(w) ==
  /\ worker[w].phase # "idle"
  /\ worker' = [worker EXCEPT ![w] = Idle]
  /\ UNCHANGED <<request, queueVars, progressVars, kept, settingVars>>

(***************************************************************************)
(* Time, maintenance and administration                                    *)
(***************************************************************************)

Tick ==
  /\ \E j \in JobIds : lease[j].left > 0
  /\ lease' = [j \in JobIds |-> [token |-> lease[j].token,
       left |-> IF lease[j].left > 0 THEN lease[j].left - 1 ELSE 0]]
  /\ UNCHANGED <<request, status, activeKey, attempts, overdue, progressVars,
                 kept, worker, settingVars>>

\* deadlineAt, thirty minutes after the job was made.
DeadlinePasses(j) ==
  /\ status[j] \in Active /\ ~overdue[j]
  /\ overdue' = [overdue EXCEPT ![j] = TRUE]
  /\ UNCHANGED <<request, status, activeKey, attempts, lease, progressVars,
                 kept, worker, settingVars>>

\* expireLlmInputs drops the frozen inputs of jobs that ended a week ago.
ExpireInput(j) ==
  /\ status[j] \in Terminal /\ kept[j]
  /\ kept' = [kept EXCEPT ![j] = FALSE]
  /\ UNCHANGED <<request, queueVars, progressVars, worker, settingVars>>

\* Role changes, disabled accounts, archival, and saved provider settings.
Administer ==
  /\ \/ /\ \E p \in Projects, members \in SUBSET Users :
             maintainers' = [maintainers EXCEPT ![p] = members]
        /\ UNCHANGED <<archived, config>>
     \/ /\ \E p \in Projects : archived' = [archived EXCEPT ![p] = ~archived[p]]
        /\ UNCHANGED <<maintainers, config>>
     \/ /\ \E c \in Configs \cup {None} : config' = c
        /\ UNCHANGED <<maintainers, archived>>
  /\ UNCHANGED <<request, queueVars, progressVars, kept, worker>>

-----------------------------------------------------------------------------

Init ==
  /\ request \in [JobIds -> {[scan |-> CHOOSE s \in Scans : TRUE,
       requester |-> CHOOSE u \in Users : TRUE,
       config |-> CHOOSE c \in Configs : TRUE,
       plan |-> CHOOSE p \in Plans : TRUE]}]
  /\ status = [j \in JobIds |-> "absent"]
  /\ activeKey = [j \in JobIds |-> FALSE]
  /\ attempts = [j \in JobIds |-> 0]
  /\ lease = [j \in JobIds |-> NoLease]
  /\ overdue = [j \in JobIds |-> FALSE]
  /\ batch = [j \in JobIds |-> 1]
  /\ started = [j \in JobIds |-> 0]
  /\ reviewed = [j \in JobIds |-> 0]
  /\ errors = [j \in JobIds |-> 0]
  /\ kept = [j \in JobIds |-> FALSE]
  /\ calls = [j \in JobIds |-> [n \in CallIds |-> NoCall]]
  /\ reviews = [j \in JobIds |-> [b \in BatchIds |-> 0]]
  /\ worker = [w \in Workers |-> Idle]
  /\ maintainers = [p \in Projects |-> Users]
  /\ archived = [p \in Projects |-> FALSE]
  /\ config \in Configs

\* What runClaimedLlmJob does by itself once the job is claimed.
RunReview(w) ==
  \/ StartCall(w) \/ ReceiveAnswer(w) \/ CompleteToolTurn(w)
  \/ \E saved \in 0 .. MaxBatchSize : PublishBatch(w, saved)
  \/ \E heard \in BOOLEAN : InterruptReview(w, heard)
  \/ DiscardCall(w) \/ FailReview(w)

Next ==
  \/ \E s \in Scans, u \in Users, plan \in Plans : RequestReview(s, u, plan)
  \/ \E j \in JobIds, u \in Users : CancelReview(j, u)
  \/ \E w \in Workers : \/ ClaimReview(w) \/ HeartbeatReview(w)
                        \/ RunReview(w) \/ CrashWorker(w)
  \/ Tick
  \/ \E j \in JobIds : DeadlinePasses(j) \/ ExpireInput(j)
  \/ Administer

\* Workers poll without end and are restarted by their supervisor; a run does
\* not stop between two steps; time passes.
Fairness ==
  /\ \A w \in Workers : WF_vars(ClaimReview(w)) /\ WF_vars(RunReview(w))
  /\ WF_vars(Tick)
  /\ \A j \in JobIds : WF_vars(DeadlinePasses(j))

Spec == Init /\ [][Next]_vars
FairSpec == Spec /\ Fairness

(***************************************************************************)
(* Properties                                                              *)
(***************************************************************************)

Made(j) == {n \in CallIds : calls[j][n].status # "absent"}

\* Nothing is ever sent after an answer was lost or thrown away: a call that
\* is not completed is the last one its job makes, over all recoveries, so an
\* interrupted request is not repeated and its batch is not asked again.
UnusedCallIsLast ==
  \A j \in JobIds : \A n \in Made(j) :
    calls[j][n].status # "completed" => n = started[j]

\* The provider budget holds over all attempts: every row in the journal was
\* paid for, and a batch never takes more turns than the protocol allows.
SpendIsBounded ==
  \A j \in JobIds :
    /\ Made(j) = 1 .. started[j]
    /\ \A b \in BatchIds : Cardinality(CallsOf(j, b)) <=
         IF PlanOf(j).sources THEN Rounds ELSE 1

\* The calls of batch b whose answer became its review.
Published(j, b) == {n \in CallsOf(j, b) : calls[j][n].status = "completed"
                                          /\ ~calls[j][n].tools}

\* Every batch before the current one was published by exactly one review
\* call, no later one was published, and the two counters account for every
\* finding of the published batches.
BatchesArePublishedOnce ==
  \A j \in JobIds :
    LET b == batch[j]  size == PlanOf(j).size IN
    /\ \A k \in BatchIds : Cardinality(Published(j, k)) = IF k < b THEN 1 ELSE 0
    /\ \A k \in BatchIds : reviews[j][k] <= size[k]
    /\ reviewed[j] = SumTo(reviews[j], MaxBatches)
    /\ reviewed[j] + errors[j] = SumTo(size, b - 1)

\* A job says "completed" only when every finding it froze has a review.
CompletedMeansAllReviewed ==
  \A j \in JobIds : status[j] = "completed" =>
    \A b \in BatchIds : b <= PlanOf(j).last => reviews[j][b] = PlanOf(j).size[b]

\* The unique key is set exactly while the job is active: an ended review
\* never keeps its scan from being reviewed again.
KeyIsExact == \A j \in JobIds : activeKey[j] <=> status[j] \in Active

\* Once a job ended, none of its calls is still taken to be under way.
EndedCallsAreSettled ==
  \A j \in JobIds : status[j] \in Terminal =>
    \A n \in CallIds : calls[j][n].status # "dispatched"

\* The journal of calls tells the truth over every recovery: it bounds the
\* spend, names the one call that may be unknown and is settled at the end; and
\* every finding is reviewed and counted once, "completed" meaning all were.
ReviewJobInvariant ==
  /\ TypeOK /\ UnusedCallIsLast /\ SpendIsBounded /\ EndedCallsAreSettled /\ KeyIsExact
  /\ BatchesArePublishedOnce /\ CompletedMeansAllReviewed

\* After the end of a job a late worker may append the receipt of its own call
\* and nothing else: outcome, reviews and counters are final.
EndedIsFinal ==
  [][\A j \in JobIds : status[j] \in Terminal =>
       /\ status'[j] = status[j] /\ batch'[j] = batch[j]
       /\ reviews'[j] = reviews[j] /\ started'[j] = started[j]
       /\ reviewed'[j] = reviewed[j] /\ errors'[j] = errors[j]
       /\ \A n \in CallIds : calls'[j][n] # calls[j][n] =>
            ~calls[j][n].closed /\ calls'[j][n].closed]_vars

\* Nothing is sent and nothing is published for a requester who lost the
\* project, under another configuration than the job was made for, or late.
WorkIsAuthorized ==
  [][\A j \in JobIds :
       started'[j] # started[j] \/ reviews'[j] # reviews[j] =>
         /\ status[j] = "running" /\ ~overdue[j]
         /\ request[j].requester \in maintainers[Project(j)]
         /\ ~archived[Project(j)]
         /\ config = request[j].config]_vars

\* Late work is refused: after the end of the job, after its deadline, and after
\* its requester, project or configuration stopped allowing it.
LateWorkIsRefused == EndedIsFinal /\ WorkIsAuthorized

\* Every requested review ends, through any number of crashes.
EveryReviewEnds ==
  \A j \in JobIds : status[j] \in Active ~> status[j] \in Terminal

=============================================================================
