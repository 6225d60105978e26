------------------------------ MODULE ScanJobs ------------------------------
(***************************************************************************)
(* Durable source scans: the job table, the web handlers that enqueue,     *)
(* retry and cancel a scan, and the worker processes that claim a job,     *)
(* pin a commit, store the source snapshot, run the scanner and publish.   *)
(*                                                                         *)
(* dashboard/src/lib/scan-jobs.ts, dashboard/src/lib/scan-worker.ts,       *)
(* dashboard/scripts/scan-worker.mjs, the routes api/projects/[id]/scan    *)
(* and api/scans/[id]/job.                                                 *)
(*                                                                         *)
(* Every database transaction is one step (SQLite serialises writers and   *)
(* writeTransaction repeats a whole rolled-back transaction); between two  *)
(* transactions of one process any other process may run, and a worker may *)
(* crash.  leaseLeft counts the ticks left until leaseExpiresAt; due says  *)
(* whether nextAttemptAt has passed.                                       *)
(***************************************************************************)
EXTENDS Naturals, FiniteSets

CONSTANTS
  Workers,       \* scan worker processes
  Projects,
  Users,         \* accounts with a connected repository provider
  Repositories,  \* values of a project's provider/ownerSlug/providerRepoId
  Commits,       \* immutable commit ids a branch may resolve to
  Contents,      \* file selections one commit may be fetched as (truncation)
  None,          \* the empty string and null
  MaxJobs,       \* bound: rows the job table may hold
  MaxAttempts,   \* ScanJob.maxAttempts
  MaxSkips,      \* jobs one claim transaction may terminate (20 in the code)
  LeaseTicks     \* LEASE_MS in ticks

Sources == [commit : Commits, content : Contents]

ASSUME ScanJobsAssumption ==
  /\ MaxJobs \in Nat /\ MaxAttempts \in Nat \ {0}
  /\ MaxSkips \in Nat \ {0} /\ LeaseTicks \in Nat \ {0}
  /\ None \notin Commits /\ None \notin Sources
  /\ Projects # {} /\ Users # {} /\ Repositories # {}

VARIABLES
  \* ScanJob rows, one function per column, indexed by creation order
  request,      \* what enqueueScan fixed: project, requester, repository
  status,
  activeKey,    \* is the unique key set?  Its value would be the project
  attempts,
  lease,        \* leaseToken (0 is null) and the ticks left of leaseExpiresAt
  due,          \* has nextAttemptAt passed?
  commit,       \* commitSha, None while the branch is not resolved
  source,       \* sourceDigest of the stored snapshot
  stored,       \* is sourceCiphertext still kept?
  result,       \* the source the published report is of
  \* other state
  scan,         \* Scan.status of the scan each job owns
  worker,       \* what each worker process holds in memory
  maintainers,  \* the enabled users with the maintainer role, by project
  archived,     \* Project.archived
  binding,      \* the repository each project is connected to
  retrying      \* the job a retry request has checked but not yet enqueued

queueVars == <<status, activeKey, attempts, lease, due, scan>>
sourceVars == <<commit, source, stored, result>>
projectVars == <<maintainers, archived, binding>>
vars == <<request, queueVars, sourceVars, worker, projectVars, retrying>>

JobIds    == 1 .. MaxJobs
Active    == {"queued", "running"}
Reported  == {"completed", "partial", "failed"}  \* health of a report
Terminal  == Reported \cup {"cancelled"}
Retryable == {"failed", "cancelled", "partial"}

Request == [project : Projects, requester : Users, repository : Repositories,
            retryOf : 0 .. MaxJobs]  \* retryOf is history: the job retried
Lease   == [token : 0 .. MaxAttempts, left : 0 .. LeaseTicks]
NoLease == [token |-> 0, left |-> 0]

\* Phases of runClaimedScan between two transactions of the worker.
Working == {"claimed", "fetch", "store", "scan"}
Holding == Working \cup {"failing"}
WorkerState ==
  [phase     : Holding \cup {"idle"},
   job       : 0 .. MaxJobs,
   token     : 0 .. MaxAttempts,
   commit    : Commits \cup {None},
   source    : Sources \cup {None},
   retryable : BOOLEAN]

Idle == [phase |-> "idle", job |-> 0, token |-> 0, commit |-> None,
         source |-> None, retryable |-> FALSE]

QueueTypes ==
  /\ request \in [JobIds -> Request]
  /\ status \in [JobIds -> {"absent"} \cup Active \cup Terminal]
  /\ activeKey \in [JobIds -> BOOLEAN]
  /\ attempts \in [JobIds -> 0 .. MaxAttempts]
  /\ lease \in [JobIds -> Lease]
  /\ due \in [JobIds -> BOOLEAN]
  /\ scan \in [JobIds -> {"absent", "pending", "running"} \cup Terminal]

SourceTypes ==
  /\ commit \in [JobIds -> Commits \cup {None}]
  /\ source \in [JobIds -> Sources \cup {None}]
  /\ stored \in [JobIds -> BOOLEAN]
  /\ result \in [JobIds -> Sources \cup {None}]

WorkerTypes ==
  /\ worker \in [Workers -> WorkerState]
  /\ \A w \in Workers : worker[w].phase \in Holding => worker[w].job \in JobIds

ProjectTypes ==
  /\ maintainers \in [Projects -> SUBSET Users]
  /\ archived \in [Projects -> BOOLEAN]
  /\ binding \in [Projects -> Repositories]
  /\ retrying \in [Projects -> 0 .. MaxJobs]

TypeOK == QueueTypes /\ SourceTypes /\ WorkerTypes /\ ProjectTypes

(***************************************************************************)
(* Permission and leases                                                   *)
(***************************************************************************)

PermittedAnywhere(j) ==  \* mutant: the repository is not compared
  LET p == request[j].project IN
  request[j].requester \in maintainers[p] /\ ~archived[p]

\* assertJobPermission: the requester is still a maintainer, the project is
\* not archived and still connected to the repository the job was made for.
Permitted(j) ==
  LET p == request[j].project IN
  /\ request[j].requester \in maintainers[p]
  /\ ~archived[p]
  /\ binding[p] = request[j].repository

\* The row worker w claimed is still running under w's unexpired token.
Leased(w) ==
  LET j == worker[w].job IN
  /\ worker[w].phase \in Holding
  /\ status[j] = "running"
  /\ lease[j].token = worker[w].token
  /\ lease[j].left > 0

\* assertJobLease, the check at the head of every transaction of a worker.
LeaseHeld(w) == Leased(w) /\ Permitted(worker[w].job)

ReusedToken(j) == 1  \* mutant: the token is not renewed by a claim

\* randomUUID(): a value no earlier claim of the job was given.
FreshToken(j) == attempts[j] + 1

\* The value terminateJob and completeScanJob leave in activeKey.
KeyAfterEnd(j) == FALSE

\* The columns terminateJob and completeScanJob write in both tables.
End(j, outcome) ==
  /\ status' = [status EXCEPT ![j] = outcome]
  /\ scan' = [scan EXCEPT ![j] = outcome]
  /\ activeKey' = [activeKey EXCEPT ![j] = KeyAfterEnd(j)]
  /\ lease' = [lease EXCEPT ![j] = NoLease]
  /\ UNCHANGED <<attempts, due>>

(***************************************************************************)
(* Web handlers                                                            *)
(***************************************************************************)

HasActive(p) == \E j \in JobIds : request[j].project = p /\ activeKey[j]
NextRow(j) == /\ status[j] = "absent"
              /\ \A i \in JobIds : i < j => status[i] # "absent"

\* The transaction of enqueueScan; pinned is the commit a retry is pinned to.
\* With an active job it changes nothing and answers alreadyQueued.
Enqueue(p, u, pinned, retryOf) ==
  /\ u \in maintainers[p] /\ ~archived[p]
  /\ ~HasActive(p)
  /\ \E j \in JobIds :
       /\ NextRow(j)
       /\ request' = [request EXCEPT ![j] =
            [project |-> p, requester |-> u, repository |-> binding[p],
             retryOf |-> retryOf]]
       /\ status' = [status EXCEPT ![j] = "queued"]
       /\ scan' = [scan EXCEPT ![j] = "pending"]
       /\ activeKey' = [activeKey EXCEPT ![j] = TRUE]
       /\ due' = [due EXCEPT ![j] = TRUE]
       /\ commit' = [commit EXCEPT ![j] = pinned]
  /\ UNCHANGED <<attempts, lease, source, stored, result>>

RequestScan(p, u) ==
  /\ Enqueue(p, u, None, 0)
  /\ UNCHANGED <<worker, projectVars, retrying>>

\* POST api/scans/[id]/job {action: "retry"} reads the job and the project
\* before the transaction of enqueueScan opens.
CheckRetry(j) ==
  LET p == request[j].project IN
  /\ retrying[p] = 0
  /\ status[j] \in Retryable
  /\ binding[p] = request[j].repository
  /\ retrying' = [retrying EXCEPT ![p] = j]
  /\ UNCHANGED <<request, queueVars, sourceVars, worker, projectVars>>

\* The transaction may also answer alreadyQueued, or find access denied.
EnqueueRetry(p, u) ==
  /\ retrying[p] # 0
  /\ retrying' = [retrying EXCEPT ![p] = 0]
  /\ \/ Enqueue(p, u, commit[retrying[p]], retrying[p])
     \/ UNCHANGED <<request, queueVars, sourceVars>>
  /\ UNCHANGED <<worker, projectVars>>

Cancellable(j) == status[j] \in Active

\* cancelScanJob: a maintainer may cancel in an archived project too.
CancelScan(j, u) ==
  /\ Cancellable(j)
  /\ u \in maintainers[request[j].project]
  /\ End(j, "cancelled")
  /\ UNCHANGED <<request, sourceVars, worker, projectVars, retrying>>

(***************************************************************************)
(* Claiming                                                                *)
(***************************************************************************)

EligibleWhenQueued(j) ==  \* mutant: expired leases are not taken over
  status[j] = "queued" /\ due[j]

\* The rows the claim query selects, oldest first.
Eligible(j) ==
  \/ status[j] = "queued" /\ due[j]
  \/ status[j] = "running" /\ lease[j].left = 0

Refused(j) == attempts[j] >= MaxAttempts \/ ~Permitted(j)

\* Eligible rows that precede j in the query's order.
Ahead(j) == {i \in JobIds : i < j /\ Eligible(i)}

\* The loop reaches j: every row ahead was refused, within its 20 rounds.
Reached(j) ==
  /\ Eligible(j)
  /\ Cardinality(Ahead(j)) < MaxSkips
  /\ \A i \in Ahead(j) : Refused(i)

NoSnapshot(j) == None  \* mutant: the stored snapshot is fetched again

\* The snapshot a claim takes over, so that a recovered job scans it again.
Snapshot(j) == IF stored[j] THEN source[j] ELSE None

ClaimedState(j) ==
  [phase |-> "claimed", job |-> j, token |-> FreshToken(j),
   commit |-> commit[j], source |-> Snapshot(j), retryable |-> FALSE]

\* claimScanJob: one transaction fails every refused job it meets, then gives
\* the first other one, if any, to the worker under a fresh token.
ClaimScan(w) ==
  LET dropped == {j \in JobIds : Reached(j) /\ Refused(j)}
      given   == {j \in JobIds : Reached(j) /\ ~Refused(j)}
      After(j, ended, started, kept) ==
        CASE j \in dropped -> ended [] j \in given -> started [] OTHER -> kept
  IN
  /\ worker[w].phase = "idle"
  /\ dropped \cup given # {}
  /\ status' = [j \in JobIds |-> After(j, "failed", "running", status[j])]
  /\ scan' = [j \in JobIds |-> After(j, "failed", "running", scan[j])]
  /\ activeKey' = [j \in JobIds |->
       After(j, KeyAfterEnd(j), activeKey[j], activeKey[j])]
  /\ attempts' = [j \in JobIds |->
       After(j, attempts[j], attempts[j] + 1, attempts[j])]
  /\ lease' = [j \in JobIds |->
       After(j, NoLease, [token |-> FreshToken(j), left |-> LeaseTicks],
             lease[j])]
  /\ \/ given = {} /\ UNCHANGED worker
     \/ \E j \in given : worker' = [worker EXCEPT ![w] = ClaimedState(j)]
  /\ UNCHANGED <<request, due, sourceVars, projectVars, retrying>>

(***************************************************************************)
(* A worker's run of one claimed job                                       *)
(***************************************************************************)

\* heartbeatScanJob, every 10 s beside the run.
HeartbeatScan(w) ==
  /\ worker[w].phase \in Working
  /\ LeaseHeld(w)
  /\ lease' = [lease EXCEPT ![worker[w].job] =
       [token |-> worker[w].token, left |-> LeaseTicks]]
  /\ UNCHANGED <<request, status, activeKey, attempts, due, scan, sourceVars,
                 worker, projectVars, retrying>>

\* The lease check runClaimedScan opens with.  A stored snapshot is reused, so
\* a recovered job scans the same source; otherwise the source is fetched.
StartScan(w) ==
  /\ worker[w].phase = "claimed"
  /\ LeaseHeld(w)
  /\ worker' = [worker EXCEPT ![w].phase =
       IF worker[w].source # None THEN "scan" ELSE "fetch"]
  /\ UNCHANGED <<request, queueVars, sourceVars, projectVars, retrying>>

\* What the provider resolves the requested ref, or a pinned commit, to.
Resolved(w) ==
  IF worker[w].commit = None THEN Commits ELSE {worker[w].commit}

\* pinJobCommit, called by fetchRepoCode once the ref is resolved; the files
\* are then read at that commit.
PinCommit(w) ==
  LET j == worker[w].job IN
  /\ worker[w].phase = "fetch"
  /\ LeaseHeld(w)
  /\ \E c \in Resolved(w), content \in Contents :
       /\ commit[j] \in {None, c}
       /\ commit' = [commit EXCEPT ![j] = c]
       /\ worker' = [worker EXCEPT ![w] =
            [phase |-> "store", job |-> j, token |-> worker[w].token,
             commit |-> c, source |-> [commit |-> c, content |-> content],
             retryable |-> FALSE]]
  /\ UNCHANGED <<request, queueVars, source, stored, result, projectVars,
                 retrying>>

\* The transaction that stores the encrypted snapshot for recovery.
StoreSnapshot(w) ==
  LET j == worker[w].job IN
  /\ worker[w].phase = "store"
  /\ LeaseHeld(w)
  /\ source' = [source EXCEPT ![j] = worker[w].source]
  /\ stored' = [stored EXCEPT ![j] = TRUE]
  /\ worker' = [worker EXCEPT ![w].phase = "scan"]
  /\ UNCHANGED <<request, queueVars, commit, result, projectVars, retrying>>

\* importSarif with completeScanJob as its last write: findings, scan and job
\* change in one transaction.  health is the health of the report.
PublishScan(w, health) ==
  LET j == worker[w].job IN
  /\ worker[w].phase = "scan"
  /\ LeaseHeld(w)
  /\ scan[j] = "running"
  /\ End(j, health)
  /\ result' = [result EXCEPT ![j] = worker[w].source]
  /\ worker' = [worker EXCEPT ![w] = Idle]
  /\ UNCHANGED <<request, commit, source, stored, projectVars, retrying>>

(***************************************************************************)
(* Failure paths of a run                                                  *)
(***************************************************************************)

\* LeaseLost: the worker stops without writing.
AbandonScan(w) ==
  /\ worker[w].phase \in Working
  /\ ~Leased(w)
  /\ worker' = [worker EXCEPT ![w] = Idle]
  /\ UNCHANGED <<request, queueVars, sourceVars, projectVars, retrying>>

\* An error in a working phase.  It is not retried when permission was denied
\* or the 15 minute deadline passed, and retried otherwise: fetch, scanner or
\* publication failed, or the process is shutting down.  A permission denied
\* in a progress write surfaces as a scanner failure and is retried.
InterruptScan(w, retryable) ==
  /\ worker[w].phase \in Working
  /\ worker' = [worker EXCEPT ![w] =
       [phase |-> "failing", job |-> worker[w].job, token |-> worker[w].token,
        commit |-> None, source |-> None, retryable |-> retryable]]
  /\ UNCHANGED <<request, queueVars, sourceVars, projectVars, retrying>>

ScanForgotten(j) == scan[j]  \* mutant: the scan row keeps saying running

\* failScanJob tells the users of the scan that it waits again.
ScanAfterRequeue(j) == "pending"

Requeue(j) ==
  /\ status' = [status EXCEPT ![j] = "queued"]
  /\ scan' = [scan EXCEPT ![j] = ScanAfterRequeue(j)]
  /\ lease' = [lease EXCEPT ![j] = NoLease]
  /\ due' = [due EXCEPT ![j] = FALSE]
  /\ UNCHANGED <<activeKey, attempts>>

\* failScanJob: nothing is written unless the worker still holds the lease.
FailScan(w) ==
  LET j == worker[w].job
      again == worker[w].retryable /\ attempts[j] < MaxAttempts
  IN
  /\ worker[w].phase = "failing"
  /\ \/ Leased(w) /\ again /\ Requeue(j)
     \/ Leased(w) /\ ~again /\ End(j, "failed") 
     \/ ~Leased(w) /\ UNCHANGED queueVars
  /\ worker' = [worker EXCEPT ![w] = Idle]
  /\ UNCHANGED <<request, sourceVars, projectVars, retrying>>

\* The process dies, or the error path itself fails: the row keeps its lease.
CrashWorker(w) ==
  /\ worker[w].phase # "idle"
  /\ worker' = [worker EXCEPT ![w] = Idle]
  /\ UNCHANGED <<request, queueVars, sourceVars, projectVars, retrying>>

(***************************************************************************)
(* Time, maintenance and administration                                    *)
(***************************************************************************)

Tick ==
  /\ \E j \in JobIds : lease[j].left > 0
  /\ lease' = [j \in JobIds |->
       [token |-> lease[j].token,
        left |-> IF lease[j].left > 0 THEN lease[j].left - 1 ELSE 0]]
  /\ UNCHANGED <<request, status, activeKey, attempts, due, scan, sourceVars,
                 worker, projectVars, retrying>>

BackoffElapses(j) ==
  /\ status[j] = "queued" /\ ~due[j]
  /\ due' = [due EXCEPT ![j] = TRUE]
  /\ UNCHANGED <<request, status, activeKey, attempts, lease, scan, sourceVars,
                 worker, projectVars, retrying>>

\* Hourly maintenance drops snapshots of jobs that ended a week ago.
ExpireSource(j) ==
  /\ status[j] \in Terminal /\ stored[j]
  /\ stored' = [stored EXCEPT ![j] = FALSE]
  /\ UNCHANGED <<request, queueVars, commit, source, result, worker,
                 projectVars, retrying>>

\* Role changes, disabled accounts, archival and reconnection of a project.
Administer(p) ==
  /\ \/ /\ \E members \in SUBSET Users :
             maintainers' = [maintainers EXCEPT ![p] = members]
        /\ UNCHANGED <<archived, binding>>
     \/ /\ archived' = [archived EXCEPT ![p] = ~archived[p]]
        /\ UNCHANGED <<maintainers, binding>>
     \/ /\ \E r \in Repositories : binding' = [binding EXCEPT ![p] = r]
        /\ UNCHANGED <<maintainers, archived>>
  /\ UNCHANGED <<request, queueVars, sourceVars, worker, retrying>>

-----------------------------------------------------------------------------

Init ==
  /\ request = [j \in JobIds |->
       [project |-> CHOOSE p \in Projects : TRUE,
        requester |-> CHOOSE u \in Users : TRUE,
        repository |-> CHOOSE r \in Repositories : TRUE, retryOf |-> 0]]
  /\ status = [j \in JobIds |-> "absent"]
  /\ activeKey = [j \in JobIds |-> FALSE]
  /\ attempts = [j \in JobIds |-> 0]
  /\ lease = [j \in JobIds |-> NoLease]
  /\ due = [j \in JobIds |-> FALSE]
  /\ commit = [j \in JobIds |-> None]
  /\ source = [j \in JobIds |-> None]
  /\ stored = [j \in JobIds |-> FALSE]
  /\ result = [j \in JobIds |-> None]
  /\ scan = [j \in JobIds |-> "absent"]
  /\ worker = [w \in Workers |-> Idle]
  /\ maintainers = [p \in Projects |-> Users]
  /\ archived = [p \in Projects |-> FALSE]
  /\ binding \in [Projects -> Repositories]
  /\ retrying = [p \in Projects |-> 0]

\* What runClaimedScan does by itself once the job is claimed.
RunScan(w) ==
  \/ StartScan(w) \/ PinCommit(w) \/ StoreSnapshot(w)
  \/ \E health \in Reported : PublishScan(w, health)
  \/ AbandonScan(w)
  \/ \E retryable \in BOOLEAN : InterruptScan(w, retryable)
  \/ FailScan(w)

Next ==
  \/ \E p \in Projects, u \in Users : RequestScan(p, u) \/ EnqueueRetry(p, u)
  \/ \E j \in JobIds : CheckRetry(j)
  \/ \E j \in JobIds, u \in Users : CancelScan(j, u)
  \/ \E w \in Workers :
       ClaimScan(w) \/ HeartbeatScan(w) \/ RunScan(w) \/ CrashWorker(w)
  \/ Tick
  \/ \E j \in JobIds : BackoffElapses(j) \/ ExpireSource(j)
  \/ \E p \in Projects : Administer(p)

\* Workers poll without end and are restarted by their supervisor; a claimed
\* run ends at the latest by its deadline; time passes.
Fairness ==
  /\ \A w \in Workers : WF_vars(ClaimScan(w)) /\ WF_vars(RunScan(w))
  /\ WF_vars(Tick)
  /\ \A j \in JobIds : WF_vars(BackoffElapses(j))

Spec == Init /\ [][Next]_vars
FairSpec == Spec /\ Fairness

(***************************************************************************)
(* Properties                                                              *)
(***************************************************************************)

\* The unique activeKey is set exactly while the job is queued or running, so
\* a project never has two active scans and is never blocked by an ended one.
ActiveKeyIsExact ==
  /\ \A j \in JobIds : activeKey[j] <=> status[j] \in Active
  /\ \A i, j \in JobIds :
       activeKey[i] /\ activeKey[j] /\ request[i].project = request[j].project
       => i = j

\* The scan row shown to users and the job row it belongs to never disagree,
\* whichever of the six transactions wrote them last.
ScanAgreesWithJob ==
  \A j \in JobIds :
    scan[j] = CASE status[j] = "queued" -> "pending"
                [] OTHER -> status[j]

\* Job rows, scan rows and project keys agree after every transaction.
JobInvariant == ActiveKeyIsExact /\ ScanAgreesWithJob

\* Fencing: however many workers still believe they run a job, at most one of
\* them passes the lease check, so a recovered job has one writer.
OneLeaseHolder ==
  \A v, w \in Workers :
    Leased(v) /\ Leased(w) /\ worker[v].job = worker[w].job => v = w

\* The lease holder's copy of the row is not stale: every transaction it still
\* makes is about the commit and the snapshot the row has now.
HolderIsCurrent ==
  \A w \in Workers : Leased(w) =>
    LET j == worker[w].job IN
    /\ worker[w].phase \in {"claimed", "fetch", "store", "scan"} =>
         worker[w].commit = commit[j]
    /\ worker[w].phase = "scan" =>
         stored[j] /\ worker[w].source = source[j]

\* A published report is of the snapshot the job stored, which is of the commit
\* the job was pinned to, over any number of workers and recoveries.
ReportIsOfPinnedSource ==
  \A j \in JobIds :
    /\ source[j] # None => source[j].commit = commit[j]
    /\ result[j] # None => result[j] = source[j]

\* The pinned commit and the stored snapshot are chosen once: a retry after a
\* crash, a lost lease or a failure analyses the same source.
SourceIsChosenOnce ==
  [][\A j \in JobIds : status[j] # "absent" =>
       /\ commit[j] # None => commit'[j] = commit[j]
       /\ source[j] # None => source'[j] = source[j]]_vars

\* The retry route refuses a retry after the repository connection changed,
\* so a retried job stays in the repository its commit was pinned in.
RetryStaysInRepository ==
  \A j \in JobIds : request[j].retryOf # 0 =>
    request[j].repository = request[request[j].retryOf].repository

\* Every enqueued job ends, through any number of crashes and lost leases.
EveryJobEnds ==
  \A j \in JobIds : status[j] \in Active ~> status[j] \in Terminal

\* A row has a token exactly while it runs, one that some claim issued.
RowTokens ==
  \A j \in JobIds :
    /\ lease[j].token <= attempts[j]
    /\ status[j] = "running" <=> lease[j].token # 0

\* A token is spent by the claim that issued it: no two processes ever hold
\* the same token of one job, so replacing a token excludes its former holder.
TokensAreUnique ==
  /\ \A w \in Workers : worker[w].phase \in Holding =>
       worker[w].token \in 1 .. attempts[worker[w].job]
  /\ \A v, w \in Workers :
       /\ worker[v].phase \in Holding /\ worker[w].phase \in Holding
       /\ worker[v].job = worker[w].job /\ worker[v].token = worker[w].token
       => v = w

\* Worker w is the last one its job was given to, whether or not its lease has
\* expired meanwhile.
Holds(w) ==
  /\ worker[w].phase \in Holding
  /\ status[worker[w].job] = "running"
  /\ lease[worker[w].job].token = worker[w].token

\* What the copies of the last claimer have to do with the row, by phase.
CopiesAreCurrent ==
  \A w \in Workers : Holds(w) =>
    LET j == worker[w].job  mine == worker[w].source IN
    /\ worker[w].phase \in Working => worker[w].commit = commit[j]
    /\ worker[w].phase = "claimed" => mine = source[j]
    /\ worker[w].phase = "fetch" => source[j] = None
    /\ worker[w].phase = "store" =>
         source[j] = None /\ mine # None /\ mine.commit = commit[j]
    /\ worker[w].phase = "scan" => source[j] # None /\ mine = source[j]

\* What a row keeps of its source, by status.
RowsAreConsistent ==
  \A j \in JobIds :
    /\ status[j] = "absent" => source[j] = None /\ commit[j] = None /\ ~stored[j]
    /\ status[j] \in Active => (stored[j] <=> source[j] # None)
    /\ source[j] # None => source[j].commit = commit[j]
    /\ result[j] # None => result[j] = source[j] /\ status[j] \in Terminal

\* The inductive invariant of fencing and of the choice of the source.
FencingInvariant ==
  /\ TypeOK /\ RowTokens /\ TokensAreUnique
  /\ CopiesAreCurrent /\ RowsAreConsistent

\* The queue keeps the promise of ScanContract: no late worker, failure report,
\* cancellation or maintenance changes what ended, and evidence reaches a
\* project only while its requester may still scan the same repository.
Contract == INSTANCE ScanContract WITH
  Jobs <- JobIds,
  Reports <- Sources,
  Outcomes <- Terminal,
  stage <- [j \in JobIds |->
               CASE status[j] = "queued"  -> "waiting"
                 [] status[j] = "running" -> "working"
                 [] OTHER -> status[j]],
  pin <- [j \in JobIds |-> commit[j]],
  report <- [j \in JobIds |-> result[j]],
  allowed <- [j \in JobIds |->
    LET p == request[j].project IN
    /\ request[j].requester \in maintainers[p] /\ ~archived[p]
    /\ binding[p] = request[j].repository]

KeepsContract == Contract!Spec

=============================================================================
