------------------------------ MODULE AgentRuns ------------------------------
(***************************************************************************)
(* Security agent runs: a run plans dynamic validations of its scan, each  *)
(* plan waits for a decision, an approved plan for evidence, and the run   *)
(* is closed when no approval is open.  A recovered database ends the      *)
(* unfinished ones.                                                        *)
(*                                                                         *)
(* dashboard/src/lib/agent-operations.ts, the status a blueprint gives a   *)
(* run (agent-contract.ts) and what restoreEncryptedBackup (backup.ts)     *)
(* does to runs.  Each operation is one transaction; an error rolls it     *)
(* back.  Decisions of several administrators and evidence of several      *)
(* maintainers are the interleavings of these transactions.                *)
(*                                                                         *)
(* A plan stands for its digest, so that runs of one scan share plans.     *)
(* Only the dynamic stage of a run changes after the run was created, and  *)
(* only that one is kept.  Events, actors and notes are left out.          *)
(***************************************************************************)
EXTENDS Naturals, Sequences

CONSTANTS
  Runs,
  Plans,         \* digests of the dynamic plans a scan gives rise to
  Workspaces,    \* workspace digests
  NoSnapshot     \* a scan without a workspace snapshot

ASSUME AgentRunsAssumption == NoSnapshot \notin Workspaces

VARIABLES
  run,           \* AgentRun.status
  stage,         \* AgentStage.status of the dynamic stage
  snapshot,      \* AgentRun.workspaceSnapshot
  approval,      \* AgentApproval.status, by plan
  overdue,       \* expiresAt passed while the approval was pending
  evidence       \* AgentEvidenceRecord rows, by plan

vars == <<run, stage, snapshot, approval, overdue, evidence>>

Open   == {"awaiting_approval", "awaiting_evidence"}
Closed == {"completed", "partial", "cancelled"}
Results == {"passed", "failed", "timeout", "error"}

\* What the verification harness reports of one executed plan.
Evidence == [scope : Plans, workspace : Workspaces, status : Results]

TypeOK ==
  /\ run \in [Runs -> {"absent"} \cup Open \cup Closed]
  /\ stage \in [Runs -> {"absent", "waiting_approval", "completed", "partial",
                         "failed"}]
  /\ snapshot \in [Runs -> Workspaces \cup {NoSnapshot}]
  /\ approval \in [Runs -> [Plans -> {"absent", "pending", "approved",
                                      "rejected", "consumed", "expired"}]]
  /\ overdue \in [Runs -> [Plans -> BOOLEAN]]
  /\ evidence \in [Runs -> [Plans -> Seq(Evidence)]]

Init ==
  /\ run = [r \in Runs |-> "absent"]
  /\ stage = [r \in Runs |-> "absent"]
  /\ snapshot = [r \in Runs |-> NoSnapshot]
  /\ approval = [r \in Runs |-> [p \in Plans |-> "absent"]]
  /\ overdue = [r \in Runs |-> [p \in Plans |-> FALSE]]
  /\ evidence = [r \in Runs |-> [p \in Plans |-> <<>>]]

(***************************************************************************)
(* Closing a run                                                           *)
(***************************************************************************)

\* An approval of the run still waits for somebody.
Waiting(a) == \E p \in Plans : a[p] \in {"pending", "approved"}

Failures(e) == \E p \in Plans : \E i \in DOMAIN e[p] : e[p][i].status # "passed"
Refusals(a) == \E p \in Plans : a[p] \in {"rejected", "expired"}

EvidenceOnly(a, e) ==  \* mutant: a rejected plan does not count against the run
  IF Failures(e) THEN "partial" ELSE "completed"

FinalStatus(a, e) == IF Failures(e) \/ Refusals(a) THEN "partial" ELSE "completed"

\* finalizeIfTerminal, once run r has the approvals a and the evidence e.
Finalize(r, a, e) ==
  IF Waiting(a)
  THEN UNCHANGED <<run, stage>>
  ELSE /\ run' = [run EXCEPT ![r] = FinalStatus(a, e)]
       /\ stage' = [stage EXCEPT ![r] = FinalStatus(a, e)]

(***************************************************************************)
(* Operations                                                              *)
(***************************************************************************)

\* createSecurityAgentRun: plans are those of the scan's blueprint.
Create(r, plans, w) ==
  /\ run[r] = "absent"
  /\ run' = [run EXCEPT ![r] = IF plans = {} THEN "completed"
                               ELSE "awaiting_approval"]
  /\ stage' = [stage EXCEPT ![r] = IF plans = {} THEN "completed"
                                   ELSE "waiting_approval"]
  /\ snapshot' = [snapshot EXCEPT ![r] = w]
  /\ approval' = [approval EXCEPT ![r] =
                    [p \in Plans |-> IF p \in plans THEN "pending" ELSE "absent"]]
  /\ UNCHANGED <<overdue, evidence>>

\* expiresAt passes.  Only a decision reads it, so it matters while pending.
TimePasses(r, p) ==
  /\ approval[r][p] = "pending" /\ ~overdue[r][p]
  /\ overdue' = [overdue EXCEPT ![r] = [@ EXCEPT ![p] = TRUE]]
  /\ UNCHANGED <<run, stage, snapshot, approval, evidence>>

Undecided(r, p) ==  \* mutant: a decision may be taken again
  approval[r][p] # "absent" /\ ~overdue[r][p]

\* An overdue approval is marked expired and then an error is thrown, which
\* takes the mark back with the transaction: nothing changes.
Decidable(r, p) == approval[r][p] = "pending" /\ ~overdue[r][p]

With(r, p, status) == [approval[r] EXCEPT ![p] = status]

\* decideAgentApproval, decision = "approved"
Approve(r, p) ==
  /\ Decidable(r, p)
  /\ approval' = [approval EXCEPT ![r] = With(r, p, "approved")]
  /\ run' = [run EXCEPT ![r] = "awaiting_evidence"]
  /\ UNCHANGED <<stage, snapshot, overdue, evidence>>

\* decideAgentApproval, decision = "rejected"
Reject(r, p) ==
  /\ Decidable(r, p)
  /\ approval' = [approval EXCEPT ![r] = With(r, p, "rejected")]
  /\ Finalize(r, With(r, p, "rejected"), evidence[r])
  /\ UNCHANGED <<snapshot, overdue, evidence>>

\* The evidence is about the plan, and about the workspace that was scanned.
Matches(r, p, e) ==
  e.scope = p /\ (snapshot[r] = NoSnapshot \/ e.workspace = snapshot[r])

\* ingestAgentEvidence
Ingest(r, p, e) ==
  LET records == [evidence[r] EXCEPT ![p] = Append(@, e)]
  IN /\ approval[r][p] = "approved" /\ Matches(r, p, e)
     /\ evidence' = [evidence EXCEPT ![r] = records]
     /\ approval' = [approval EXCEPT ![r] = With(r, p, "consumed")]
     /\ Finalize(r, With(r, p, "consumed"), records)
     /\ UNCHANGED <<snapshot, overdue>>

\* restoreEncryptedBackup: the run follows the database that is restored.
Interrupts == {"running", "awaiting_approval"}

Restore ==
  /\ run' = [r \in Runs |-> IF run[r] \in Interrupts THEN "cancelled" ELSE run[r]]
  /\ stage' = [r \in Runs |-> IF stage[r] = "waiting_approval" THEN "failed"
                              ELSE stage[r]]
  /\ approval' = [r \in Runs |-> [p \in Plans |->
                    IF approval[r][p] \in {"pending", "approved"} THEN "expired"
                    ELSE approval[r][p]]]
  /\ UNCHANGED <<snapshot, overdue, evidence>>

Next ==
  \/ \E r \in Runs, plans \in SUBSET Plans, w \in Workspaces \cup {NoSnapshot} :
       Create(r, plans, w)
  \/ \E r \in Runs, p \in Plans :
       \/ TimePasses(r, p)
       \/ Approve(r, p)
       \/ Reject(r, p)
       \/ \E e \in Evidence : Ingest(r, p, e)
  \/ Restore

Spec == Init /\ [][Next]_vars

(***************************************************************************)
(* Properties                                                              *)
(***************************************************************************)

\* A closed run has nothing open, so that nobody is asked about it any more;
\* a run that waits for decisions has been approved nothing yet; a dynamic
\* stage that waits belongs to a run that is open.
FollowsApprovals(r) ==
  /\ stage[r] = "waiting_approval" => run[r] \in Open
  /\ run[r] \in {"absent"} \cup Closed => ~Waiting(approval[r])
  /\ run[r] = "awaiting_approval" =>
       \A p \in Plans : approval[r][p] \notin {"approved", "consumed", "expired"}
  /\ run[r] = "absent" => \A p \in Plans : approval[r][p] = "absent"

\* A run is completed exactly when every plan it made has evidence and all
\* the evidence it has says passed (agent-operations.ts:268-289).
CompletedMeansProven(r) ==
  run[r] = "completed" <=>
    /\ run[r] # "absent"
    /\ \A p \in Plans : approval[r][p] \in {"absent", "consumed"}
    /\ ~Failures(evidence[r])

\* An approval is consumed by exactly one record, which is about its plan and
\* about the workspace of the run; nothing else has evidence.
EvidenceAnswersApproval(r) ==
  \A p \in Plans :
    /\ Len(evidence[r][p]) = IF approval[r][p] = "consumed" THEN 1 ELSE 0
    /\ \A i \in DOMAIN evidence[r][p] : Matches(r, p, evidence[r][p][i])

\* The rows of a run agree with each other.
Agrees(r) == /\ FollowsApprovals(r)
             /\ CompletedMeansProven(r)
             /\ EvidenceAnswersApproval(r)

\* Between any two transactions the status of every run, its approvals and
\* its evidence tell the same story.
RunInvariant == TypeOK /\ \A r \in Runs : Agrees(r)

\* A closed run is final: no late decision, no late evidence and no recovery
\* changes its outcome, its approvals or its evidence.  decideAgentApproval
\* sets awaiting_evidence without reading the status of the run.
ClosedIsFinal ==
  [][\A r \in Runs : run[r] \in Closed =>
       /\ run'[r] = run[r] /\ stage'[r] = stage[r]
       /\ approval'[r] = approval[r] /\ evidence'[r] = evidence[r]]_vars

\* Recovery invalidates unfinished work (backup.test.ts:72): a run that is
\* still open has an approval somebody can act on.
OpenRunIsWaiting == \A r \in Runs : run[r] \in Open => Waiting(approval[r])
=============================================================================
