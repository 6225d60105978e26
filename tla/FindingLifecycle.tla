-------------------------- MODULE FindingLifecycle --------------------------
(***************************************************************************)
(* What becomes of one project's findings over many scans: importing a     *)
(* report, the identity a finding keeps from scan to scan on the default   *)
(* branch, its triage with optimistic versions, its expiry, its absence,   *)
(* and the tickets filed for it.                                           *)
(*                                                                         *)
(* dashboard/src/lib/sarif-import.ts (importSarif), scan-reconciliation.ts *)
(* (publishScanImport), finding-lifecycle.ts, finding-workflow.ts and the  *)
(* routes api/findings/[id] and api/findings/[id]/jira.                    *)
(*                                                                         *)
(* A key is a fingerprint together with its scope (repository, module and  *)
(* rule).  A report is the set of keys it observed and the set of keys     *)
(* whose scope it measured.  Scans are numbered by createdAt; a queued     *)
(* scan is published long after it was created, an upload at once.         *)
(* Severity and message only decide a label of the import and are left     *)
(* out, and so is the migration of identities made before version 2.       *)
(***************************************************************************)
EXTENDS Naturals, FiniteSets

CONSTANTS
  Branches,
  Keys,
  Users,          \* triagers of the project
  Requests,       \* ticket requests that may be under way at once
  Statuses,       \* triage statuses; triaged and confirmed behave as accepted_risk
  None,           \* no change, no ticket
  MaxScans,       \* bound: scans of the project
  MaxRevision,    \* bound: a finding is not loaded at a higher revision
  MaxIssues,      \* bound: issues created in Jira
  MaxMoves        \* bound: changes of the default branch

ASSUME FindingLifecycleAssumption ==
  /\ {MaxScans, MaxRevision, MaxIssues, MaxMoves} \subseteq Nat
  /\ {"open", "fixed", "false_positive"} \subseteq Statuses
  /\ None \notin Statuses /\ None \notin Nat /\ Branches # {}

VARIABLES
  scan,           \* Scan.status by scan number
  branchOf,       \* Scan.branch
  finding,        \* Finding rows: what a scan observed of a key
  identity,       \* FindingIdentity rows, by key
  lastEvent,      \* toStatus of the last FindingTriageEvent of an identity
  defaultBranch,  \* Project.defaultBranch
  archived,       \* Project.archived
  shown,          \* the finding each user has loaded for triage
  filing,         \* the ticket requests under way
  issues,         \* number of issues created in Jira
  moves           \* bound: how often the default branch changed

scanVars == <<scan, branchOf>>
projectVars == <<defaultBranch, archived, moves>>
clientVars == <<shown, filing, issues>>
vars == <<scanVars, finding, identity, lastEvent, projectVars, clientVars>>

ScanIds   == 1 .. MaxScans
Health    == {"completed", "partial", "failed"}
Expiry    == {"none", "future", "passed"}      \* triageExpiresAt
Tickets   == (1 .. MaxIssues) \cup {None}
Decided   == {"fixed", "false_positive"}       \* decisions a return reopens

Finding == [present : BOOLEAN, current : BOOLEAN, linked : BOOLEAN,
            status : Statuses, ticket : Tickets]
NoFinding == [present |-> FALSE, current |-> FALSE, linked |-> FALSE,
              status |-> "open", ticket |-> None]

Identity == [exists : BOOLEAN, status : Statuses, expires : Expiry,
             absent : BOOLEAN, ticket : Tickets, revision : Nat]
NoIdentity == [exists |-> FALSE, status |-> "open", expires |-> "none",
               absent |-> FALSE, ticket |-> None, revision |-> 0]

\* A loaded finding: its row, and the version and workflow shown with it.
Shown == [loaded : BOOLEAN, scan : 0 .. MaxScans, key : Keys \cup {None},
          linked : BOOLEAN, revision : Nat, status : Statuses,
          expires : Expiry, ticket : Tickets]
NotShown == [loaded |-> FALSE, scan |-> 0, key |-> None, linked |-> FALSE,
             revision |-> 0, status |-> "open", expires |-> "none",
             ticket |-> None]

\* The context prepareFindingTicket returns, and the issue Jira created.
Filing == [step : {"idle", "prepared", "created"}, scan : 0 .. MaxScans,
           key : Keys \cup {None}, linked : BOOLEAN, issue : Tickets]
NotFiling == [step |-> "idle", scan |-> 0, key |-> None, linked |-> FALSE,
              issue |-> None]

TypeOK ==
  /\ scan \in [ScanIds -> {"absent", "running"} \cup Health]
  /\ branchOf \in [ScanIds -> Branches]
  /\ finding \in [ScanIds -> [Keys -> Finding]]
  /\ identity \in [Keys -> Identity]
  /\ lastEvent \in [Keys -> Statuses]
  /\ defaultBranch \in Branches /\ archived \in BOOLEAN /\ moves \in 0 .. MaxMoves
  /\ shown \in [Users -> Shown] /\ filing \in [Requests -> Filing]
  /\ issues \in 0 .. MaxIssues
  /\ \A s \in ScanIds, k \in Keys :
       /\ finding[s][k].present => scan[s] \in Health
       /\ finding[s][k].linked => identity[k].exists

(***************************************************************************)
(* Importing a report                                                      *)
(***************************************************************************)

NoneNewer(s, b) == FALSE  \* mutant: a slow scan supersedes a newer one

\* A newer request of the branch was already published.
Newer(s, b) ==
  \E t \in ScanIds : /\ t > s /\ branchOf[t] = b
                     /\ scan[t] \in {"completed", "partial"}

\* The import replaces what the branch is known to contain.
Baseline(s, b, health) == ~Newer(s, b) /\ health # "failed"

\* Identities are read and written.
Identifies(s, b, health) == Baseline(s, b, health) /\ b = defaultBranch

ReconcilesPartial(s, b, health) ==  \* mutant: a partial scan proves absence
  Identifies(s, b, health)

\* canReconcileScanAbsence
Reconciles(s, b, health) == Identifies(s, b, health) /\ health = "completed"

\* classifyFindingBaseline calls the finding regressed.
Regressed(k) == identity[k].absent \/ identity[k].status = "fixed"

ReopensRegressed(k) == Regressed(k)  \* mutant: every decision is reopened

\* A decision that said the finding is gone or harmless is withdrawn.
Reopens(k) == Regressed(k) /\ identity[k].status \in Decided

ReopenedSilently(k) ==  \* mutant: reopening does not move the revision
  IF Reopens(k) THEN [identity[k] EXCEPT !.status = "open", !.absent = FALSE]
  ELSE [identity[k] EXCEPT !.exists = TRUE, !.absent = FALSE]

\* The identity of a key a default-branch scan observed.
Observed(k) ==
  LET old == identity[k]
      cleared == Reopens(k) \/ old.expires = "passed"
  IN CASE ~old.exists -> [NoIdentity EXCEPT !.exists = TRUE]
       [] old.exists /\ cleared ->
            [old EXCEPT !.status = "open", !.expires = "none", !.absent = FALSE,
                        !.revision = @ + 1]
       [] OTHER -> [old EXCEPT !.absent = FALSE]

\* The identity of a key whose scope was measured and that was not observed.
Absent(k) ==
  IF identity[k].exists /\ ~identity[k].absent
  THEN [identity[k] EXCEPT !.absent = TRUE, !.revision = @ + 1]
  ELSE identity[k]

\* The identities after the import of scan s.
Identities(s, b, health, seen, measured) ==
  [k \in Keys |->
     CASE Identifies(s, b, health) /\ k \in seen -> Observed(k)
       [] Reconciles(s, b, health) /\ k \in measured \ seen -> Absent(k)
       [] OTHER -> identity[k]]

\* importSarif writes a system triage event for the identity.
SystemEvent(k) ==
  identity[k].exists /\ (identity[k].expires = "passed" \/ Reopens(k))

\* The row of an observed key; findingManagement copies the identity's.
NewRow(k, linked, current, i) ==
  [present |-> TRUE, current |-> current, linked |-> linked,
   status |-> IF linked THEN i.status ELSE "open",
   ticket |-> IF linked THEN i.ticket ELSE None]

SupersededIfSeen(f, s, b, health, k, seen, measured) ==
  k \in seen  \* mutant: rows of absent findings are not retired

\* publishScanImport retires an older row of the branch: by the identity the
\* new row has, by the fingerprint of a new row without one, or because its
\* scope was measured.
Superseded(f, s, b, health, k, seen, measured) ==
  \/ Identifies(s, b, health) /\ k \in seen /\ f.linked
  \/ ~Identifies(s, b, health) /\ k \in seen
  \/ Reconciles(s, b, health) /\ k \in measured

\* importSarif with publishScanImport: one transaction.
Import(s, b, health, seen, measured) ==
  LET linked == Identifies(s, b, health)
      current == Baseline(s, b, health)
      after == Identities(s, b, health, seen, measured)
      Retire(f, k) ==
        IF current /\ f.current /\ Superseded(f, s, b, health, k, seen, measured)
        THEN [f EXCEPT !.current = FALSE] ELSE f
  IN
  /\ ~archived
  /\ scan' = [scan EXCEPT ![s] = health]
  /\ branchOf' = [branchOf EXCEPT ![s] = b]
  /\ identity' = after
  /\ lastEvent' = [k \in Keys |->
       IF linked /\ k \in seen /\ SystemEvent(k) THEN "open" ELSE lastEvent[k]]
  /\ finding' = [t \in ScanIds |-> [k \in Keys |->
       CASE t = s /\ k \in seen -> NewRow(k, linked, current, after[k])
         [] t # s /\ branchOf[t] = b -> Retire(finding[t][k], k)
         [] OTHER -> finding[t][k]]]
  /\ UNCHANGED <<projectVars, clientVars>>

NextScan(s) == /\ scan[s] = "absent"
               /\ \A t \in ScanIds : t < s => scan[t] # "absent"

\* A repository scan is reserved when it is requested.
RequestScan(b) ==
  \E s \in ScanIds :
    /\ NextScan(s) /\ ~archived
    /\ scan' = [scan EXCEPT ![s] = "running"]
    /\ branchOf' = [branchOf EXCEPT ![s] = b]
    /\ UNCHANGED <<finding, identity, lastEvent, projectVars, clientVars>>

\* The report of a reserved scan arrives, in any order.
PublishScan(s, health, seen, measured) ==
  /\ scan[s] = "running"
  /\ Import(s, branchOf[s], health, seen, measured)

\* An uploaded report makes its scan in the importing transaction.
UploadScan(b, health, seen, measured) ==
  \E s \in ScanIds : NextScan(s) /\ Import(s, b, health, seen, measured)

(***************************************************************************)
(* Triage                                                                  *)
(***************************************************************************)

\* The workflow a finding is shown with: its identity's when it has one.
\* An observation's version is a digest of the workflow itself.
Workflow(s, k) ==
  LET f == finding[s][k]  i == identity[k] IN
  [loaded |-> TRUE, scan |-> s, key |-> k, linked |-> f.linked,
   revision |-> IF f.linked THEN i.revision ELSE 0,
   status |-> IF f.linked THEN i.status ELSE f.status,
   expires |-> IF f.linked THEN i.expires ELSE "none",
   ticket |-> IF f.linked THEN i.ticket ELSE f.ticket]

\* GET api/findings/[id]
LoadFinding(u, s, k) ==
  /\ finding[s][k].present
  /\ Workflow(s, k).revision < MaxRevision
  /\ shown' = [shown EXCEPT ![u] = Workflow(s, k)]
  /\ UNCHANGED <<scanVars, finding, identity, lastEvent, projectVars, filing,
                 issues>>

\* patch.expectedVersion is the version of the row now.
SameVersion(v, now) ==
  IF v.linked THEN v.revision = now.revision
              ELSE v.status = now.status /\ v.ticket = now.ticket

Patched(i, status, expires) ==
  IF status = None THEN [i EXCEPT !.revision = @ + 1]
  ELSE [i EXCEPT !.status = status, !.expires = expires, !.revision = @ + 1]

\* The rows a workflow change of an identity is copied to.
Moves(f) == f.linked /\ f.current

\* updateFindingWorkflow; status None is a change of the assignment only.
PatchFinding(u, status, expires) ==
  LET v == shown[u]  s == v.scan  k == v.key IN
  /\ v.loaded /\ ~archived
  /\ SameVersion(v, Workflow(s, k))
  /\ IF v.linked THEN
       /\ identity' = [identity EXCEPT ![k] = Patched(@, status, expires)]
       /\ lastEvent' = [lastEvent EXCEPT ![k] = IF status = None THEN @ ELSE status]
       /\ finding' = [t \in ScanIds |-> [finding[t] EXCEPT ![k].status =
            IF status # None /\ Moves(finding[t][k]) THEN status ELSE @]]
     ELSE
       /\ expires = "none"
       /\ finding' = [finding EXCEPT ![s][k].status = IF status = None THEN @ ELSE status]
       /\ UNCHANGED <<identity, lastEvent>>
  /\ shown' = [shown EXCEPT ![u] = NotShown]
  /\ UNCHANGED <<scanVars, projectVars, filing, issues>>

\* The decision of an identity outlives its date.
ExpireTriage(k) ==
  /\ identity[k].expires = "future"
  /\ identity' = [identity EXCEPT ![k].expires = "passed"]
  /\ UNCHANGED <<scanVars, finding, lastEvent, projectVars, clientVars>>

(***************************************************************************)
(* Tickets                                                                 *)
(***************************************************************************)

\* prepareFindingTicket; a finding with a ticket is answered with it.
PrepareTicket(q, s, k) ==
  /\ filing[q].step = "idle" /\ ~archived
  /\ finding[s][k].present
  /\ Workflow(s, k).ticket = None
  /\ filing' = [filing EXCEPT ![q] = [step |-> "prepared", scan |-> s, key |-> k,
       linked |-> finding[s][k].linked, issue |-> None]]
  /\ UNCHANGED <<scanVars, finding, identity, lastEvent, projectVars, shown,
                 issues>>

\* Jira creates the issue, between two transactions.
CreateIssue(q) ==
  /\ filing[q].step = "prepared" /\ issues < MaxIssues
  /\ issues' = issues + 1
  /\ filing' = [filing EXCEPT ![q].step = "created", ![q].issue = issues + 1]
  /\ UNCHANGED <<scanVars, finding, identity, lastEvent, projectVars, shown>>

LinksAlways(ticket, issue) == TRUE  \* mutant: an existing ticket is replaced

\* The row still has no ticket, or has this one.
Links(ticket, issue) == ticket \in {None, issue}

\* recordFindingTicket.  An issue that is not linked is kept in the audit log.
RecordTicket(q) ==
  LET r == filing[q]  k == r.key IN
  /\ r.step = "created"
  /\ IF r.linked THEN
       IF Links(identity[k].ticket, r.issue) THEN
         /\ identity' = [identity EXCEPT ![k].ticket = r.issue,
                                         ![k].revision = @ + 1]
         /\ finding' = [t \in ScanIds |-> [finding[t] EXCEPT ![k].ticket =
              IF Moves(finding[t][k]) THEN r.issue ELSE @]]
       ELSE UNCHANGED <<identity, finding>>
     ELSE
       /\ finding' = [finding EXCEPT ![r.scan][k].ticket =
            IF Links(@, r.issue) THEN r.issue ELSE @]
       /\ UNCHANGED identity
  /\ filing' = [filing EXCEPT ![q] = NotFiling]
  /\ UNCHANGED <<scanVars, lastEvent, projectVars, shown, issues>>

\* Jira refuses, or the request dies before its receipt is recorded.
AbandonTicket(q) ==
  /\ filing[q].step # "idle"
  /\ filing' = [filing EXCEPT ![q] = NotFiling]
  /\ UNCHANGED <<scanVars, finding, identity, lastEvent, projectVars, shown,
                 issues>>

(***************************************************************************)
(* The project                                                             *)
(***************************************************************************)

MoveDefaultBranch(b) ==
  /\ moves < MaxMoves /\ b # defaultBranch
  /\ defaultBranch' = b /\ moves' = moves + 1
  /\ UNCHANGED <<scanVars, finding, identity, lastEvent, archived, clientVars>>

ArchiveProject ==
  /\ archived' = ~archived
  /\ UNCHANGED <<scanVars, finding, identity, lastEvent, defaultBranch, moves,
                 clientVars>>

-----------------------------------------------------------------------------

Init ==
  /\ scan = [s \in ScanIds |-> "absent"]
  /\ branchOf = [s \in ScanIds |-> CHOOSE b \in Branches : TRUE]
  /\ finding = [s \in ScanIds |-> [k \in Keys |-> NoFinding]]
  /\ identity = [k \in Keys |-> NoIdentity]
  /\ lastEvent = [k \in Keys |-> "open"]
  /\ defaultBranch = CHOOSE b \in Branches : TRUE
  /\ archived = FALSE
  /\ shown = [u \in Users |-> NotShown]
  /\ filing = [q \in Requests |-> NotFiling]
  /\ issues = 0 /\ moves = 0

Next ==
  \/ \E b \in Branches : RequestScan(b) \/ MoveDefaultBranch(b)
  \/ \E health \in Health, seen, measured \in SUBSET Keys :
       \/ \E s \in ScanIds : PublishScan(s, health, seen, measured)
       \/ \E b \in Branches : UploadScan(b, health, seen, measured)
  \/ \E u \in Users :
       \/ \E s \in ScanIds, k \in Keys : LoadFinding(u, s, k)
       \/ \E status \in Statuses, expires \in {"none", "future"} :
            PatchFinding(u, status, expires)
       \/ PatchFinding(u, None, "none")
  \/ \E q \in Requests :
       \/ \E s \in ScanIds, k \in Keys : PrepareTicket(q, s, k)
       \/ CreateIssue(q) \/ RecordTicket(q) \/ AbandonTicket(q)
  \/ \E k \in Keys : ExpireTriage(k)
  \/ ArchiveProject

Spec == Init /\ [][Next]_vars

(***************************************************************************)
(* Properties                                                              *)
(***************************************************************************)

\* A finding the program takes to be on a branch now has one current row
\* there, so it is counted, reviewed and ticketed once.
OneCurrentRow ==
  \A s, t \in ScanIds, k \in Keys :
    /\ finding[s][k].current /\ finding[t][k].current
    /\ branchOf[s] = branchOf[t]
    => s = t

\* Evidence never goes back in time: while a row of a scan is current, no row
\* of an older scan of the branch becomes current, whenever that is published.
CurrentNeverGoesBack ==
  [][\A s, t \in ScanIds, k \in Keys :
       /\ finding[t][k].current
       /\ s < t /\ branchOf[s] = branchOf[t]
       => ~finding'[s][k].current]_vars

\* Triage, evidence and current observations move together: the current
\* default-branch row of a finding shows the status and the ticket of its
\* identity, and a finding that was measured absent has no such row.
RowsFollowIdentity ==
  \A s \in ScanIds, k \in Keys :
    finding[s][k].linked /\ finding[s][k].current =>
      /\ finding[s][k].status = identity[k].status
      /\ finding[s][k].ticket = identity[k].ticket
      /\ ~identity[k].absent

\* No edit is lost: an edit that is saved was made looking at the status, the
\* ticket and the expiry the identity has, apart from time having passed, even
\* when a scan or a ticket changed the finding after it was loaded.
NoEditIsLost ==
  [][\A u \in Users :
       LET v == shown[u]  i == identity[v.key] IN
       v.loaded /\ v.linked /\ ~shown'[u].loaded =>
         /\ v.status = i.status /\ v.ticket = i.ticket
         /\ <<v.expires, i.expires>> \in
              {<<e, e>> : e \in Expiry} \cup {<<"future", "passed">>}
    ]_vars

\* The triage history ends at the status the identity has, whoever changed it.
HistoryEndsAtStatus ==
  \A k \in Keys : lastEvent[k] = identity[k].status

\* The rows of the scans, the identities and the triage history agree.
RowInvariant == TypeOK /\ OneCurrentRow /\ RowsFollowIdentity /\ HistoryEndsAtStatus

\* A report never undoes a decision, except to reopen one that expired or that
\* said a finding was gone that the default branch shows again.
TriageSurvivesRescans ==
  [][scan' # scan => \A k \in Keys :
       identity'[k].status # identity[k].status =>
         /\ identity'[k].status = "open"
         /\ \/ identity[k].expires = "passed"
            \/ /\ identity[k].status \in Decided
               /\ identity[k].absent \/ identity[k].status = "fixed"]_vars

\* The ticket of an identity is never replaced nor dropped.
TicketIsKept ==
  [][\A k \in Keys : identity[k].ticket # None =>
       identity'[k].ticket = identity[k].ticket]_vars

\* Absence is evidence: an identity becomes absent only with a new complete
\* scan of the branch that is the default one, and never while the newest scan
\* of that branch that observed the key is still to be superseded.
AbsenceIsMeasured ==
  [][\A k \in Keys : identity'[k].absent /\ ~identity[k].absent =>
       \E s \in ScanIds :
         /\ scan[s] # "completed" /\ scan'[s] = "completed"
         /\ branchOf'[s] = defaultBranch
         /\ ~finding'[s][k].present
         /\ \A t \in ScanIds : t > s /\ branchOf[t] = branchOf'[s] =>
              scan[t] \notin {"completed", "partial"}]_vars

=============================================================================
