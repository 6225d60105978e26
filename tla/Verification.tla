---------------------------- MODULE Verification ---------------------------
(***************************************************************************)
(* Dynamic verification (harness/models.py, docker.py, and the staging of  *)
(* http.py, browser.py and proxy.py): a plan is loaded, the executor       *)
(* copies the workspace, runs each step of the plan in a container over    *)
(* the copy, collects the declared outputs into an artifact directory and  *)
(* reports.  The container of a staged plan runs the driver of module      *)
(* HarnessRunner; the container of a plain plan is any process that writes *)
(* outputs and exits.                                                      *)
(*                                                                         *)
(* Sources are versions, files are numbers: 0 for no file, 1 for a file    *)
(* that came with the source, more for what containers wrote.              *)
(***************************************************************************)
EXTENDS HarnessRunner

CONSTANTS PlanFiles,         \* plan files: see ServicePlan and CommandPlan
          Loopback,      \* the hosts a service may be reached at
          MaxProxyCases, \* cases of a proxy plan
          MaxEdits,      \* edits of the source during a verification
          MaxWrites      \* files written by containers, the driver's included

Step(id, command, outputs) == [id |-> id, command |-> command, outputs |-> outputs]
Case(id, expects) == [id |-> id, expects |-> expects]
EvidenceFile == ".aegify-runtime/evidence.json"

\* A plan whose steps are given: it may go on after a failed step, be run
\* without an artifact directory, and name outputs that came with the source.
CommandPlan(steps, allowed, stops, keeps, shipped) ==
  [kind |-> "command", service |-> "none", origin |-> "none", cases |-> <<>>, steps |-> steps,
   allowed |-> allowed, stops |-> stops, keeps |-> keeps, shipped |-> shipped]

\* A plan of a proxy, HTTP or browser verification and the steps it becomes:
\* one, that runs the driver and declares its evidence file.
StagedSteps == <<Step("verify", "python3", <<EvidenceFile>>)>>
ServicePlan(kind, service, origin, cases, allowed, shipped) ==
  [kind |-> kind, service |-> service, origin |-> origin, cases |-> cases, steps |-> StagedSteps,
   allowed |-> allowed, stops |-> TRUE, keeps |-> TRUE, shipped |-> shipped]

StepSet == [id : STRING, command : STRING, outputs : Seq(STRING)]
CaseSet == [id : STRING, expects : SUBSET Statuses]

IsPlanFile(p) == /\ p.kind \in {"command", "proxy", "http", "browser"}
                 /\ p.steps \in Seq(StepSet) /\ p.cases \in Seq(CaseSet)
                 /\ p.kind # "command" => p.steps = StagedSteps
                 /\ p.stops \in BOOLEAN /\ p.keeps \in BOOLEAN

ASSUME VerificationAssumption == /\ \A p \in PlanFiles : IsPlanFile(p)
                                 /\ MaxProxyCases \in Nat
                                 /\ MaxEdits \in Nat /\ MaxWrites \in Nat

(* ---- what a plan file must satisfy ---------------------------------------- *)

Distinct(s) == \A i, j \in DOMAIN s : s[i] = s[j] => i = j
DistinctIds(s) == \A i, j \in DOMAIN s : s[i].id = s[j].id => i = j

ValidSteps(p) == /\ p.steps # <<>> /\ DistinctIds(p.steps)
                 /\ \A k \in DOMAIN p.steps : /\ p.steps[k].command \in p.allowed
                                              /\ Distinct(p.steps[k].outputs)

\* A mutant: the check that the ids of the cases are unique is forgotten.
AnyCases(p) == p.cases # <<>>

ValidCases(p) == /\ p.cases # <<>> /\ DistinctIds(p.cases)
                 /\ p.kind = "proxy" => Len(p.cases) <= MaxProxyCases
                 /\ p.kind # "browser" => \A c \in DOMAIN p.cases : p.cases[c].expects # {}

ValidPlan(p) == /\ ValidSteps(p)
                /\ p.kind # "command" => /\ p.service \in p.allowed /\ p.origin \in Loopback
                                         /\ ValidCases(p)

VARIABLES phase,      \* what the executor does next
          source,     \* version of the user's workspace
          staged,     \* version in the staging directory, 0 for none
          digest,     \* version the report names
          isolated,   \* version in the ephemeral copy
          files,      \* outputs in the ephemeral copy
          step,       \* number of the step
          commands,   \* the docker commands of the report
          container,  \* the container of the step
          survivors,  \* steps whose container runs on after the executor left it
          result,     \* the result of the step
          results,    \* the results of the steps that ended
          retained,   \* the artifact directory: a file for each step id and output
          report,     \* the status of the report, "none" when there is none
          writes

execVars == <<phase, source, staged, digest, isolated, files, step, commands, container,
              survivors, result, results, retained, report, writes>>
verificationVars == <<plan, runnerVars, execVars>>

IsStaged == plan.kind # "command"
Steps == DOMAIN plan.steps
Outputs(k) == plan.steps[k].outputs
Paths == UNION {{Outputs(k)[o] : o \in DOMAIN Outputs(k)} : k \in Steps}
Slots == UNION {{<<plan.steps[k].id, Outputs(k)[o]>> : o \in DOMAIN Outputs(k)} : k \in Steps}

\* What a step ended with: its status and the artifacts of its outputs.
Artifact(path, hash) == [path |-> path, hash |-> hash]
Result(status) == [id |-> plan.steps[step].id, status |-> status, artifacts |-> <<>>]
Pending == [id |-> "none", status |-> "pending", artifacts |-> <<>>]

VerificationInit ==
  /\ plan \in PlanFiles /\ RunnerOff
  /\ phase = "load" /\ source = 1 /\ staged = 0 /\ digest = 0 /\ isolated = 0
  /\ files = [p \in Paths |-> 0] /\ retained = [s \in Slots |-> 0]
  /\ step = 1 /\ commands = <<>> /\ container = "none" /\ survivors = {}
  /\ result = Pending /\ results = <<>> /\ report = "none" /\ writes = 1

Ended == phase \in {"done", "aborted"}

EditSource ==
  /\ source <= MaxEdits /\ source' = source + 1 /\ ~Ended
  /\ UNCHANGED <<plan, runnerVars, phase, staged, digest, isolated, files, step, commands,
                 container, survivors, result, results, retained, report, writes>>

(* ---- before the steps --------------------------------------------------- *)

LoadPlan ==
  /\ phase = "load"
  /\ phase' = IF ValidPlan(plan) THEN "ready" ELSE "aborted"
  /\ UNCHANGED <<plan, runnerVars, source, staged, digest, isolated, files, step, commands,
                 container, survivors, result, results, retained, report, writes>>

\* The staging directory is a copy with the driver and its plan beside it;
\* making their directory fails where the source has one of that name.
RuntimeDirectory == ".aegify-runtime"
StageWorkspace ==
  /\ phase = "ready" /\ IsStaged /\ staged = 0
  /\ IF RuntimeDirectory \in plan.shipped THEN phase' = "aborted" /\ UNCHANGED staged
     ELSE staged' = source /\ UNCHANGED phase
  /\ UNCHANGED <<plan, runnerVars, source, digest, isolated, files, step, commands,
                 container, survivors, result, results, retained, report, writes>>

\* A mutant: the digest is taken of the user's workspace.
WorkspaceUnstaged == source
Workspace == IF IsStaged THEN staged ELSE source
WorkspaceReady == phase = "ready" /\ (IsStaged => staged > 0)

\* The workspace holds a special file, or Docker cannot be reached.
RefuseWorkspace ==
  /\ WorkspaceReady /\ phase' = "aborted"
  /\ UNCHANGED <<plan, runnerVars, source, staged, digest, isolated, files, step, commands,
                 container, survivors, result, results, retained, report, writes>>

\* docker run --rm over a copy of the workspace, without a network; a command
\* that is only planned names no copy.
DockerCommand(k, copy) ==
  [step |-> plan.steps[k].id, runs |-> plan.steps[k].command, over |-> copy, network |-> "none"]

\* The user asks what would be done: nothing is executed.
DescribePlan ==
  /\ WorkspaceReady /\ phase' = "done"
  /\ digest' = Workspace /\ report' = "planned"
  /\ commands' = [k \in Steps |-> DockerCommand(k, 0)]
  /\ UNCHANGED <<plan, runnerVars, source, staged, isolated, files, step,
                 container, survivors, result, results, retained, writes>>

DigestWorkspace ==
  /\ WorkspaceReady /\ phase' = "copy"
  /\ digest' = Workspace /\ report' = "passed"
  /\ UNCHANGED <<plan, runnerVars, source, staged, isolated, files, step, commands,
                 container, survivors, result, results, retained, writes>>

CopyWorkspace ==
  /\ phase = "copy" /\ phase' = "steps"
  /\ isolated' = IF IsStaged THEN staged ELSE source
  /\ files' = [p \in Paths |-> IF p \in plan.shipped THEN 1 ELSE 0]
  /\ UNCHANGED <<plan, runnerVars, source, staged, digest, step, commands,
                 container, survivors, result, results, retained, report, writes>>

(* ---- one step ------------------------------------------------------------ *)

Command == commands' = Append(commands, DockerCommand(step, isolated))

StartStep ==
  /\ phase = "steps" /\ phase' = "wait" /\ Command /\ container' = "running"
  /\ runner' = IF IsStaged THEN "starting" ELSE runner
  /\ UNCHANGED <<plan, case, client, handler, draft, records, served, observed, runError, rows,
                 exit, source, staged, digest, isolated, files, step, survivors, result,
                 results, retained, report, writes>>

\* The docker command cannot be started; the outputs are collected all the same.
StartFails ==
  /\ phase = "steps" /\ phase' = "collect" /\ Command
  /\ result' = Result("error")
  /\ UNCHANGED <<plan, runnerVars, source, staged, digest, isolated, files, step,
                 container, survivors, results, retained, report, writes>>

StepExits(status) ==
  /\ phase = "wait" /\ container = status /\ phase' = "collect"
  /\ result' = Result(IF status = "exited0" THEN "passed" ELSE "failed")
  /\ container' = "none"
  /\ UNCHANGED <<plan, runnerVars, source, staged, digest, isolated, files, step, commands,
                 survivors, results, retained, report, writes>>

\* The time limit kills the docker command; the container is removed, unless
\* that fails, which nobody looks at.
StepTimesOut(removed) ==
  /\ phase = "wait" /\ container = "running" /\ phase' = "collect"
  /\ result' = Result("timeout")
  /\ container' = "none"
  /\ survivors' = IF removed THEN survivors ELSE survivors \cup {step}
  /\ runner' = IF IsStaged /\ removed THEN "crashed" ELSE runner
  /\ UNCHANGED <<plan, case, client, handler, draft, records, served, observed, runError, rows,
                 exit, source, staged, digest, isolated, files, step, commands, results, retained,
                 report, writes>>

\* Waiting for the killed command times out as well: the exception ends the
\* verification before the container is removed.
KillFails ==
  /\ phase = "wait" /\ container = "running" /\ phase' = "aborted"
  /\ report' = "none" /\ survivors' = survivors \cup {step} /\ container' = "none"
  /\ UNCHANGED <<plan, runnerVars, source, staged, digest, isolated, files, step, commands,
                 result, results, retained, writes>>

(* ---- the outputs of the step --------------------------------------------- *)

\* The outputs are collected in their order, one artifact each.
Collecting == phase = "collect" /\ Len(result.artifacts) < Len(Outputs(step))
Output == Outputs(step)[Len(result.artifacts) + 1]

StopCollecting ==
  /\ result' = [result EXCEPT !.status = IF @ = "passed" THEN "failed" ELSE @]
  /\ phase' = "record"

\* The step replaced its working directory by a link that leaves the copy.
DirectoryEscaped ==
  /\ phase = "collect" /\ ~IsStaged /\ result.artifacts = <<>> /\ StopCollecting
  /\ UNCHANGED <<plan, runnerVars, source, staged, digest, isolated, files, step, commands,
                 container, survivors, results, retained, report, writes>>

OutputMissing ==
  /\ Collecting /\ files[Output] = 0 /\ StopCollecting
  /\ UNCHANGED <<plan, runnerVars, source, staged, digest, isolated, files, step, commands,
                 container, survivors, results, retained, report, writes>>

\* It left the working directory, is not a regular file, or is too large.
OutputRefused ==
  /\ Collecting /\ files[Output] > 0 /\ StopCollecting
  /\ UNCHANGED <<plan, runnerVars, source, staged, digest, isolated, files, step, commands,
                 container, survivors, results, retained, report, writes>>

HashOutput ==
  /\ Collecting /\ files[Output] > 0 /\ phase' = "retain"
  /\ result' = [result EXCEPT !.artifacts = Append(@, Artifact(Output, files[Output]))]
  /\ UNCHANGED <<plan, runnerVars, source, staged, digest, isolated, files, step, commands,
                 container, survivors, results, retained, report, writes>>

Hashed == Outputs(step)[Len(result.artifacts)]

RetainOutput ==
  /\ phase = "retain" /\ phase' = "collect"
  /\ retained' = IF plan.keeps
                 THEN [retained EXCEPT ![<<plan.steps[step].id, Hashed>>] = files[Hashed]]
                 ELSE retained
  /\ UNCHANGED <<plan, runnerVars, source, staged, digest, isolated, files, step, commands,
                 container, survivors, result, results, report, writes>>

\* An output cannot be read, or not be copied: nobody catches that.
CollectFails ==
  /\ phase \in {"collect", "retain"} /\ phase' = "aborted" /\ report' = "none"
  /\ UNCHANGED <<plan, runnerVars, source, staged, digest, isolated, files, step, commands,
                 container, survivors, result, results, retained, writes>>

AllCollected ==
  /\ phase = "collect" /\ Len(result.artifacts) = Len(Outputs(step)) /\ phase' = "record"
  /\ UNCHANGED <<plan, runnerVars, source, staged, digest, isolated, files, step, commands,
                 container, survivors, result, results, retained, report, writes>>

Goes == result.status = "passed" \/ ~plan.stops
ReportAfter(old) == IF result.status = "passed" THEN old ELSE result.status

EndStep ==
  /\ phase = "record"
  /\ results' = Append(results, result) /\ result' = Pending
  /\ report' = ReportAfter(report)
  /\ IF Goes /\ step < Len(plan.steps) THEN phase' = "steps" /\ step' = step + 1
     ELSE phase' = "done" /\ UNCHANGED step
  /\ UNCHANGED <<plan, runnerVars, source, staged, digest, isolated, files, commands, container,
                 survivors, retained, writes>>

ExecutorStep ==
  \/ LoadPlan \/ StageWorkspace \/ RefuseWorkspace \/ DescribePlan
  \/ DigestWorkspace \/ CopyWorkspace
  \/ StartStep \/ StartFails
  \/ \E status \in {"exited0", "exited1"} : StepExits(status)
  \/ DirectoryEscaped \/ OutputMissing \/ OutputRefused \/ HashOutput \/ RetainOutput
  \/ CollectFails \/ AllCollected \/ EndStep

\* A mutant: the docker command is waited for without a limit.
NoTimeLimit == phase = "wait" /\ container = "none" /\ UNCHANGED verificationVars

Timeout == KillFails \/ \E removed \in BOOLEAN : StepTimesOut(removed)

(* ---- what runs in the containers ------------------------------------------ *)

Running == (IF container = "running" THEN {step} ELSE {}) \cup survivors

\* The command of a plain plan, in any container still there.
CommandWrites(s) ==
  /\ ~IsStaged /\ s \in Running /\ writes < MaxWrites /\ ~Ended
  /\ writes' = writes + 1
  /\ \E o \in DOMAIN Outputs(s) : files' = [files EXCEPT ![Outputs(s)[o]] = writes + 1]
  /\ UNCHANGED <<plan, runnerVars, phase, source, staged, digest, isolated, step, commands,
                 container, survivors, result, results, retained, report>>

CommandExits(code) ==
  /\ ~IsStaged /\ container = "running"
  /\ container' = IF code = 0 THEN "exited0" ELSE "exited1"
  /\ UNCHANGED <<plan, runnerVars, phase, source, staged, digest, isolated, files, step, commands,
                 survivors, result, results, retained, report, writes>>

ContainerOf(code) == IF container # "running" THEN container
                     ELSE IF code = 0 THEN "exited0" ELSE "exited1"

DriverRuns ==
  /\ IsStaged /\ Running # {} /\ ~Ended /\ RunnerStep
  /\ container' = IF runner' = "crashed" THEN ContainerOf(1) ELSE container
  /\ UNCHANGED <<plan, phase, source, staged, digest, isolated, files, step, commands,
                 survivors, result, results, retained, report, writes>>

DriverEnds ==
  /\ IsStaged /\ Running # {} /\ ~Ended /\ WriteEvidence
  /\ writes' = writes + 1 /\ files' = [files EXCEPT ![EvidenceFile] = writes + 1]
  /\ container' = ContainerOf(exit')
  /\ UNCHANGED <<plan, phase, source, staged, digest, isolated, step, commands,
                 survivors, result, results, retained, report>>

ContainerStep == \/ \E s \in Running : CommandWrites(s)
                 \/ \E code \in 0..1 : CommandExits(code)
                 \/ DriverRuns \/ DriverEnds

VerificationNext == EditSource \/ ExecutorStep \/ Timeout \/ ContainerStep

VerificationSpec == VerificationInit /\ [][VerificationNext]_verificationVars

\* The executor runs on, and its clock does; the container may do nothing.
FairVerificationSpec ==
  VerificationSpec /\ WF_verificationVars(ExecutorStep) /\ WF_verificationVars(Timeout)

(* ---- properties ----------------------------------------------------------- *)

Reported == phase = "done"

\* A verification that passed went through its whole plan, every container
\* exited by itself with 0, every output was there, and where a driver checked
\* cases, the service gave every case an answer it expects.
PassedMeansVerified ==
  Reported /\ report = "passed" =>
    /\ Len(results) = Len(plan.steps)
    /\ \A k \in DOMAIN results : /\ results[k].status = "passed"
                                 /\ Len(results[k].artifacts) = Len(Outputs(k))
    /\ IsStaged => /\ exit = 0
                   /\ plan.kind # "browser" => \A c \in Cases : served[c] \in Expects(c)

\* What the report of an executed plan says is of what was executed and kept:
\* it names the version in the copy (where nobody edited the workspace of a
\* plain plan meanwhile), lists the commands of the steps it has results of,
\* over that copy, and the artifact directory holds, for every artifact it
\* names, the file of that digest, unless the removal of a container failed
\* and it wrote on.
EvidenceIsFaithful ==
  Reported /\ report # "planned" =>
    /\ IsStaged \/ source = 1 => digest = isolated
    /\ Len(commands) = Len(results)
    /\ \A k \in DOMAIN results : /\ results[k].id = plan.steps[k].id
                                 /\ commands[k] = DockerCommand(k, isolated)
    /\ survivors = {} /\ plan.keeps =>
         \A k \in DOMAIN results : \A a \in DOMAIN results[k].artifacts :
           LET made == results[k].artifacts[a]
           IN  retained[<<results[k].id, made.path>>] = made.hash

\* Whatever the containers do, the time limits end the verification.
VerificationEnds == <>Ended
=============================================================================
