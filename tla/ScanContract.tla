--------------------------- MODULE ScanContract ---------------------------
(***************************************************************************)
(* What the durable scan queue promises about each job, whoever works on   *)
(* it and however often: a job waits, is worked on, may wait again, and    *)
(* ends once, with one outcome.  Its commit is chosen at most once and     *)
(* never changes.  It ends with at most one report, a report of the chosen *)
(* commit, delivered while the requester may still scan the project, and a *)
(* job that ended is never touched again.                                  *)
(***************************************************************************)
CONSTANTS Jobs, Commits, None, Reports, Outcomes

VARIABLES
  stage,    \* [Jobs -> {"absent", "waiting", "working"} \cup Outcomes]
  pin,      \* the commit the job is pinned to, or None
  report,   \* the published report, or None
  allowed   \* may the requester of the job scan its project now?

vars == <<stage, pin, report, allowed>>

Unfinished == {"waiting", "working"}

Init ==
  /\ stage = [j \in Jobs |-> "absent"]
  /\ pin = [j \in Jobs |-> None]
  /\ report = [j \in Jobs |-> None]
  /\ allowed \in [Jobs -> BOOLEAN]

\* A retry submits its job already pinned.
Submit(j) ==
  /\ stage[j] = "absent"
  /\ stage' = [stage EXCEPT ![j] = "waiting"]
  /\ \E c \in Commits \cup {None} : pin' = [pin EXCEPT ![j] = c]
  /\ \E may \in BOOLEAN : allowed' = [allowed EXCEPT ![j] = may]
  /\ UNCHANGED report

\* One step may end any set of unfinished jobs without a report, and start or
\* restart others.
Dispatch(ended, started, outcome) ==
  /\ \A j \in ended \cup started : stage[j] \in Unfinished
  /\ ended \cap started = {}
  /\ stage' = [j \in Jobs |-> CASE j \in ended -> outcome
                                [] j \in started -> "working"
                                [] OTHER -> stage[j]]
  /\ UNCHANGED <<pin, report, allowed>>

Requeue(j) ==
  /\ stage[j] = "working"
  /\ stage' = [stage EXCEPT ![j] = "waiting"]
  /\ UNCHANGED <<pin, report, allowed>>

Pin(j) ==
  /\ stage[j] = "working" /\ pin[j] = None /\ allowed[j]
  /\ \E c \in Commits : pin' = [pin EXCEPT ![j] = c]
  /\ UNCHANGED <<stage, report, allowed>>

Publish(j) ==
  /\ stage[j] = "working" /\ allowed[j]
  /\ \E r \in Reports :
       /\ r.commit = pin[j]
       /\ report' = [report EXCEPT ![j] = r]
  /\ \E outcome \in Outcomes : stage' = [stage EXCEPT ![j] = outcome]
  /\ UNCHANGED <<pin, allowed>>

\* Roles, accounts, archival and repository connections change at any time.
Reauthorize ==
  /\ allowed' \in [Jobs -> BOOLEAN]
  /\ UNCHANGED <<stage, pin, report>>

Next ==
  \/ \E j \in Jobs : Submit(j) \/ Requeue(j) \/ Pin(j) \/ Publish(j)
  \/ \E ended, started \in SUBSET Jobs, outcome \in Outcomes :
       Dispatch(ended, started, outcome)
  \/ Reauthorize

Spec == Init /\ [][Next]_vars
=============================================================================
