---------------------------- MODULE AgentCheckpoint ----------------------------
(***************************************************************************)
(* Durable replay of model calls (scanner/src/aegify/agents/checkpoint.py) *)
(* by the "aegify agents" command (cli.py).  Several processes may be      *)
(* started on one checkpoint path; each takes the advisory lock, creates   *)
(* the file or resumes from it, makes the turns of its pipeline through    *)
(* invoke_turn, and publishes its run if finish() agrees.                  *)
(*                                                                         *)
(* The file is written by temporary file, fsync, rename and directory      *)
(* fsync.  "file" is what a process that opens the path reads, "durable"   *)
(* what a power failure may bring back: they differ from the rename until  *)
(* the directory is synced.                                                *)
(*                                                                         *)
(* A turn's request is a function of what the pipeline has seen: of what   *)
(* it shows of the world it was started in (the scan and the sources its   *)
(* tools read) and of the results of the turns before.                     *)
(***************************************************************************)
EXTENDS TokenBudget

CONSTANTS
  Procs,        \* processes started on the checkpoint path
  None,         \* no process, no usage
  Identities,   \* identity digests: scan, provider, limits, implementation
  Worlds,       \* what the tools of a process read
  Answers,      \* valid responses of the provider
  MaxRecords,   \* records a checkpoint may hold
  Turns,        \* per world, the turns its pipeline makes
  Shown,        \* per world, what the requests show of it
  MeteredIdentities, \* identities whose provider is AnthropicAPIBackend
  Asks,         \* budget requests of a call
  Counters,     \* token counts the provider reports
  StartBound    \* bounds how many processes are started

ASSUME CheckpointAssumption ==
  /\ None \notin Procs /\ None \notin Usages
  /\ MaxRecords \in Nat /\ Turns \in [Worlds -> Nat] /\ DOMAIN Shown = Worlds
  /\ StartBound \in Nat
  /\ MeteredIdentities \subseteq Identities
  /\ Asks \subseteq Ask /\ Counters \subseteq Nat
  /\ {"error", "stopped", "none"} \cap Answers = {}

Outcomes == Answers \cup {"error"}   \* what a settled record says
Results == Outcomes \cup {"stopped"} \* what a turn returns to the pipeline

\* json_digest of a turn's request.
Digest(world, results) == <<Shown[world], results>>

Pending(digest) == [digest |-> digest, state |-> "pending", outcome |-> "none"]

\* The states a path may be in besides a saved one: no file, and the empty
\* file left by a process that died between creating and first saving it.
Absent == [kind |-> "absent"]
Torn == [kind |-> "torn"]
Saved(identity, records, usage) ==
  [kind |-> "saved", identity |-> identity, records |-> records, usage |-> usage]

Gone == [pc |-> "gone"]

VARIABLES
  file, durable,   \* the checkpoint, as read and as synced
  lock,            \* holder of the advisory lock
  proc,            \* the processes
  history,         \* per record position: what the provider was sent and said
  published,       \* the runs that finish() let through
  starts           \* processes started so far

vars == <<file, durable, lock, proc, history, published, starts>>

Init ==
  /\ file = Absent /\ durable = Absent
  /\ lock = None
  /\ proc = [p \in Procs |-> Gone]
  /\ history = <<>>
  /\ published = {}
  /\ starts = 0

At(p, pc) == proc[p].pc = pc
Go(p, pc) == proc' = [proc EXCEPT ![p].pc = pc]

\* A process has a budget if its backend is AnthropicAPIBackend.
Metered(identity) == identity \in MeteredIdentities

State(p) == Saved(proc[p].identity, proc[p].records, proc[p].usage)

\* close() and the exit of the process, which releases its lock.
Exit(p) ==
  /\ proc' = [proc EXCEPT ![p] = Gone]
  /\ lock' = IF lock = p THEN None ELSE lock

--------------------------------------------------------------------------------
(***************************************************************************)
(* Opening                                                                 *)
(***************************************************************************)

\* Mutant of LockFree: the lock is not waited for and not missed.
LockIgnored == TRUE

LockFree == lock = None

\* A process whose lock attempt fails ends there (BlockingIOError); nothing
\* else of it can be seen.
Start(p, identity, world, resume) ==
  /\ At(p, "gone") /\ starts < StartBound
  /\ starts' = starts + 1
  /\ LockFree
  /\ lock' = p
  /\ proc' = [proc EXCEPT ![p] =
       [pc |-> IF resume THEN "resuming" ELSE "creating",
        identity |-> identity, world |-> world, records |-> <<>>,
        usage |-> None, budget |-> Unused, cursor |-> 0, failed |-> FALSE,
        results |-> <<>>]]
  /\ UNCHANGED <<file, durable, history, published>>

\* Mutant of MayCreate: an existing run is overwritten.
MayOverwrite == TRUE

MayCreate == file = Absent

\* O_CREAT | O_EXCL: an existing run is never overwritten.
Create(p) ==
  /\ At(p, "creating")
  /\ IF MayCreate
       THEN file' = Torn /\ Go(p, "first save") /\ UNCHANGED lock
       ELSE Exit(p) /\ UNCHANGED file
  /\ UNCHANGED <<durable, history, published, starts>>

\* No record is left whose dispatch may or may not have happened.
Certain(records) == \A i \in DOMAIN records : records[i].state # "pending"

UsageRestorable(saved) ==
  Metered(saved.identity) =>
    /\ saved.records # <<>> => saved.usage # None
    /\ saved.usage # None => CanRestore(Unused, saved.usage)

Resumable(p) ==
  /\ file.kind = "saved"
  /\ file.identity = proc[p].identity
  /\ Certain(file.records)
  /\ UsageRestorable(file)

\* Mutant of RestoredBudget: a resumed run starts with a full budget.
ReplenishedBudget(saved) == Unused

RestoredBudget(saved) ==
  IF Metered(saved.identity) /\ saved.usage # None
  THEN FromReceipts(saved.usage) ELSE Unused

Resume(p) ==
  /\ At(p, "resuming")
  /\ IF Resumable(p)
       THEN /\ proc' = [proc EXCEPT ![p].pc = "running",
                                    ![p].records = file.records,
                                    ![p].usage = file.usage,
                                    ![p].budget = RestoredBudget(file)]
            /\ UNCHANGED lock
       ELSE Exit(p)
  /\ UNCHANGED <<file, durable, history, published, starts>>

--------------------------------------------------------------------------------
(***************************************************************************)
(* Saving                                                                  *)
(***************************************************************************)
Result(p, r) == [proc EXCEPT ![p].pc = "running", ![p].results = Append(@, r)]

\* Persistence or replay failed: this and every later turn is stopped.
Stop(p) == proc' = [Result(p, "stopped") EXCEPT ![p].failed = TRUE]

\* What the process does once _save has returned.
AfterSave(p) ==
  CASE At(p, "first save") -> [proc EXCEPT ![p].pc = "running"]
    [] At(p, "saving request") -> [proc EXCEPT ![p].pc = "dispatching"]
    [] At(p, "saving outcome") ->
         [Result(p, Last(proc[p].records).outcome) EXCEPT ![p].cursor = @ + 1]

IsSaving(p) == proc[p].pc \in {"first save", "saving request", "saving outcome"}

Save(p) ==
  /\ IsSaving(p)
  /\ file' = State(p) /\ durable' = State(p)
  /\ proc' = AfterSave(p)
  /\ UNCHANGED <<lock, history, published, starts>>

\* A write, the sync, the rename or the directory sync fails: the new state
\* may be visible already, but is not known to survive.
SaveFails(p) ==
  /\ IsSaving(p)
  /\ file' \in {file, State(p)}
  /\ IF At(p, "first save") THEN Exit(p) ELSE Stop(p) /\ UNCHANGED lock
  /\ UNCHANGED <<durable, history, published, starts>>

--------------------------------------------------------------------------------
(***************************************************************************)
(* invoke_turn                                                             *)
(***************************************************************************)
TakesTurn(p) == At(p, "running") /\ Len(proc[p].results) < Turns[proc[p].world]

Request(p) == Digest(proc[p].world, proc[p].results)

TurnOfStopped(p) ==
  /\ TakesTurn(p) /\ proc[p].failed
  /\ proc' = Result(p, "stopped")
  /\ UNCHANGED <<file, durable, lock, history, published, starts>>

SameRequest(p, record) == record.digest = Request(p)

Replays(p) == proc[p].cursor < Len(proc[p].records)

Replay(p) ==
  LET record == proc[p].records[proc[p].cursor + 1]
  IN /\ TakesTurn(p) /\ ~proc[p].failed /\ Replays(p)
     /\ IF SameRequest(p, record)
          THEN proc' = [Result(p, record.outcome) EXCEPT ![p].cursor = @ + 1]
          ELSE Stop(p)
     /\ UNCHANGED <<file, durable, lock, history, published, starts>>

AfterRecording == "saving request"

\* A new call is recorded before it is sent.
Record(p) ==
  /\ TakesTurn(p) /\ ~proc[p].failed /\ ~Replays(p)
  /\ IF Len(proc[p].records) < MaxRecords
       THEN proc' = [proc EXCEPT ![p].pc = AfterRecording,
                                 ![p].records = Append(@, Pending(Request(p)))]
       ELSE Stop(p)
  /\ UNCHANGED <<file, durable, lock, history, published, starts>>

Position(p) == Len(proc[p].records)

Sent(p, tokens) ==
  [position |-> Position(p), digest |-> Last(proc[p].records).digest,
   outcome |-> "none", charge |-> tokens]

\* The process settles its last record; it is saved next.
Settled(p, outcome) ==
  [proc EXCEPT ![p].pc = "saving outcome",
               ![p].records[Position(p)] =
                 [@ EXCEPT !.state = IF outcome = "error" THEN "error" ELSE "completed",
                           !.outcome = outcome]]

\* The same with the usage of the budget it has now.
SettledWithin(budget, p, outcome) ==
  [Settled(p, outcome) EXCEPT ![p].budget = budget, ![p].usage = Usage(budget)]

Answered(outcome, charge) ==
  [history EXCEPT ![Len(history)] = [@ EXCEPT !.outcome = outcome, !.charge = charge]]

\* The command backend is entered.
DispatchCommand(p) ==
  /\ At(p, "dispatching") /\ ~Metered(proc[p].identity)
  /\ Go(p, "calling")
  /\ history' = Append(history, Sent(p, 0))
  /\ UNCHANGED <<file, durable, lock, published, starts>>

\* The API backend reserves first; a call its budget refuses is an error that
\* never reached the provider.
DispatchMetered(p) ==
  /\ At(p, "dispatching") /\ Metered(proc[p].identity)
  /\ \E ask \in Asks :
       \/ /\ Admits(proc[p].budget, ask)
          /\ proc' = [proc EXCEPT ![p].pc = "calling",
                                  ![p].budget = ReserveCall(@, ask)]
          /\ history' = Append(history, Sent(p, ask.tokens))
       \/ /\ ~Admits(proc[p].budget, ask)
          /\ proc' = SettledWithin(RejectCall(proc[p].budget), p, "error")
          /\ UNCHANGED history
  /\ UNCHANGED <<file, durable, lock, published, starts>>

AnswerCommand(p) ==
  /\ At(p, "calling") /\ ~Metered(proc[p].identity)
  /\ \E outcome \in Outcomes :
       /\ proc' = Settled(p, outcome)
       /\ history' = Answered(outcome, 0)
  /\ UNCHANGED <<file, durable, lock, published, starts>>

\* What a settled call takes from the budget for good.
Charge(ask, reported, usage) ==
  IF usage = "reported" THEN reported ELSE reported + Remainder(ask, reported)

\* The provider answers, or fails; the call is settled either way.  A response
\* the client completed may still be refused as an agent's turn.
AnswerMetered(p) ==
  LET b == proc[p].budget  id == Len(b.calls) IN
  /\ At(p, "calling") /\ Metered(proc[p].identity)
  /\ \E outcome \in Outcomes, state \in CallStates \ {"dispatched"},
        reported \in Counters, usage \in Reports :
       /\ usage = "unknown" => reported = 0
       /\ outcome # "error" => state = "completed"
       /\ state = "unknown" => usage = "unknown"
       /\ proc' = SettledWithin(SettleCall(b, id, reported, usage, state), p, outcome)
       /\ history' = Answered(outcome, Charge(b.calls[id].ask, reported, usage))
  /\ UNCHANGED <<file, durable, lock, published, starts>>

\* Mutant of MayPublish: only the failure flag is looked at.
PublishUnlessFailed(p) == ~proc[p].failed

MayPublish(p) == ~proc[p].failed /\ proc[p].cursor = Len(proc[p].records)

\* The pipeline has made its turns: finish(), then close().
Finish(p) ==
  /\ At(p, "running") /\ Len(proc[p].results) = Turns[proc[p].world]
  /\ published' = IF MayPublish(p)
       THEN published \cup {[world |-> proc[p].world, results |-> proc[p].results]}
       ELSE published
  /\ Exit(p)
  /\ UNCHANGED <<file, durable, history, starts>>

\* The process ends anywhere: killed, or interrupted from the keyboard, which
\* invoke_turn does not catch.
Crash(p) ==
  /\ ~At(p, "gone")
  /\ Exit(p)
  /\ UNCHANGED <<file, durable, history, published, starts>>

PowerFailure ==
  /\ proc' = [p \in Procs |-> Gone]
  /\ lock' = None
  /\ file' \in {file, durable}
  /\ durable' = file'
  /\ UNCHANGED <<history, published, starts>>

Step(p) ==
  \/ Create(p) \/ Resume(p)
  \/ Save(p) \/ SaveFails(p)
  \/ TurnOfStopped(p) \/ Replay(p) \/ Record(p)
  \/ DispatchCommand(p) \/ AnswerCommand(p)
  \/ DispatchMetered(p) \/ AnswerMetered(p)
  \/ Finish(p)

Next ==
  \/ \E p \in Procs :
       \/ \E identity \in Identities, world \in Worlds, resume \in BOOLEAN :
            Start(p, identity, world, resume)
       \/ Step(p)
       \/ Crash(p)
  \/ PowerFailure

Spec == Init /\ [][Next]_vars

--------------------------------------------------------------------------------
(***************************************************************************)
(* Properties                                                              *)
(***************************************************************************)
(***************************************************************************)
(* The checkpoint is absent, torn or a list of records, a process replays  *)
(* no further than its records go, and only the last of them may be        *)
(* pending, while it is in flight or once the process has stopped.         *)
(***************************************************************************)
TypeOK ==
  /\ file.kind \in {"absent", "torn", "saved"}
  /\ lock \in Procs \cup {None}
  /\ \A p \in Procs : ~At(p, "gone") =>
       /\ proc[p].cursor \in 0 .. Len(proc[p].records)
       /\ Len(proc[p].records) <= MaxRecords
       /\ proc[p].results \in Seq(Results)
       /\ \A i \in DOMAIN proc[p].records :
            proc[p].records[i].state = "pending" =>
              /\ i = Len(proc[p].records)
              /\ \/ proc[p].pc \in {"saving request", "dispatching", "calling"}
                 \/ proc[p].failed

(***************************************************************************)
(* One process at a time works on the checkpoint, and unless persistence   *)
(* has failed what it decides on is what the path holds.  While a call is  *)
(* on its way its record, still pending, would survive a power failure.    *)
(***************************************************************************)
WriterOwnsFile ==
  \A p \in Procs :
    /\ ~At(p, "gone") => lock = p
    /\ At(p, "running") /\ ~proc[p].failed => file = State(p)
    /\ proc[p].pc \in {"dispatching", "calling"} =>
         file = State(p) /\ durable = State(p)

(***************************************************************************)
(* Uncertain dispatches never retry themselves: over every crash, power    *)
(* failure, failed save and resumption, and whichever processes are        *)
(* started on the path, the call at one position of the checkpoint goes to *)
(* the provider at most once.                                              *)
(***************************************************************************)
SentOnce ==
  \A i, j \in DOMAIN history : history[i].position = history[j].position => i = j

\* The run's k-th result is what the provider said to the run's k-th request,
\* or an error if the budget let no request through.
Agrees(run, k) ==
  LET sent == {i \in DOMAIN history : history[i].position = k}
  IN IF sent = {} THEN run.results[k] = "error"
     ELSE \A i \in sent :
            /\ history[i].outcome = run.results[k]
            /\ history[i].digest = Digest(run.world, SubSeq(run.results, 1, k - 1))

(***************************************************************************)
(* A run, when published, consists of the answers the provider gave to the *)
(* very requests the run made, replayed or new, and leaves out none of the *)
(* calls that were made for it.                                            *)
(***************************************************************************)
PublishedRunIsHistory ==
  [][\A run \in published' \ published :
       /\ \A k \in DOMAIN run.results : Agrees(run, k)
       /\ \A i \in DOMAIN history : history[i].position <= Len(run.results)]_vars

Charged(calls) == SumTo([i \in DOMAIN calls |-> calls[i].charge], Len(calls))

(***************************************************************************)
(* The budget is one over the life of the checkpoint: when a call is let   *)
(* out, what all calls since the first process cost or may have cost, that *)
(* call's reservation included, fits it, and so does their number.         *)
(***************************************************************************)
LifetimeWithinBudget ==
  [][\A p \in Procs :
       At(p, "dispatching") /\ Metered(proc[p].identity) /\ history' # history =>
         /\ Charged(history') <= TotalBudget
         /\ Len(history') <= MaxCalls]_vars

(***************************************************************************)
(* A checkpoint without a pending call can always be gone on with: its     *)
(* usage, which counters and receipts tell twice, was saved with the       *)
(* outcome it belongs to and passes the checks of restore_usage.           *)
(***************************************************************************)
SettledFileIsResumable ==
  file.kind = "saved" /\ Certain(file.records) => UsageRestorable(file)

\* What the path, the processes and the provider know of the run agree: one
\* writer, no request sent twice, and every settled checkpoint can go on.
CheckpointInvariant == TypeOK /\ WriterOwnsFile /\ SentOnce /\ SettledFileIsResumable

(***************************************************************************)
(* What is durable is only added to: neither a new run, nor a resumption,  *)
(* nor a power failure replaces the checkpoint's identity, drops a record  *)
(* or changes one that was settled.                                        *)
(***************************************************************************)
DurableOnlyGrows ==
  [][durable.kind = "saved" =>
       /\ durable'.kind = "saved" /\ durable'.identity = durable.identity
       /\ \A i \in DOMAIN durable.records :
            /\ i \in DOMAIN durable'.records
            /\ durable.records[i].state # "pending" =>
                 durable'.records[i] = durable.records[i]]_vars
================================================================================
