------------------------ MODULE AgentCheckpoint_proofs ------------------------
(***************************************************************************)
(* The checkpoint of an agent run, for any processes, identities, worlds   *)
(* and turns, over every crash, power failure, failed save and resumption: *)
(* one process at a time works on the path, no position of the checkpoint  *)
(* is sent twice, what is durable only grows, all processes together stay  *)
(* within one budget, and a published run tells what the provider said.    *)
(* Inv is the inductive invariant of the first three; More, what the       *)
(* budgets and the records of results say of the calls made, is inductive  *)
(* relative to it.                                                         *)
(***************************************************************************)
EXTENDS AgentCheckpoint, TLAPS

Digests == {Digest(w, r) : w \in Worlds, r \in Seq(Results)}

PendingRecords == [digest : Digests, state : {"pending"}, outcome : {"none"}]
SettledRecords == [digest : Digests, state : {"completed", "error"}, outcome : Outcomes]
Records == PendingRecords \cup SettledRecords

\* What a path holds, as it is read or as it would come back.
CheckpointOK(f) ==
  \/ f = Absent
  \/ f = Torn
  \/ /\ f = Saved(f.identity, f.records, f.usage)
     /\ f.records \in Seq(Records)
     /\ Len(f.records) <= MaxRecords

\* Checkpoint b has what was settled in a, under the same identity.
Grows(a, b) ==
  /\ b.identity = a.identity
  /\ Len(a.records) <= Len(b.records)
  /\ \A i \in 1 .. Len(a.records) :
       a.records[i].state # "pending" => b.records[i] = a.records[i]

Covers(d, f) == d.kind = "saved" => f.kind = "saved" /\ Grows(d, f)

Sends(C) == [position : Nat, digest : Digests, outcome : Outcomes \cup {"none"}, charge : C]

\* Each call at its own position, among the records that are durable.
HistoryOK(h, d) ==
  /\ \E C : h \in Seq(Sends(C))
  /\ h # <<>> => d.kind = "saved"
  /\ \A i \in DOMAIN h : h[i].position <= Len(d.records)
  /\ \A i, j \in DOMAIN h : h[i].position = h[j].position => i = j

StateOf(q) == Saved(q.identity, q.records, q.usage)

Fields == {"pc", "identity", "world", "records", "usage", "budget", "cursor", "failed", "results"}
Opening == {"creating", "resuming", "first save"}
Sending == {"saving request", "dispatching", "calling"}
Phases == Opening \cup Sending \cup {"running", "saving outcome"}

Typed(q) ==
  /\ DOMAIN q = Fields
  /\ q.pc \in Phases
  /\ q.world \in Worlds
  /\ q.records \in Seq(Records) /\ Len(q.records) <= MaxRecords
  /\ q.cursor \in 0 .. Len(q.records)
  /\ q.failed \in BOOLEAN
  /\ q.results \in Seq(Results)

CertainButLast(records) ==
  \A i \in 1 .. Len(records) : records[i].state = "pending" => i = Len(records)

\* What process q knows of the path (f, and d if the power fails now) and of
\* the calls made (h), phase by phase.
ProcessOK(q, f, d, h) ==
  /\ Typed(q)
  /\ q.pc # "running" => ~q.failed
  /\ q.failed => CertainButLast(q.records)
  /\ q.pc \in Opening => q.records = <<>>
  /\ q.pc = "first save" => f = Torn
  /\ q.pc = "running" /\ ~q.failed => f = StateOf(q) /\ Certain(q.records)
  /\ q.pc \in Sending => /\ CertainButLast(q.records) /\ q.records # <<>>
                         /\ q.records[Len(q.records)] \in PendingRecords
                         /\ q.cursor = Len(q.records) - 1
  /\ q.pc = "saving outcome" => /\ Certain(q.records) /\ q.records # <<>>
                                /\ q.cursor = Len(q.records) - 1
  /\ q.pc \in {"saving request", "saving outcome"} =>
       f.kind = "saved" /\ Grows(f, StateOf(q))
  /\ q.pc = "saving request" => Len(f.records) < Len(q.records)
  /\ q.pc \in {"dispatching", "calling"} => f = StateOf(q) /\ d = StateOf(q)
  /\ q.pc = "dispatching" => \A i \in DOMAIN h : h[i].position < Len(q.records)

PathOK ==
  /\ CheckpointOK(file) /\ CheckpointOK(durable)
  /\ Covers(durable, file)
  /\ HistoryOK(history, durable)

Inv ==
  /\ PathOK
  /\ lock \in Procs \cup {None}
  /\ DOMAIN proc = Procs
  /\ \A p \in Procs :
       \/ proc[p] = Gone
       \/ lock = p /\ proc[p].pc # "gone" /\ ProcessOK(proc[p], file, durable, history)

LEMMA InitInv == Init => Inv
<1> SUFFICES ASSUME Init PROVE Inv
  OBVIOUS
<1>1. HistoryOK(history, durable)
  BY DEF Init, HistoryOK, Absent
<1> QED BY <1>1 DEF Init, Inv, PathOK, CheckpointOK, Covers, Absent

LEMMA SavedFields ==
  ASSUME NEW i, NEW r, NEW u
  PROVE  LET s == Saved(i, r, u)
         IN s.kind = "saved" /\ s.identity = i /\ s.records = r /\ s.usage = u
BY DEF Saved

\* Nobody else is there while a process works on the path.
LEMMA Alone ==
  ASSUME Inv, NEW p \in Procs, ~At(p, "gone")
  PROVE  /\ lock = p /\ ProcessOK(proc[p], file, durable, history)
         /\ \A o \in Procs \ {p} : proc[o] = Gone
BY DEF Inv, At, Gone

\* A step of the process at work that keeps its own state consistent with the
\* path keeps the invariant.
LEMMA Frame ==
  ASSUME Inv, NEW p \in Procs, ~At(p, "gone"), lock' = lock,
         DOMAIN proc' = Procs, \A o \in Procs \ {p} : proc'[o] = proc[o],
         PathOK', ProcessOK(proc'[p], file', durable', history')
  PROVE  Inv'
<1>1. lock = p /\ \A o \in Procs \ {p} : proc[o] = Gone
  BY Alone
<1>2. proc'[p].pc # "gone"
  BY DEF ProcessOK, Typed, Phases, Opening, Sending
<1> QED BY <1>1, <1>2 DEF Inv

\* A process that ends leaves the path as it is.
LEMMA ExitKeeps ==
  ASSUME Inv, NEW p \in Procs, ~At(p, "gone"), Exit(p), PathOK'
  PROVE  Inv'
BY Alone DEF Inv, Exit

LEMMA SavedIsTyped ==
  ASSUME NEW f, CheckpointOK(f), f.kind = "saved"
  PROVE  f.records \in Seq(Records) /\ Len(f.records) \in Nat /\ Len(f.records) <= MaxRecords
         /\ f = Saved(f.identity, f.records, f.usage)
BY DEF CheckpointOK, Absent, Torn

LEMMA StateIsCheckpoint ==
  ASSUME NEW q, Typed(q)
  PROVE  /\ CheckpointOK(StateOf(q)) /\ StateOf(q).kind = "saved"
         /\ StateOf(q).records = q.records /\ StateOf(q).identity = q.identity
BY SavedFields DEF Typed, CheckpointOK, StateOf

LEMMA CoversTransitive ==
  ASSUME NEW d, NEW f, NEW s, CheckpointOK(d), CheckpointOK(f), CheckpointOK(s),
         Covers(d, f), f.kind = "saved", Grows(f, s), s.kind = "saved"
  PROVE  Covers(d, s)
<1> SUFFICES ASSUME d.kind = "saved" PROVE Grows(d, s)
  BY DEF Covers
<1>1. Grows(d, f)
  BY DEF Covers
<1>2. /\ Len(d.records) \in Nat /\ Len(f.records) \in Nat /\ Len(s.records) \in Nat
  BY SavedIsTyped
<1> QED BY <1>1, <1>2 DEF Grows

LEMMA CoversItself ==
  ASSUME NEW f, CheckpointOK(f)
  PROVE  Covers(f, f)
BY SavedIsTyped DEF Covers, Grows

LEMMA SeqElement ==
  ASSUME NEW S, NEW s \in Seq(S), NEW i \in DOMAIN s
  PROVE  s[i] \in S
OBVIOUS

LEMMA PositionsAreNumbers ==
  ASSUME NEW h, NEW d, HistoryOK(h, d)
  PROVE  \A i \in DOMAIN h : h[i].position \in Nat
<1>1. PICK C : h \in Seq(Sends(C))
  BY DEF HistoryOK
<1>2. \A i \in DOMAIN h : h[i] \in Sends(C)
  BY <1>1, SeqElement
<1> QED BY <1>2 DEF Sends

\* More durable records are as good for the history.
LEMMA HistoryMonotone ==
  ASSUME NEW h, NEW d, NEW f, HistoryOK(h, d), CheckpointOK(d), CheckpointOK(f), Covers(d, f)
  PROVE  HistoryOK(h, f)
<1>1. CASE h = <<>>
  BY <1>1 DEF HistoryOK
<1>2. CASE h # <<>>
  <2>1. d.kind = "saved" /\ f.kind = "saved" /\ Len(d.records) <= Len(f.records)
    BY <1>2 DEF HistoryOK, Covers, Grows
  <2>2. Len(d.records) \in Nat /\ Len(f.records) \in Nat
    BY <2>1, SavedIsTyped
  <2>3. \A i \in DOMAIN h : h[i].position \in Nat /\ h[i].position <= Len(d.records)
    BY PositionsAreNumbers DEF HistoryOK
  <2>4. \A i \in DOMAIN h : h[i].position <= Len(f.records)
    BY <2>1, <2>2, <2>3
  <2> QED BY <1>2, <2>1, <2>4 DEF HistoryOK
<1> QED BY <1>1, <1>2

LEMMA NoHistoryYet ==
  ASSUME PathOK, file.kind # "saved"
  PROVE  history = <<>> /\ durable.kind # "saved"
BY DEF PathOK, Covers, HistoryOK

(* -------------------------- opening and saving -------------------------- *)

LEMMA StartStep ==
  ASSUME Inv, NEW p \in Procs, NEW i \in Identities, NEW w \in Worlds, NEW r \in BOOLEAN,
         Start(p, i, w, r)
  PROVE  Inv'
<1>1. \A o \in Procs : proc[o] = Gone
  BY CheckpointAssumption DEF Inv, Start, LockFree
<1>2. PathOK'
  BY DEF Start, Inv, PathOK
<1>3. ProcessOK(proc'[p], file', durable', history')
  <2> DEFINE q == proc'[p]
  <2>1. q = [pc |-> IF r THEN "resuming" ELSE "creating", identity |-> i, world |-> w,
             records |-> <<>>, usage |-> None, budget |-> Unused, cursor |-> 0,
             failed |-> FALSE, results |-> <<>>]
    BY DEF Start, Inv
  <2>2. Typed(q)
    BY <2>1, CheckpointAssumption DEF Typed, Fields, Phases, Opening, Sending
  <2> QED BY <2>1, <2>2 DEF ProcessOK, Opening, Sending
<1>4. lock' = p /\ DOMAIN proc' = Procs /\ \A o \in Procs \ {p} : proc'[o] = Gone
  BY <1>1 DEF Start, Inv
<1>5. proc'[p].pc # "gone"
  BY <1>3 DEF ProcessOK, Typed, Phases, Opening, Sending
<1> QED BY <1>2, <1>3, <1>4, <1>5 DEF Inv

LEMMA CreateStep ==
  ASSUME Inv, NEW p \in Procs, Create(p)
  PROVE  Inv'
<1>1. ~At(p, "gone") /\ ProcessOK(proc[p], file, durable, history)
  BY Alone DEF Create, At
<1>2. CASE file = Absent
  <2>1. file' = Torn /\ proc' = [proc EXCEPT ![p].pc = "first save"] /\ lock' = lock
        /\ durable' = durable /\ history' = history
    BY <1>2 DEF Create, MayCreate, Go
  <2>2. PathOK'
    BY <1>2, <2>1, NoHistoryYet DEF Inv, PathOK, CheckpointOK, Covers, Absent, HistoryOK
  <2>3. proc'[p] = [proc[p] EXCEPT !.pc = "first save"]
    BY <2>1 DEF Inv
  <2>4. proc[p].pc = "creating"
    BY DEF Create, At
  <2>5. Typed(proc'[p])
    BY <1>1, <2>3 DEF ProcessOK, Typed, Fields, Phases, Opening
  <2>6. proc'[p].pc = "first save" /\ ~proc'[p].failed /\ proc'[p].records = <<>>
    BY <1>1, <2>3, <2>4 DEF ProcessOK, Typed, Opening, Fields
  <2>7. ProcessOK(proc'[p], file', durable', history')
    BY <2>1, <2>5, <2>6 DEF ProcessOK, Opening, Sending
  <2> QED BY <1>1, <2>1, <2>2, <2>7, Frame DEF Inv
<1>3. CASE file # Absent
  <2>1. Exit(p) /\ UNCHANGED <<file, durable, history>>
    BY <1>3 DEF Create, MayCreate
  <2>2. PathOK'
    BY <2>1 DEF Inv, PathOK
  <2> QED BY <1>1, <2>1, <2>2, ExitKeeps
<1> QED BY <1>2, <1>3

LEMMA ResumeStep ==
  ASSUME Inv, NEW p \in Procs, Resume(p)
  PROVE  Inv'
<1>1. ~At(p, "gone") /\ ProcessOK(proc[p], file, durable, history)
  BY Alone DEF Resume, At
<1>2. UNCHANGED <<file, durable, history>> /\ PathOK'
  BY DEF Resume, Inv, PathOK
<1>3. CASE Resumable(p)
  <2>1. proc' = [proc EXCEPT ![p].pc = "running", ![p].records = file.records,
                             ![p].usage = file.usage, ![p].budget = RestoredBudget(file)]
        /\ lock' = lock
    BY <1>3 DEF Resume
  <2>2. proc'[p] = [proc[p] EXCEPT !.pc = "running", !.records = file.records,
                                   !.usage = file.usage, !.budget = RestoredBudget(file)]
    BY <2>1 DEF Inv
  <2>3. file.records \in Seq(Records) /\ Len(file.records) \in Nat
        /\ Len(file.records) <= MaxRecords
        /\ file = Saved(file.identity, file.records, file.usage)
    BY <1>3, SavedIsTyped DEF Resumable, Inv, PathOK
  <2>4. proc[p].pc = "resuming" /\ proc[p].records = <<>> /\ ~proc[p].failed
    BY <1>1 DEF ProcessOK, Resume, At, Opening
  <2>5. Typed(proc'[p])
    BY <1>1, <2>2, <2>3, <2>4 DEF ProcessOK, Typed, Fields, Phases
  <2>6. file = StateOf(proc'[p]) /\ Certain(proc'[p].records)
    BY <1>1, <1>3, <2>2, <2>3 DEF StateOf, Resumable, ProcessOK, Typed, Fields
  <2>7. proc'[p].pc = "running" /\ ~proc'[p].failed
    BY <1>1, <2>2, <2>4 DEF ProcessOK, Typed, Fields
  <2>8. ProcessOK(proc'[p], file', durable', history')
    BY <1>2, <2>5, <2>6, <2>7 DEF ProcessOK, Opening, Sending
  <2> QED BY <1>1, <1>2, <2>1, <2>8, Frame DEF Inv
<1>4. CASE ~Resumable(p)
  BY <1>1, <1>2, <1>4, ExitKeeps DEF Resume
<1> QED BY <1>3, <1>4

LEMMA LastRecord ==
  ASSUME NEW S, NEW s \in Seq(S), s # <<>>
  PROVE  /\ Len(s) \in Nat \ {0} /\ Len(s) \in DOMAIN s
         /\ Last(s) = s[Len(s)] /\ s[Len(s)] \in S
BY DEF Last

\* The state a process saves extends what is durable, and the calls made are
\* among its records.
LEMMA SavedPath ==
  ASSUME Inv, NEW p \in Procs, IsSaving(p)
  PROVE  LET s == StateOf(proc[p])
         IN /\ ~At(p, "gone") /\ ProcessOK(proc[p], file, durable, history)
            /\ CheckpointOK(s) /\ s.kind = "saved"
            /\ Covers(durable, s) /\ HistoryOK(history, s)
<1> DEFINE s == StateOf(proc[p])
<1>1. ~At(p, "gone") /\ ProcessOK(proc[p], file, durable, history)
  BY Alone DEF IsSaving, At
<1>2. CheckpointOK(s) /\ s.kind = "saved"
  BY <1>1, StateIsCheckpoint DEF ProcessOK
<1>3. Covers(durable, s)
  <2>1. CASE At(p, "first save")
    <3>1. file = Torn
      BY <1>1, <2>1 DEF ProcessOK, At
    <3> QED BY <3>1, NoHistoryYet DEF Inv, Covers, Torn
  <2>2. CASE proc[p].pc \in {"saving request", "saving outcome"}
    <3>1. file.kind = "saved" /\ Grows(file, s)
      BY <1>1, <2>2 DEF ProcessOK
    <3> QED BY <1>2, <3>1, CoversTransitive DEF Inv, PathOK
  <2> QED BY <2>1, <2>2 DEF IsSaving, At
<1>4. HistoryOK(history, s)
  BY <1>2, <1>3, HistoryMonotone DEF Inv, PathOK
<1> QED BY <1>1, <1>2, <1>3, <1>4

LEMMA TypedFields ==
  ASSUME NEW q, Typed(q)
  PROVE  /\ q.records \in Seq(Records) /\ Len(q.records) \in Nat /\ Len(q.records) <= MaxRecords
         /\ q.results \in Seq(Results) /\ q.cursor \in Int /\ DOMAIN q = Fields
BY DEF Typed

LEMMA StateIsStateOf == \A p : State(p) = StateOf(proc[p])
BY DEF State, StateOf

\* What AfterSave makes of the process.
LEMMA SaveReturns ==
  ASSUME Inv, NEW p \in Procs, Save(p)
  PROVE  ProcessOK(proc'[p], file', durable', history') /\ DOMAIN proc' = Procs
         /\ \A o \in Procs \ {p} : proc'[o] = proc[o]
<1>1. ProcessOK(proc[p], file, durable, history)
  BY SavedPath DEF Save
<1>t. Typed(proc[p])
  BY <1>1 DEF ProcessOK
<1>2. file' = StateOf(proc[p]) /\ durable' = StateOf(proc[p]) /\ history' = history
  BY StateIsStateOf DEF Save
<1> DEFINE q == proc[p]
<1>3. CASE q.pc = "first save"
  <2>1. proc' = [proc EXCEPT ![p].pc = "running"]
    BY <1>3 DEF Save, AfterSave, At
  <2>2. proc'[p] = [q EXCEPT !.pc = "running"]
    BY <2>1 DEF Inv
  <2>3. q.records = <<>> /\ ~q.failed
    BY <1>1, <1>3 DEF ProcessOK, Opening
  <2>4. Typed(proc'[p]) /\ StateOf(proc'[p]) = StateOf(q) /\ proc'[p].pc = "running"
        /\ ~proc'[p].failed /\ proc'[p].records = <<>>
    BY <1>1, <2>2, <2>3 DEF ProcessOK, Typed, Fields, Phases, StateOf
  <2>5. ProcessOK(proc'[p], file', durable', history')
    BY <1>2, <2>4 DEF ProcessOK, Opening, Sending, Certain
  <2> QED BY <2>1, <2>5 DEF Inv
<1>4. CASE q.pc = "saving request"
  <2>1. proc' = [proc EXCEPT ![p].pc = "dispatching"]
    BY <1>4 DEF Save, AfterSave, At
  <2>2. proc'[p] = [q EXCEPT !.pc = "dispatching"]
    BY <2>1 DEF Inv
  <2>3. /\ ~q.failed /\ CertainButLast(q.records) /\ q.records # <<>>
        /\ q.records[Len(q.records)] \in PendingRecords /\ q.cursor = Len(q.records) - 1
    BY <1>1, <1>4 DEF ProcessOK, Sending
  <2>4. Typed(proc'[p]) /\ StateOf(proc'[p]) = StateOf(q) /\ proc'[p].pc = "dispatching"
        /\ ~proc'[p].failed /\ proc'[p].records = q.records /\ proc'[p].cursor = q.cursor
    BY <1>1, <2>2, <2>3 DEF ProcessOK, Typed, Fields, Phases, Sending, StateOf
  <2>5. \A i \in DOMAIN history : history[i].position < Len(q.records)
    <3>1. file.kind = "saved" /\ Len(file.records) < Len(q.records)
      BY <1>1, <1>4 DEF ProcessOK
    <3>2. HistoryOK(history, file)
      BY HistoryMonotone DEF Inv, PathOK
    <3>3. Len(file.records) \in Nat /\ Len(q.records) \in Nat
      BY <1>t, <3>1, SavedIsTyped, TypedFields DEF Inv, PathOK
    <3>4. \A i \in DOMAIN history : history[i].position \in Nat
                                    /\ history[i].position <= Len(file.records)
      BY <3>2, PositionsAreNumbers DEF HistoryOK
    <3> QED BY <3>1, <3>3, <3>4
  <2>6. ProcessOK(proc'[p], file', durable', history')
    BY <1>2, <2>3, <2>4, <2>5 DEF ProcessOK, Opening, Sending
  <2> QED BY <2>1, <2>6 DEF Inv
<1>5. CASE q.pc = "saving outcome"
  <2> DEFINE r == Last(q.records).outcome
  <2>1. proc' = [Result(p, r) EXCEPT ![p].cursor = @ + 1]
    BY <1>5 DEF Save, AfterSave, At
  <2>2. proc'[p] = [q EXCEPT !.pc = "running", !.results = Append(@, r), !.cursor = @ + 1]
        /\ DOMAIN proc' = Procs /\ \A o \in Procs \ {p} : proc'[o] = proc[o]
    BY <2>1, <1>1 DEF Inv, Result, ProcessOK, Typed, Fields
  <2>3. /\ ~q.failed /\ Certain(q.records) /\ q.records # <<>>
        /\ q.cursor = Len(q.records) - 1
    BY <1>1, <1>5 DEF ProcessOK
  <2>4. r \in Results
    <3>1. q.records \in Seq(Records)
      BY <1>1 DEF ProcessOK, Typed
    <3>2. Last(q.records) \in Records /\ Last(q.records).state # "pending"
      BY <2>3, <3>1, LastRecord DEF Certain
    <3>3. Last(q.records) \in SettledRecords
      BY <3>2 DEF Records, PendingRecords
    <3> QED BY <3>3 DEF SettledRecords, Results
  <2>5. proc'[p].pc = "running" /\ ~proc'[p].failed /\ StateOf(proc'[p]) = StateOf(q)
        /\ proc'[p].records = q.records
    BY <1>1, <2>2, <2>3 DEF ProcessOK, Typed, Fields, StateOf
  <2>6. Typed(proc'[p])
    <3>1. Append(q.results, r) \in Seq(Results)
      BY <1>t, <2>4, TypedFields
    <3>2. q.cursor + 1 \in 0 .. Len(q.records)
      BY <1>t, <2>3, TypedFields
    <3>3. DOMAIN q = Fields /\ Typed(q)
      BY <1>1 DEF ProcessOK, Typed
    <3>4. proc'[p].results = Append(q.results, r) /\ proc'[p].cursor = q.cursor + 1
          /\ proc'[p].world = q.world /\ proc'[p].failed = q.failed
          /\ DOMAIN proc'[p] = Fields
      BY <2>2, <3>3 DEF Fields
    <3> QED BY <2>5, <3>1, <3>2, <3>3, <3>4 DEF Typed, Phases
  <2>7. ProcessOK(proc'[p], file', durable', history')
    BY <1>2, <2>3, <2>5, <2>6 DEF ProcessOK, Opening, Sending
  <2> QED BY <2>2, <2>7
<1> QED BY <1>3, <1>4, <1>5 DEF Save, IsSaving

LEMMA SaveStep ==
  ASSUME Inv, NEW p \in Procs, Save(p)
  PROVE  Inv'
<1>1. IsSaving(p) /\ lock' = lock /\ history' = history
      /\ file' = StateOf(proc[p]) /\ durable' = StateOf(proc[p])
  BY StateIsStateOf DEF Save
<1>2. PathOK'
  BY <1>1, SavedPath, CoversItself DEF PathOK
<1> QED BY <1>1, <1>2, SavedPath, SaveReturns, Frame

\* A process that gives up keeps its records, the last of which may be pending.
LEMMA Stopped ==
  ASSUME Inv, NEW p \in Procs, NEW f, NEW d, NEW h, ProcessOK(proc[p], f, d, h), Stop(p)
  PROVE  /\ DOMAIN proc' = Procs /\ \A o \in Procs \ {p} : proc'[o] = proc[o]
         /\ \A f2, d2, h2 : ProcessOK(proc'[p], f2, d2, h2)
<1> DEFINE q == proc[p]
<1>1. proc'[p] = [q EXCEPT !.pc = "running", !.results = Append(@, "stopped"), !.failed = TRUE]
      /\ DOMAIN proc' = Procs /\ \A o \in Procs \ {p} : proc'[o] = proc[o]
  BY DEF Inv, Stop, Result, ProcessOK, Typed, Fields
<1>2. Typed(q) /\ DOMAIN q = Fields
  BY DEF ProcessOK, Typed
<1>3. Append(q.results, "stopped") \in Seq(Results)
  BY <1>2 DEF Typed, Results
<1>4. proc'[p].pc = "running" /\ proc'[p].failed /\ proc'[p].records = q.records
      /\ proc'[p].results = Append(q.results, "stopped") /\ proc'[p].cursor = q.cursor
      /\ proc'[p].world = q.world /\ DOMAIN proc'[p] = Fields
  BY <1>1, <1>2 DEF Fields
<1>5. Typed(proc'[p])
  BY <1>2, <1>3, <1>4 DEF Typed, Phases
<1>6. CertainButLast(q.records)
  <2>1. Len(q.records) \in Nat /\ q.records \in Seq(Records)
    BY <1>2 DEF Typed
  <2>2. Certain(q.records) => CertainButLast(q.records)
    BY <2>1 DEF Certain, CertainButLast
  <2>3. q.records = <<>> => Certain(q.records)
    BY DEF Certain
  <2> QED BY <1>2, <2>2, <2>3 DEF ProcessOK, Typed, Phases
<1> QED BY <1>1, <1>4, <1>5, <1>6 DEF ProcessOK, Opening, Sending

LEMMA SaveFailsStep ==
  ASSUME Inv, NEW p \in Procs, SaveFails(p)
  PROVE  Inv'
<1>1. IsSaving(p) /\ durable' = durable /\ history' = history
      /\ (file' = file \/ file' = StateOf(proc[p]))
  BY StateIsStateOf DEF SaveFails
<1>2. ~At(p, "gone") /\ ProcessOK(proc[p], file, durable, history)
  BY <1>1, SavedPath
<1>3. PathOK'
  BY <1>1, SavedPath DEF Inv, PathOK
<1>4. CASE At(p, "first save")
  BY <1>2, <1>3, <1>4, ExitKeeps DEF SaveFails
<1>5. CASE ~At(p, "first save")
  BY <1>2, <1>3, <1>5, Stopped, Frame DEF SaveFails
<1> QED BY <1>4, <1>5

(* ------------------------------- the turns ------------------------------ *)

\* What a process that takes a turn has, whether or not it has failed.
LEMMA AtTurn ==
  ASSUME Inv, NEW p \in Procs, TakesTurn(p)
  PROVE  /\ ~At(p, "gone") /\ ProcessOK(proc[p], file, durable, history)
         /\ Typed(proc[p]) /\ proc[p].pc = "running" /\ Request(p) \in Digests
<1>1. ~At(p, "gone") /\ ProcessOK(proc[p], file, durable, history) /\ proc[p].pc = "running"
  BY Alone DEF TakesTurn, At
<1>2. proc[p].world \in Worlds /\ proc[p].results \in Seq(Results)
  BY <1>1 DEF ProcessOK, Typed
<1> QED BY <1>1, <1>2 DEF ProcessOK, Request, Digests

WithResult(q, r, c) ==
  [q EXCEPT !.pc = "running", !.results = Append(@, r), !.cursor = c]

\* A process that gets a result without touching its records.
LEMMA ResultKeeps ==
  ASSUME NEW q, NEW f, NEW d, NEW h, ProcessOK(q, f, d, h), q.pc = "running",
         NEW r \in Results, NEW c \in 0 .. Len(q.records)
  PROVE  ProcessOK(WithResult(q, r, c), f, d, h)
<1> DEFINE q2 == WithResult(q, r, c)
<1>1. Typed(q)
  BY DEF ProcessOK
<1>2. Append(q.results, r) \in Seq(Results) /\ DOMAIN q = Fields
  BY <1>1, TypedFields
<1>3. /\ q2.pc = "running" /\ q2.records = q.records /\ q2.failed = q.failed
      /\ q2.results = Append(q.results, r) /\ q2.cursor = c /\ q2.world = q.world
      /\ StateOf(q2) = StateOf(q) /\ DOMAIN q2 = Fields
  BY <1>2 DEF WithResult, Fields, StateOf
<1> HIDE DEF q2
<1>4. Typed(q2)
  BY <1>1, <1>2, <1>3 DEF Typed
<1> QED BY <1>3, <1>4 DEF ProcessOK, Opening, Sending, q2

WithRecord(q, record) ==
  [q EXCEPT !.pc = "saving request", !.records = Append(@, record)]

\* A process that adds a pending record to the ones of the path.
LEMMA RecordKeeps ==
  ASSUME NEW q, NEW f, NEW d, NEW h, ProcessOK(q, f, d, h), q.pc = "running", ~q.failed,
         ~(q.cursor < Len(q.records)), Len(q.records) < MaxRecords,
         NEW new \in PendingRecords
  PROVE  ProcessOK(WithRecord(q, new), f, d, h)
<1> DEFINE more == Append(q.records, new)
           q2 == WithRecord(q, new)
<1>1. Typed(q)
  BY DEF ProcessOK
<1>2. /\ q.records \in Seq(Records) /\ Len(q.records) \in Nat /\ new \in Records
      /\ DOMAIN q = Fields
  BY <1>1, TypedFields DEF Records
<1>3. /\ more \in Seq(Records) /\ Len(more) = Len(q.records) + 1 /\ more # <<>>
      /\ more[Len(more)] = new /\ \A i \in 1 .. Len(q.records) : more[i] = q.records[i]
  BY <1>2
<1>4. /\ q2.pc = "saving request" /\ q2.records = more /\ q2.failed = q.failed
      /\ q2.results = q.results /\ q2.cursor = q.cursor /\ q2.world = q.world
      /\ q2.identity = q.identity /\ DOMAIN q2 = Fields
  BY <1>2 DEF Fields, WithRecord
<1> HIDE DEF q2, more
<1>5. q.cursor \in 0 .. Len(q.records) /\ q2.cursor = Len(more) - 1
      /\ q2.cursor \in 0 .. Len(q2.records) /\ Len(more) <= MaxRecords
  <2>1. q.cursor \in 0 .. Len(q.records)
    BY <1>1 DEF Typed
  <2>2. q.cursor = Len(q.records) /\ Len(q.records) + 1 <= MaxRecords
    BY <2>1, <1>2, CheckpointAssumption
  <2>3. Len(more) = Len(q.records) + 1 /\ q2.cursor = q.cursor /\ q2.records = more
    BY <1>3, <1>4
  <2> QED BY <2>1, <2>2, <2>3, <1>2
<1>6. Typed(q2)
  BY <1>1, <1>3, <1>4, <1>5 DEF Typed, Phases, Sending
<1>7. f = StateOf(q) /\ Certain(q.records)
  BY DEF ProcessOK
<1>8. CertainButLast(q2.records)
  <2>1. \A i \in 1 .. Len(q.records) : more[i].state # "pending"
    BY <1>2, <1>3, <1>7 DEF Certain
  <2>2. Len(more) = Len(q.records) + 1 /\ q2.records = more /\ Len(q.records) \in Nat
    BY <1>2, <1>3, <1>4
  <2>3. \A i \in 1 .. Len(more) : i \in 1 .. Len(q.records) \/ i = Len(more)
    BY <2>2
  <2> QED BY <2>1, <2>2, <2>3 DEF CertainButLast
<1>9. f.records = q.records /\ f.identity = q.identity /\ f.kind = "saved"
  BY <1>1, <1>7, StateIsCheckpoint
<1>10. Grows(f, StateOf(q2)) /\ Len(f.records) < Len(q2.records)
  <2>1. StateOf(q2).records = more /\ StateOf(q2).identity = q.identity
    BY <1>4, <1>6, StateIsCheckpoint
  <2>2. Len(more) = Len(q.records) + 1 /\ q2.records = more /\ Len(q.records) \in Nat
        /\ \A i \in 1 .. Len(q.records) : more[i] = q.records[i]
    BY <1>2, <1>3, <1>4
  <2> QED BY <2>2, <1>9, <2>1 DEF Grows
<1>11. ProcessOK(q2, f, d, h)
  BY <1>3, <1>4, <1>5, <1>6, <1>8, <1>9, <1>10 DEF ProcessOK, Opening, Sending
<1> QED BY <1>11 DEF q2

LEMMA TurnOfStoppedStep ==
  ASSUME Inv, NEW p \in Procs, TurnOfStopped(p)
  PROVE  Inv'
<1>1. TakesTurn(p) /\ ~At(p, "gone") /\ ProcessOK(proc[p], file, durable, history)
      /\ Typed(proc[p])
  BY AtTurn DEF TurnOfStopped
<1>2. UNCHANGED <<file, durable, lock, history>> /\ PathOK'
  BY DEF TurnOfStopped, Inv, PathOK
<1>3. proc'[p] = WithResult(proc[p], "stopped", proc[p].cursor)
      /\ DOMAIN proc' = Procs /\ \A o \in Procs \ {p} : proc'[o] = proc[o]
  <2>1. proc' = Result(p, "stopped") /\ DOMAIN proc[p] = Fields
    BY <1>1, TypedFields DEF TurnOfStopped
  <2> QED BY <2>1 DEF Inv, Result, Fields, WithResult
<1>4. proc[p].cursor \in 0 .. Len(proc[p].records) /\ "stopped" \in Results
  BY <1>1 DEF Typed, Results
<1>5. ProcessOK(proc'[p], file, durable, history)
  BY <1>1, <1>3, <1>4, ResultKeeps DEF TakesTurn, At
<1> QED BY <1>1, <1>2, <1>3, <1>5, Frame

LEMMA ReplayStep ==
  ASSUME Inv, NEW p \in Procs, Replay(p)
  PROVE  Inv'
<1> DEFINE q == proc[p]
           record == q.records[q.cursor + 1]
<1>1. TakesTurn(p) /\ ~At(p, "gone") /\ ProcessOK(q, file, durable, history)
      /\ Typed(q) /\ q.pc = "running" /\ ~q.failed /\ q.cursor < Len(q.records)
  BY AtTurn DEF Replay, Replays
<1>2. UNCHANGED <<file, durable, lock, history>> /\ PathOK'
  BY DEF Replay, Inv, PathOK
<1>3. CASE SameRequest(p, record)
  <2>1. q.cursor + 1 \in DOMAIN q.records /\ q.cursor + 1 \in 0 .. Len(q.records)
    BY <1>1 DEF Typed
  <2>2. record \in Records /\ record.state # "pending"
    BY <1>1, <2>1, TypedFields DEF ProcessOK, Certain
  <2>3. record.outcome \in Results
    BY <2>2 DEF Records, PendingRecords, SettledRecords, Results
  <2>4. proc'[p] = WithResult(q, record.outcome, q.cursor + 1)
        /\ DOMAIN proc' = Procs /\ \A o \in Procs \ {p} : proc'[o] = proc[o]
    <3>1. proc' = [Result(p, record.outcome) EXCEPT ![p].cursor = @ + 1] /\ DOMAIN q = Fields
      BY <1>1, <1>3, TypedFields DEF Replay
    <3> QED BY <3>1 DEF Inv, Result, Fields, WithResult
  <2>5. ProcessOK(proc'[p], file, durable, history)
    BY <1>1, <2>1, <2>3, <2>4, ResultKeeps
  <2> QED BY <1>1, <1>2, <2>4, <2>5, Frame
<1>4. CASE ~SameRequest(p, record)
  <2>1. Stop(p)
    BY <1>4 DEF Replay
  <2> QED BY <1>1, <1>2, <2>1, Stopped, Frame
<1> QED BY <1>3, <1>4

LEMMA RecordStep ==
  ASSUME Inv, NEW p \in Procs, Record(p)
  PROVE  Inv'
<1> DEFINE q == proc[p]
           new == Pending(Request(p))
<1>1. TakesTurn(p) /\ ~At(p, "gone") /\ ProcessOK(q, file, durable, history)
      /\ Typed(q) /\ q.pc = "running" /\ ~q.failed /\ ~(q.cursor < Len(q.records))
      /\ Request(p) \in Digests
  BY AtTurn DEF Record, Replays
<1>2. UNCHANGED <<file, durable, lock, history>> /\ PathOK'
  BY DEF Record, Inv, PathOK
<1>3. CASE Len(q.records) < MaxRecords
  <2>1. proc' = [proc EXCEPT ![p].pc = "saving request", ![p].records = Append(@, new)]
    BY <1>3 DEF Record, AfterRecording
  <2>2. proc'[p] = WithRecord(q, new)
        /\ DOMAIN proc' = Procs /\ \A o \in Procs \ {p} : proc'[o] = proc[o]
    BY <2>1 DEF Inv, WithRecord
  <2>3. new \in PendingRecords
    BY <1>1 DEF Pending, PendingRecords
  <2>4. ProcessOK(proc'[p], file, durable, history)
    BY <1>1, <1>3, <2>2, <2>3, RecordKeeps
  <2> QED BY <1>1, <1>2, <2>2, <2>4, Frame
<1>4. CASE ~(Len(q.records) < MaxRecords)
  <2>1. Stop(p)
    BY <1>4 DEF Record
  <2> QED BY <1>1, <1>2, <2>1, Stopped, Frame
<1> QED BY <1>3, <1>4

(* --------------------------- calls and answers -------------------------- *)

LEMMA SeqFacts ==
  ASSUME NEW S, NEW s \in Seq(S)
  PROVE  Len(s) \in Nat /\ DOMAIN s = 1 .. Len(s) /\ \A i \in 1 .. Len(s) : s[i] \in S
OBVIOUS

LEMMA NotEmpty ==
  ASSUME NEW S, NEW s \in Seq(S), NEW n \in DOMAIN s
  PROVE  s # <<>>
OBVIOUS

LEMMA SeqWidens ==
  ASSUME NEW S, NEW T, S \subseteq T, NEW s \in Seq(S)
  PROVE  s \in Seq(T)
OBVIOUS

LEMMA SeqReplaces ==
  ASSUME NEW S, NEW s \in Seq(S), NEW n \in 1 .. Len(s), NEW y \in S
  PROVE  LET t == [s EXCEPT ![n] = y]
         IN /\ t \in Seq(S) /\ Len(t) = Len(s) /\ DOMAIN t = 1 .. Len(s) /\ t[n] = y
            /\ \A i \in 1 .. Len(s) : i # n => t[i] = s[i]
OBVIOUS

\* q2 is process q in another phase, with another budget and usage.
Keeps(q2, q) ==
  /\ DOMAIN q2 = Fields
  /\ q2.identity = q.identity /\ q2.world = q.world /\ q2.cursor = q.cursor
  /\ q2.failed = q.failed /\ q2.results = q.results

\* The call goes out at a position above all earlier ones.
LEMMA SendKeeps ==
  ASSUME NEW q, NEW f, NEW d, NEW h, ProcessOK(q, f, d, h), HistoryOK(h, d),
         q.pc = "dispatching",
         NEW c, NEW x \in Sends({c}), x.position = Len(q.records),
         NEW q2, Keeps(q2, q), q2.pc = "calling", q2.records = q.records, q2.usage = q.usage
  PROVE  HistoryOK(Append(h, x), d) /\ ProcessOK(q2, f, d, Append(h, x))
<1>1. Typed(q) /\ ~q.failed /\ CertainButLast(q.records) /\ q.records # <<>>
      /\ q.records[Len(q.records)] \in PendingRecords /\ q.cursor = Len(q.records) - 1
      /\ f = StateOf(q) /\ d = StateOf(q)
  BY DEF ProcessOK, Sending
<1>2. PICK C : h \in Seq(Sends(C))
  BY DEF HistoryOK
<1>3. h \in Seq(Sends(C \cup {c})) /\ x \in Sends(C \cup {c})
  <2>1. Sends(C) \subseteq Sends(C \cup {c}) /\ Sends({c}) \subseteq Sends(C \cup {c})
    BY DEF Sends
  <2> QED BY <1>2, <2>1, SeqWidens
<1> DEFINE S == Sends(C \cup {c})
           h2 == Append(h, x)
<1>4. /\ h2 \in Seq(S) /\ Len(h) \in Nat /\ DOMAIN h = 1 .. Len(h)
      /\ DOMAIN h2 = 1 .. Len(h) + 1
      /\ \A i \in DOMAIN h : h2[i] = h[i]
      /\ h2[Len(h) + 1] = x
  <2> HIDE DEF S
  <2>1. h \in Seq(S) /\ x \in S
    BY <1>3 DEF S
  <2> QED BY <2>1
<1>5. \A i \in DOMAIN h : h[i].position \in Nat /\ h[i].position < Len(q.records)
  BY PositionsAreNumbers DEF ProcessOK
<1>6. d.kind = "saved" /\ d.records = q.records
  BY <1>1, StateIsCheckpoint
<1>7. HistoryOK(h2, d)
  <2> HIDE DEF h2
  <2>0. Len(q.records) \in Nat
    BY <1>1, TypedFields
  <2>1. \A i \in DOMAIN h2 : i \in DOMAIN h \/ i = Len(h) + 1
    BY <1>4
  <2>2. \A i \in DOMAIN h2 : h2[i].position <= Len(d.records)
    BY <1>4, <1>5, <1>6, <2>0, <2>1
  <2>3. \A i, j \in DOMAIN h2 : h2[i].position = h2[j].position => i = j
    <3>1. \A i, j \in DOMAIN h : h[i].position = h[j].position => i = j
      BY DEF HistoryOK
    <3>2. \A i \in DOMAIN h : h2[i].position # h2[Len(h) + 1].position
      BY <1>4, <1>5, <2>0
    <3> QED BY <1>4, <2>1, <3>1, <3>2
  <2>4. h2 # <<>> => d.kind = "saved"
    BY <1>6
  <2>5. \E D : h2 \in Seq(Sends(D))
    BY <1>4
  <2> QED BY <2>2, <2>3, <2>4, <2>5 DEF HistoryOK
<1>8. ProcessOK(q2, f, d, h2)
  <2>1. Typed(q2) /\ StateOf(q2) = StateOf(q)
    BY <1>1 DEF Typed, Keeps, StateOf, Phases, Sending
  <2> QED BY <1>1, <2>1 DEF ProcessOK, Keeps, Opening, Sending
<1> QED BY <1>7, <1>8

SettledAs(record, outcome) ==
  [record EXCEPT !.state = IF outcome = "error" THEN "error" ELSE "completed",
                 !.outcome = outcome]

LEMMA SameIsAtMost == \A a, b : a \in Nat /\ b = a => a <= b
OBVIOUS

LastSettled(records, outcome) ==
  [records EXCEPT ![Len(records)] = SettledAs(records[Len(records)], outcome)]

\* The process settles its last record, whatever becomes of its budget.
LEMMA SettleKeeps ==
  ASSUME NEW q, NEW f, NEW d, NEW h, ProcessOK(q, f, d, h), q.pc \in {"dispatching", "calling"},
         NEW outcome \in Outcomes,
         NEW q2, Keeps(q2, q), q2.pc = "saving outcome",
         q2.records = LastSettled(q.records, outcome),
         NEW h2
  PROVE  ProcessOK(q2, f, d, h2)
<1> DEFINE n == Len(q.records)
<1>1. Typed(q) /\ ~q.failed /\ CertainButLast(q.records) /\ q.records # <<>>
      /\ q.records[n] \in PendingRecords /\ q.cursor = n - 1 /\ f = StateOf(q)
  BY DEF ProcessOK, Sending
<1>2. q.records \in Seq(Records) /\ n \in Nat /\ n \in 1 .. n
      /\ DOMAIN q.records = 1 .. n
  <2>1. q.records \in Seq(Records)
    BY <1>1, TypedFields
  <2> QED BY <1>1, <2>1, SeqFacts, LastRecord
<1>3. SettledAs(q.records[n], outcome) \in SettledRecords
  BY <1>1 DEF SettledAs, PendingRecords, SettledRecords
<1> DEFINE y == SettledAs(q.records[n], outcome)
<1>4. y \in Records /\ y.state # "pending"
  BY <1>3 DEF Records, SettledRecords
<1> HIDE DEF y
<1>5. /\ q2.records \in Seq(Records) /\ Len(q2.records) = n /\ DOMAIN q2.records = 1 .. n
      /\ q2.records[n] = y
      /\ \A i \in 1 .. n : i # n => q2.records[i] = q.records[i]
  <2>1. q2.records = [q.records EXCEPT ![n] = y]
    BY DEF y, LastSettled
  <2> DEFINE t == [q.records EXCEPT ![n] = y]
  <2>2. n \in 1 .. Len(q.records) /\ q.records \in Seq(Records) /\ y \in Records
    BY <1>2, <1>4
  <2>3. /\ t \in Seq(Records) /\ Len(t) = n /\ DOMAIN t = 1 .. n /\ t[n] = y
        /\ \A i \in 1 .. n : i # n => t[i] = q.records[i]
    BY <2>2, SeqReplaces
  <2>4. q2.records = t
    BY <2>1
  <2> HIDE DEF t, n
  <2> QED BY <2>3, <2>4
<1> HIDE DEF n
<1>6. \A i \in 1 .. n : i # n => q.records[i].state # "pending"
  BY <1>1, <1>2 DEF CertainButLast, n
<1>7. Certain(q2.records) /\ q2.records # <<>>
  <2>1. \A i \in 1 .. n : q2.records[i].state # "pending"
    BY <1>4, <1>5, <1>6
  <2>2. Certain(q2.records)
    BY <1>5, <2>1 DEF Certain
  <2>3. n \in DOMAIN q2.records
    BY <1>2, <1>5
  <2>4. q2.records # <<>>
    BY <1>5, <2>3, NotEmpty
  <2> QED BY <2>2, <2>4
<1>8. Typed(q2)
  BY <1>1, <1>5 DEF Typed, Keeps, Phases, n
<1>9. f.kind = "saved" /\ f.records = q.records /\ f.identity = q.identity
      /\ StateOf(q2).records = q2.records /\ StateOf(q2).identity = q.identity
  BY <1>1, <1>8, StateIsCheckpoint DEF Keeps
<1>10. Grows(f, StateOf(q2))
  <2>1. \A i \in 1 .. n : q.records[i].state # "pending" => q2.records[i] = q.records[i]
    BY <1>1, <1>5 DEF PendingRecords, n
  <2>2. Len(f.records) = n /\ Len(StateOf(q2).records) = n
    BY <1>5, <1>9 DEF n
  <2>3. \A i \in 1 .. n : f.records[i].state # "pending" =>
                           StateOf(q2).records[i] = f.records[i]
    BY <2>1, <1>9
  <2>4. StateOf(q2).identity = f.identity
    BY <1>9
  <2>5. Len(f.records) <= Len(StateOf(q2).records)
    <3>1. Len(f.records) \in Nat /\ Len(StateOf(q2).records) = Len(f.records)
      BY <2>2, <1>9, SavedIsTyped, <1>1, StateIsCheckpoint
    <3> QED BY <3>1, SameIsAtMost
  <2>6. \A i \in 1 .. Len(f.records) : f.records[i].state # "pending" =>
                                      StateOf(q2).records[i] = f.records[i]
    BY <2>2, <2>3
  <2> QED BY <2>4, <2>5, <2>6 DEF Grows
<1> QED BY <1>1, <1>5, <1>7, <1>8, <1>9, <1>10 DEF ProcessOK, Keeps, Opening, Sending, n

\* An answer fills in what became of the last call.
LEMMA AnswerKeepsHistory ==
  ASSUME NEW h, NEW d, HistoryOK(h, d), NEW outcome \in Outcomes, NEW charge
  PROVE  HistoryOK([h EXCEPT ![Len(h)] = [@ EXCEPT !.outcome = outcome, !.charge = charge]], d)
<1> DEFINE h2 == [h EXCEPT ![Len(h)] = [@ EXCEPT !.outcome = outcome, !.charge = charge]]
<1>1. PICK C : h \in Seq(Sends(C))
  BY DEF HistoryOK
<1> DEFINE S == Sends(C \cup {charge})
<1>2. Sends(C) \subseteq S
  BY DEF Sends
<1>3. \A i \in DOMAIN h :
        LET x == [h[i] EXCEPT !.outcome = outcome, !.charge = charge]
        IN x \in S /\ x.position = h[i].position
  <2>1. \A i \in DOMAIN h : h[i] \in Sends(C)
    BY <1>1, SeqElement
  <2> QED BY <2>1 DEF Sends
<1>4. Len(h) \in Nat /\ DOMAIN h = 1 .. Len(h) /\ DOMAIN h2 = DOMAIN h /\ h \in Seq(S)
  <2>1. h \in Seq(S)
    BY <1>1, <1>2, SeqWidens
  <2> QED BY <2>1, SeqFacts
<1>5. \A i \in DOMAIN h : h2[i] \in S /\ h2[i].position = h[i].position
  <2>1. \A i \in DOMAIN h : h[i] \in S
    BY <1>4, SeqElement
  <2> QED BY <1>3, <1>4, <2>1
<1>6. h2 \in Seq(S) /\ (h2 # <<>> => h # <<>>)
  <2> HIDE DEF S
  <2>1. h2 = [i \in 1 .. Len(h) |-> h2[i]]
    BY <1>4
  <2> HIDE DEF h2
  <2>2. h2 \in [1 .. Len(h) -> S]
    BY <1>4, <1>5, <2>1
  <2> QED BY <1>4, <2>2
<1> QED BY <1>4, <1>5, <1>6 DEF HistoryOK

LEMMA CallIsKept ==
  ASSUME Inv, NEW p \in Procs, proc[p].pc \in {"dispatching", "calling"}
  PROVE  /\ ~At(p, "gone") /\ ProcessOK(proc[p], file, durable, history)
         /\ DOMAIN proc[p] = Fields /\ Position(p) = Len(proc[p].records)
         /\ Len(proc[p].records) \in Nat
         /\ Last(proc[p].records) \in PendingRecords
<1>1. ~At(p, "gone") /\ ProcessOK(proc[p], file, durable, history)
  BY Alone DEF At
<1>2. Typed(proc[p]) /\ proc[p].records[Len(proc[p].records)] \in PendingRecords
  BY <1>1 DEF ProcessOK, Sending
<1> QED BY <1>1, <1>2, TypedFields DEF Position, Last

LEMMA SentIsTyped ==
  ASSUME Inv, NEW p \in Procs, At(p, "dispatching"), NEW c
  PROVE  Sent(p, c) \in Sends({c}) /\ Sent(p, c).position = Len(proc[p].records)
<1>1. Last(proc[p].records) \in PendingRecords /\ Position(p) \in Nat
      /\ Position(p) = Len(proc[p].records)
  BY CallIsKept DEF At
<1> QED BY <1>1 DEF Sent, Sends, PendingRecords

\* A call goes out, from either backend.
LEMMA SendStep ==
  ASSUME Inv, NEW p \in Procs, At(p, "dispatching"), NEW c,
         history' = Append(history, Sent(p, c)),
         UNCHANGED <<file, durable, lock>>,
         DOMAIN proc' = Procs, \A o \in Procs \ {p} : proc'[o] = proc[o],
         Keeps(proc'[p], proc[p]), proc'[p].pc = "calling",
         proc'[p].records = proc[p].records, proc'[p].usage = proc[p].usage
  PROVE  Inv'
<1>1. ~At(p, "gone") /\ ProcessOK(proc[p], file, durable, history)
      /\ proc[p].pc = "dispatching" /\ HistoryOK(history, durable)
  BY CallIsKept DEF At, Inv, PathOK
<1>2. Sent(p, c) \in Sends({c}) /\ Sent(p, c).position = Len(proc[p].records)
  BY SentIsTyped
<1>3. HistoryOK(history', durable) /\ ProcessOK(proc'[p], file, durable, history')
  BY <1>1, <1>2, SendKeeps
<1>4. PathOK'
  BY <1>3 DEF Inv, PathOK
<1> QED BY <1>1, <1>3, <1>4, Frame

LEMMA DispatchCommandStep ==
  ASSUME Inv, NEW p \in Procs, DispatchCommand(p)
  PROVE  Inv'
<1>1. At(p, "dispatching") /\ proc' = [proc EXCEPT ![p].pc = "calling"]
      /\ history' = Append(history, Sent(p, 0)) /\ UNCHANGED <<file, durable, lock>>
  BY DEF DispatchCommand, Go
<1>2. DOMAIN proc[p] = Fields
  BY <1>1, CallIsKept DEF At
<1>3. /\ DOMAIN proc' = Procs /\ \A o \in Procs \ {p} : proc'[o] = proc[o]
      /\ Keeps(proc'[p], proc[p]) /\ proc'[p].pc = "calling"
      /\ proc'[p].records = proc[p].records /\ proc'[p].usage = proc[p].usage
  BY <1>1, <1>2 DEF Inv, Keeps, Fields
<1> QED BY <1>1, <1>3, SendStep

\* The last record of a process is settled, within some budget or without one.
LEMMA SettleStep ==
  ASSUME Inv, NEW p \in Procs, proc[p].pc \in {"dispatching", "calling"},
         NEW outcome \in Outcomes,
         UNCHANGED <<file, durable, lock>>, HistoryOK(history', durable),
         DOMAIN proc' = Procs, \A o \in Procs \ {p} : proc'[o] = proc[o],
         Keeps(proc'[p], proc[p]), proc'[p].pc = "saving outcome",
         proc'[p].records = LastSettled(proc[p].records, outcome)
  PROVE  Inv'
<1>1. ~At(p, "gone") /\ ProcessOK(proc[p], file, durable, history)
  BY CallIsKept
<1>2. ProcessOK(proc'[p], file, durable, history')
  BY <1>1, SettleKeeps
<1>3. PathOK'
  BY DEF Inv, PathOK
<1> QED BY <1>1, <1>2, <1>3, Frame

\* What Settled makes of a process.
LEMMA SettledFields ==
  ASSUME Inv, NEW p \in Procs, proc[p].pc \in {"dispatching", "calling"},
         NEW outcome, NEW q2,
         \/ q2 = Settled(p, outcome)[p]
         \/ \E b : q2 = SettledWithin(b, p, outcome)[p]
  PROVE  /\ Keeps(q2, proc[p]) /\ q2.pc = "saving outcome"
         /\ q2.records = LastSettled(proc[p].records, outcome)
<1> DEFINE s == Settled(p, outcome)[p]
<1>1. DOMAIN proc[p] = Fields /\ Position(p) = Len(proc[p].records)
  BY CallIsKept
<1>2. s = [proc[p] EXCEPT !.pc = "saving outcome",
                          !.records = LastSettled(proc[p].records, outcome)]
  BY <1>1 DEF Settled, SettledAs, LastSettled, Inv, Fields
<1>3. /\ Keeps(s, proc[p]) /\ s.pc = "saving outcome"
      /\ s.records = LastSettled(proc[p].records, outcome)
  BY <1>1, <1>2 DEF Keeps, Fields
<1>4. CASE q2 = s
  BY <1>3, <1>4
<1>5. ASSUME NEW b, q2 = SettledWithin(b, p, outcome)[p]
      PROVE  Keeps(q2, proc[p]) /\ q2.pc = "saving outcome" /\ q2.records = s.records
  <2>1. q2 = [s EXCEPT !.budget = b, !.usage = Usage(b)]
    BY <1>5 DEF SettledWithin, Settled, Inv
  <2> HIDE DEF s
  <2> QED BY <1>3, <2>1 DEF Keeps, Fields
<1> QED BY <1>3, <1>4, <1>5

LEMMA OthersKept ==
  ASSUME Inv, NEW p \in Procs, NEW outcome,
         \/ proc' = Settled(p, outcome)
         \/ \E b : proc' = SettledWithin(b, p, outcome)
  PROVE  DOMAIN proc' = Procs /\ \A o \in Procs \ {p} : proc'[o] = proc[o]
<1>1. DOMAIN proc = Procs
  BY DEF Inv
<1> QED BY <1>1 DEF Settled, SettledWithin

LEMMA DispatchMeteredStep ==
  ASSUME Inv, NEW p \in Procs, DispatchMetered(p)
  PROVE  Inv'
<1>1. At(p, "dispatching") /\ UNCHANGED <<file, durable, lock>>
      /\ proc[p].pc \in {"dispatching", "calling"} /\ DOMAIN proc[p] = Fields
  BY CallIsKept DEF DispatchMetered, At
<1>2. PICK ask \in Asks :
        \/ /\ proc' = [proc EXCEPT ![p].pc = "calling", ![p].budget = ReserveCall(@, ask)]
           /\ history' = Append(history, Sent(p, ask.tokens))
        \/ /\ proc' = SettledWithin(RejectCall(proc[p].budget), p, "error")
           /\ UNCHANGED history
  BY DEF DispatchMetered
<1>3. CASE /\ proc' = [proc EXCEPT ![p].pc = "calling", ![p].budget = ReserveCall(@, ask)]
           /\ history' = Append(history, Sent(p, ask.tokens))
  <2>1. /\ DOMAIN proc' = Procs /\ \A o \in Procs \ {p} : proc'[o] = proc[o]
        /\ Keeps(proc'[p], proc[p]) /\ proc'[p].pc = "calling"
        /\ proc'[p].records = proc[p].records /\ proc'[p].usage = proc[p].usage
    BY <1>1, <1>3 DEF Inv, Keeps, Fields
  <2> QED BY <1>1, <1>3, <2>1, SendStep
<1>4. CASE /\ proc' = SettledWithin(RejectCall(proc[p].budget), p, "error")
           /\ UNCHANGED history
  <2>1. HistoryOK(history', durable) /\ "error" \in Outcomes
    BY <1>4 DEF Inv, PathOK, Outcomes
  <2>2. DOMAIN proc' = Procs /\ \A o \in Procs \ {p} : proc'[o] = proc[o]
    BY <1>4, OthersKept
  <2>3. \E b : proc'[p] = SettledWithin(b, p, "error")[p]
    BY <1>4
  <2>4. /\ Keeps(proc'[p], proc[p]) /\ proc'[p].pc = "saving outcome"
        /\ proc'[p].records = LastSettled(proc[p].records, "error")
    BY <1>1, <2>3, SettledFields
  <2> QED BY <1>1, <2>1, <2>2, <2>4, SettleStep
<1> QED BY <1>2, <1>3, <1>4

LEMMA AnsweredIsTyped ==
  ASSUME Inv, NEW outcome \in Outcomes, NEW charge
  PROVE  HistoryOK(Answered(outcome, charge), durable)
BY AnswerKeepsHistory DEF Inv, PathOK, Answered

LEMMA AnswerCommandStep ==
  ASSUME Inv, NEW p \in Procs, AnswerCommand(p)
  PROVE  Inv'
<1>1. proc[p].pc \in {"dispatching", "calling"} /\ UNCHANGED <<file, durable, lock>>
  BY DEF AnswerCommand, At
<1>2. PICK outcome \in Outcomes :
        proc' = Settled(p, outcome) /\ history' = Answered(outcome, 0)
  BY DEF AnswerCommand
<1>3. HistoryOK(history', durable)
  BY <1>2, AnsweredIsTyped
<1>4. DOMAIN proc' = Procs /\ \A o \in Procs \ {p} : proc'[o] = proc[o]
  BY <1>2, OthersKept
<1>5. /\ Keeps(proc'[p], proc[p]) /\ proc'[p].pc = "saving outcome"
      /\ proc'[p].records = LastSettled(proc[p].records, outcome)
  BY <1>1, <1>2, SettledFields
<1> QED BY <1>1, <1>3, <1>4, <1>5, SettleStep

LEMMA AnswerMeteredStep ==
  ASSUME Inv, NEW p \in Procs, AnswerMetered(p)
  PROVE  Inv'
<1>1. proc[p].pc \in {"dispatching", "calling"} /\ UNCHANGED <<file, durable, lock>>
  BY DEF AnswerMetered, At
<1>2. PICK outcome \in Outcomes :
        \E b, c : proc' = SettledWithin(b, p, outcome) /\ history' = Answered(outcome, c)
  BY DEF AnswerMetered
<1>3. PICK b, c : proc' = SettledWithin(b, p, outcome) /\ history' = Answered(outcome, c)
  BY <1>2
<1>4. HistoryOK(history', durable)
  BY <1>3, AnsweredIsTyped
<1>5. DOMAIN proc' = Procs /\ \A o \in Procs \ {p} : proc'[o] = proc[o]
  BY <1>3, OthersKept
<1>6. /\ Keeps(proc'[p], proc[p]) /\ proc'[p].pc = "saving outcome"
      /\ proc'[p].records = LastSettled(proc[p].records, outcome)
  BY <1>1, <1>3, SettledFields
<1> QED BY <1>1, <1>4, <1>5, <1>6, SettleStep

(* ----------------------------- ends and ways ---------------------------- *)

LEMMA EndStep ==
  ASSUME Inv, NEW p \in Procs, Finish(p) \/ Crash(p)
  PROVE  Inv'
<1>1. ~At(p, "gone") /\ Exit(p) /\ UNCHANGED <<file, durable, history>>
  BY DEF Finish, Crash, At
<1>2. PathOK'
  BY <1>1 DEF Inv, PathOK
<1> QED BY <1>1, <1>2, ExitKeeps

LEMMA PowerFailureStep ==
  ASSUME Inv, PowerFailure
  PROVE  Inv'
<1>1. proc' = [p \in Procs |-> Gone] /\ lock' = None /\ durable' = file' /\ history' = history
      /\ (file' = file \/ file' = durable)
  BY DEF PowerFailure
<1>2. CheckpointOK(file') /\ Covers(durable, file')
  BY <1>1, CoversItself DEF Inv, PathOK
<1>3. PathOK'
  BY <1>1, <1>2, CoversItself, HistoryMonotone DEF Inv, PathOK
<1> QED BY <1>1, <1>3 DEF Inv

LEMMA InvStep == Inv /\ [Next]_vars => Inv'
<1> SUFFICES ASSUME Inv, [Next]_vars PROVE Inv'
  OBVIOUS
<1>1. ASSUME NEW p \in Procs, Step(p) PROVE Inv'
  BY <1>1, CreateStep, ResumeStep, SaveStep, SaveFailsStep, TurnOfStoppedStep, ReplayStep,
     RecordStep, DispatchCommandStep, AnswerCommandStep, DispatchMeteredStep,
     AnswerMeteredStep, EndStep DEF Step
<1>2. CASE UNCHANGED vars
  BY <1>2 DEF vars, Inv, PathOK
<1> QED BY <1>1, <1>2, StartStep, EndStep, PowerFailureStep DEF Next

LEMMA OneWriterHolds == Inv => WriterOwnsFile
<1> SUFFICES ASSUME Inv, NEW p \in Procs, ~At(p, "gone")
             PROVE  /\ lock = p
                    /\ At(p, "running") /\ ~proc[p].failed => file = State(p)
                    /\ proc[p].pc \in {"dispatching", "calling"} =>
                         file = State(p) /\ durable = State(p)
  BY DEF WriterOwnsFile, At
<1> QED BY Alone, StateIsStateOf DEF ProcessOK, At

\* One process at a time works on the checkpoint, decides on what the path
\* holds, and has a call's record durable while the call is on its way.
THEOREM OneWriter == Spec => []WriterOwnsFile
BY InitInv, InvStep, OneWriterHolds, PTL DEF Spec

\* However many processes are started and wherever they or the power fail, a
\* position of the checkpoint goes to the provider at most once.
THEOREM NothingIsSentTwice == Spec => []SentOnce
<1>1. Inv => SentOnce
  BY DEF Inv, PathOK, HistoryOK, SentOnce
<1> QED BY InitInv, InvStep, <1>1, PTL DEF Spec

LEMMA InvTypes == Inv => TypeOK
<1> SUFFICES ASSUME Inv PROVE TypeOK
  OBVIOUS
<1>1. file.kind \in {"absent", "torn", "saved"}
  BY SavedFields DEF Inv, PathOK, CheckpointOK, Absent, Torn
<1>2. lock \in Procs \cup {None}
  BY DEF Inv
<1>3. ASSUME NEW p \in Procs, ~At(p, "gone"), NEW i \in DOMAIN proc[p].records,
             proc[p].records[i].state = "pending"
      PROVE  /\ i = Len(proc[p].records)
             /\ proc[p].pc \in {"saving request", "dispatching", "calling"} \/ proc[p].failed
  <2>1. ProcessOK(proc[p], file, durable, history) /\ Typed(proc[p])
    BY <1>3, Alone DEF ProcessOK
  <2>2. i \in 1 .. Len(proc[p].records) /\ proc[p].records # <<>> /\ ~Certain(proc[p].records)
    BY <1>3, <2>1, SeqFacts, NotEmpty, TypedFields DEF Certain
  <2>3. proc[p].pc \in Sending \/ proc[p].failed
    BY <2>1, <2>2 DEF ProcessOK, Typed, Phases
  <2>4. CertainButLast(proc[p].records)
    BY <2>1, <2>3 DEF ProcessOK
  <2> QED BY <1>3, <2>2, <2>3, <2>4 DEF CertainButLast, Sending
<1>4. ASSUME NEW p \in Procs, ~At(p, "gone")
      PROVE  /\ proc[p].cursor \in 0 .. Len(proc[p].records)
             /\ Len(proc[p].records) <= MaxRecords
             /\ proc[p].results \in Seq(Results)
  BY <1>4, Alone DEF ProcessOK, Typed
<1> QED BY <1>1, <1>2, <1>3, <1>4 DEF TypeOK

\* The checkpoint and its processes keep their types: only the last record is
\* ever pending, while it is in flight or once its process has stopped.
THEOREM CheckpointTypes == Spec => []TypeOK
BY InitInv, InvStep, InvTypes, PTL DEF Spec

LEMMA DurableStep ==
  ASSUME Inv, [Next]_vars
  PROVE  Covers(durable, durable')
<1>1. CASE durable' = durable
  BY <1>1, CoversItself DEF Inv, PathOK
<1>2. ASSUME NEW p \in Procs, Save(p) PROVE Covers(durable, durable')
  <2>1. durable' = StateOf(proc[p]) /\ IsSaving(p)
    BY <1>2, StateIsStateOf DEF Save
  <2> QED BY <2>1, SavedPath
<1>3. CASE PowerFailure
  BY <1>3, CoversItself DEF PowerFailure, Inv, PathOK
<1>4. ASSUME NEW p \in Procs, Step(p), ~Save(p) PROVE durable' = durable
  BY <1>4 DEF Step, Create, Resume, SaveFails, TurnOfStopped, Replay, Record,
     DispatchCommand, AnswerCommand, DispatchMetered, AnswerMetered, Finish
<1> QED BY <1>1, <1>2, <1>3, <1>4 DEF Next, Start, Crash, vars

\* Nothing ever takes a settled record away from the durable checkpoint.
THEOREM DurableGrows == Spec => DurableOnlyGrows
<1> DEFINE A == durable.kind = "saved" =>
                  /\ durable'.kind = "saved" /\ durable'.identity = durable.identity
                  /\ \A i \in DOMAIN durable.records :
                       /\ i \in DOMAIN durable'.records
                       /\ durable.records[i].state # "pending" =>
                            durable'.records[i] = durable.records[i]
<1>1. Inv /\ Inv' /\ [Next]_vars => A
  <2> SUFFICES ASSUME Inv, Inv', [Next]_vars, durable.kind = "saved"
               PROVE  /\ durable'.kind = "saved" /\ durable'.identity = durable.identity
                      /\ \A i \in DOMAIN durable.records :
                           /\ i \in DOMAIN durable'.records
                           /\ durable.records[i].state # "pending" =>
                                durable'.records[i] = durable.records[i]
    OBVIOUS
  <2>1. durable'.kind = "saved" /\ Grows(durable, durable')
    BY DurableStep DEF Covers
  <2>2. durable.records \in Seq(Records) /\ durable'.records \in Seq(Records)
    BY <2>1, SavedIsTyped DEF Inv, PathOK
  <2>3. /\ Len(durable.records) \in Nat /\ DOMAIN durable.records = 1 .. Len(durable.records)
        /\ Len(durable'.records) \in Nat /\ DOMAIN durable'.records = 1 .. Len(durable'.records)
    BY <2>2, SeqFacts
  <2> QED BY <2>1, <2>3 DEF Grows
<1>2. Inv /\ Inv' /\ [Next]_vars => [A]_vars
  BY <1>1
<1> QED BY InitInv, InvStep, <1>2, PTL DEF Spec, DurableOnlyGrows

(***************************************************************************)
(* The budget: what the checkpoint, the process at work and the calls made *)
(* say of it.                                                              *)
(***************************************************************************)

BudgetFields == {"used", "unknown", "bytes", "output", "refused", "calls", "pending"}

\* A budget between calls: its receipts are settled, and its counters are their sums.
Balanced(b) ==
  /\ DOMAIN b = BudgetFields
  /\ b.calls \in Seq(Receipts) /\ b.refused \in Nat
  /\ Len(b.calls) <= MaxCalls
  /\ \A i \in DOMAIN b.calls : b.calls[i].state # "dispatched"
  /\ b.used = SumTo(ReportedTokens(b.calls), Len(b.calls))
  /\ b.unknown = SumTo(HeldTokens(b.calls), Len(b.calls))
  /\ b.bytes = SumTo(PromptBytes(b.calls), Len(b.calls))
  /\ b.output = SumTo(OutputTokens(b.calls), Len(b.calls))
  /\ b.pending = {}

\* All calls made were charged to b.
Pays(b, h) ==
  /\ Balanced(b)
  /\ \A i \in DOMAIN h : h[i].charge \in Nat
  /\ Charged(h) = b.used + b.unknown
  /\ Len(h) = Len(b.calls)

\* A usage that is saved, or about to be, is that of budget b.
UsageOf(usage, records, b, h) ==
  \/ usage = None /\ records = <<>> /\ h = <<>> /\ b = Unused
  \/ usage = Usage(b)

\* A checkpoint that can be gone on with holds the usage of the budget that
\* paid for all calls.
PaidFor(f, h) ==
  f.kind = "saved" /\ Metered(f.identity) /\ Certain(f.records) =>
    LET b == IF f.usage = None THEN Unused ELSE FromReceipts(f.usage)
    IN  Pays(b, h) /\ UsageOf(f.usage, f.records, b, h)

\* One call is on its way, reserved over a balanced budget.
Reserves(b, h, b0, ask) ==
  /\ Balanced(b0) /\ Len(b0.calls) < MaxCalls
  /\ b = ReserveCall(b0, ask)
  /\ \A i \in DOMAIN h : h[i].charge \in Nat
  /\ h # <<>> /\ h[Len(h)].charge = ask.tokens
  /\ Charged(h) = b0.used + b0.unknown + ask.tokens
  /\ Len(h) = Len(b0.calls) + 1

ProcessPays(q, h) ==
  /\ q.pc \in Opening => q.budget = Unused /\ q.usage = None
  /\ Metered(q.identity) =>
       /\ q.pc = "running" /\ ~q.failed =>
            Pays(q.budget, h) /\ UsageOf(q.usage, q.records, q.budget, h)
       /\ q.pc \in {"saving request", "dispatching"} => Pays(q.budget, h)
       /\ q.pc = "calling" => \E b0 : \E ask \in Asks : Reserves(q.budget, h, b0, ask)
       /\ q.pc = "saving outcome" => Pays(q.budget, h) /\ q.usage = Usage(q.budget)

Money ==
  /\ PaidFor(file, history) /\ PaidFor(durable, history)
  /\ \A p \in Procs : ~At(p, "gone") => ProcessPays(proc[p], history)

(***************************************************************************)
(* The story: settled records say what the provider was asked and said.    *)
(***************************************************************************)

Tells(records, h) ==
  \A k \in DOMAIN records : records[k].state # "pending" =>
    /\ \A i \in DOMAIN h : h[i].position = k =>
         h[i].outcome = records[k].outcome /\ h[i].digest = records[k].digest
    /\ (\A i \in DOMAIN h : h[i].position # k) => records[k].outcome = "error"

\* The results of a process that has not failed are those of its records, and
\* the records up to its cursor are of the requests it would make.
Follows(q, n) ==
  /\ Len(q.results) = q.cursor
  /\ \A k \in 1 .. q.cursor : q.results[k] = q.records[k].outcome
  /\ \A k \in 1 .. n : q.records[k].digest = Digest(q.world, SubSeq(q.results, 1, k - 1))

ProcessTells(q, h) ==
  /\ Tells(q.records, h)
  /\ q.pc \in Opening => q.cursor = 0 /\ q.results = <<>> /\ ~q.failed
  /\ ~q.failed => Follows(q, IF q.pc \in Sending \cup {"saving outcome"}
                             THEN Len(q.records) ELSE q.cursor)
  /\ q.pc = "calling" =>
       /\ h # <<>> /\ h[Len(h)].position = Len(q.records)
       /\ h[Len(h)].digest = q.records[Len(q.records)].digest

Story ==
  /\ file.kind = "saved" => Tells(file.records, history)
  /\ durable.kind = "saved" => Tells(durable.records, history)
  /\ \A p \in Procs : ~At(p, "gone") => ProcessTells(proc[p], history)

(* ------------------------- budgets and receipts ------------------------- *)

\* What a receipt holds back.
Held(r) == IF r.usage = "reported" THEN 0 ELSE Remainder(r.ask, r.reported)

LEMMA ReceiptFacts ==
  ASSUME NEW r \in Receipts
  PROVE  /\ r.reported \in Nat /\ Held(r) \in Nat
         /\ r.ask \in Ask /\ r.ask.bytes \in Nat /\ r.ask.output \in Nat /\ r.ask.tokens \in Nat
         /\ r.state \in CallStates /\ r.usage \in Reports
BY DEF Receipts, Ask, Held, Remainder, Larger

\* What FromReceipts adds up are numbers, one for each receipt.
LEMMA CountsAreNumbers ==
  ASSUME NEW calls \in Seq(Receipts)
  PROVE  /\ ReportedTokens(calls) \in [1 .. Len(calls) -> Nat]
         /\ HeldTokens(calls) \in [1 .. Len(calls) -> Nat]
         /\ PromptBytes(calls) \in [1 .. Len(calls) -> Nat]
         /\ OutputTokens(calls) \in [1 .. Len(calls) -> Nat]
         /\ Len(calls) \in Nat
<1>1. Len(calls) \in Nat /\ DOMAIN calls = 1 .. Len(calls)
      /\ \A i \in 1 .. Len(calls) : calls[i] \in Receipts
  BY SeqFacts
<1>2. \A i \in 1 .. Len(calls) :
        /\ calls[i].reported \in Nat /\ Held(calls[i]) \in Nat
        /\ calls[i].ask.bytes \in Nat /\ calls[i].ask.output \in Nat
  BY <1>1, ReceiptFacts
<1> QED BY <1>1, <1>2 DEF ReportedTokens, HeldTokens, PromptBytes, OutputTokens, Held

\* The counters of a balanced budget.
LEMMA BalancedFields ==
  ASSUME NEW b, Balanced(b)
  PROVE  /\ b.used \in Nat /\ b.unknown \in Nat /\ b.bytes \in Nat /\ b.output \in Nat
         /\ b.calls \in Seq(Receipts) /\ Len(b.calls) \in Nat /\ b.refused \in Nat
         /\ DOMAIN b.calls = 1 .. Len(b.calls)
<1> DEFINE n == Len(b.calls)
<1>1. /\ b.used = SumTo(ReportedTokens(b.calls), n)
      /\ b.unknown = SumTo(HeldTokens(b.calls), n)
      /\ b.bytes = SumTo(PromptBytes(b.calls), n)
      /\ b.output = SumTo(OutputTokens(b.calls), n)
      /\ b.calls \in Seq(Receipts) /\ b.refused \in Nat
  BY DEF Balanced
<1>2. /\ ReportedTokens(b.calls) \in [1 .. n -> Nat] /\ HeldTokens(b.calls) \in [1 .. n -> Nat]
      /\ PromptBytes(b.calls) \in [1 .. n -> Nat] /\ OutputTokens(b.calls) \in [1 .. n -> Nat]
      /\ n \in Nat /\ n \in 0 .. n
  BY <1>1, CountsAreNumbers
<1>3. DOMAIN b.calls = 1 .. n
  BY <1>1
<1> HIDE DEF n
<1>4. /\ SumTo(ReportedTokens(b.calls), n) \in Nat /\ SumTo(HeldTokens(b.calls), n) \in Nat
      /\ SumTo(PromptBytes(b.calls), n) \in Nat /\ SumTo(OutputTokens(b.calls), n) \in Nat
  BY <1>2, SumUnfolds
<1> QED BY <1>1, <1>2, <1>3, <1>4 DEF n

\* A settled receipt more is as much more on every counter.
LEMMA ReceiptKeepsBalance ==
  ASSUME NEW b, Balanced(b), Len(b.calls) < MaxCalls,
         NEW r \in Receipts, r.state # "dispatched",
         NEW c, DOMAIN c = BudgetFields, c.calls \in Seq(Receipts),
         Len(c.calls) = Len(b.calls) + 1, c.calls[Len(b.calls) + 1] = r,
         SameTo(b.calls, c.calls, Len(b.calls)),
         c.used = b.used + r.reported, c.unknown = b.unknown + Held(r),
         c.bytes = b.bytes + r.ask.bytes, c.output = b.output + r.ask.output,
         c.refused = b.refused, c.pending = {}
  PROVE  Balanced(c)
<1> DEFINE n == Len(b.calls)
           more == c.calls
<1>1. b.calls \in Seq(Receipts) /\ n \in Nat /\ b.refused \in Nat /\ DOMAIN b.calls = 1 .. n
      /\ \A i \in DOMAIN b.calls : b.calls[i].state # "dispatched"
  BY BalancedFields DEF Balanced
<1>2. more \in Seq(Receipts) /\ Len(more) = n + 1 /\ more[n + 1] = r
      /\ DOMAIN more = 1 .. n + 1
      /\ \A i \in 1 .. n : more[i] = b.calls[i]
  BY <1>1 DEF SameTo
<1> HIDE DEF more
<1>3. /\ SameTo(ReportedTokens(b.calls), ReportedTokens(more), n)
      /\ SameTo(HeldTokens(b.calls), HeldTokens(more), n)
      /\ SameTo(PromptBytes(b.calls), PromptBytes(more), n)
      /\ SameTo(OutputTokens(b.calls), OutputTokens(more), n)
  <2>1. \A i \in 1 .. n : i \in 1 .. n + 1
    BY <1>1
  <2> HIDE DEF n
  <2> QED BY <1>1, <1>2, <2>1 DEF SameTo, ReportedTokens, HeldTokens, PromptBytes, OutputTokens
<1>4. /\ ReportedTokens(more)[n + 1] = r.reported
      /\ HeldTokens(more)[n + 1] = Held(r)
      /\ PromptBytes(more)[n + 1] = r.ask.bytes
      /\ OutputTokens(more)[n + 1] = r.ask.output
  <2>1. n + 1 \in DOMAIN more
    BY <1>1, <1>2
  <2> QED BY <1>2, <2>1 DEF ReportedTokens, HeldTokens, PromptBytes, OutputTokens, Held
<1>5. /\ ReportedTokens(b.calls) \in [1 .. n -> Nat] /\ HeldTokens(b.calls) \in [1 .. n -> Nat]
      /\ PromptBytes(b.calls) \in [1 .. n -> Nat] /\ OutputTokens(b.calls) \in [1 .. n -> Nat]
      /\ ReportedTokens(more) \in [1 .. n + 1 -> Nat] /\ HeldTokens(more) \in [1 .. n + 1 -> Nat]
      /\ PromptBytes(more) \in [1 .. n + 1 -> Nat] /\ OutputTokens(more) \in [1 .. n + 1 -> Nat]
  <2>1. /\ ReportedTokens(more) \in [1 .. Len(more) -> Nat] /\ HeldTokens(more) \in [1 .. Len(more) -> Nat]
        /\ PromptBytes(more) \in [1 .. Len(more) -> Nat] /\ OutputTokens(more) \in [1 .. Len(more) -> Nat]
    BY <1>2, CountsAreNumbers
  <2>2. Len(more) = n + 1
    BY <1>2
  <2> QED BY <1>1, <2>1, <2>2, CountsAreNumbers
<1> HIDE DEF n
<1>6. /\ SumTo(ReportedTokens(more), n + 1) = SumTo(ReportedTokens(b.calls), n) + r.reported
      /\ SumTo(HeldTokens(more), n + 1) = SumTo(HeldTokens(b.calls), n) + Held(r)
      /\ SumTo(PromptBytes(more), n + 1) = SumTo(PromptBytes(b.calls), n) + r.ask.bytes
      /\ SumTo(OutputTokens(more), n + 1) = SumTo(OutputTokens(b.calls), n) + r.ask.output
  BY ZenonT(30), <1>1, <1>3, <1>4, <1>5, SumOfOneMore
<1>7. /\ b.used = SumTo(ReportedTokens(b.calls), n)
      /\ b.unknown = SumTo(HeldTokens(b.calls), n)
      /\ b.bytes = SumTo(PromptBytes(b.calls), n)
      /\ b.output = SumTo(OutputTokens(b.calls), n)
  BY DEF Balanced, n
<1>8. \A i \in DOMAIN more : more[i].state # "dispatched"
  <2>1. \A i \in DOMAIN more : i \in 1 .. n \/ i = n + 1
    BY <1>1, <1>2
  <2> QED BY <1>1, <1>2, <2>1
<1>9. Len(more) <= MaxCalls
  BY <1>1, <1>2, BudgetAssumption DEF n
<1> QED BY <1>1, <1>2, <1>6, <1>7, <1>8, <1>9 DEF Balanced, more

\* What the receipt of a settled call says.
LEMMA ReceiptIsCharged ==
  ASSUME NEW ask \in Ask, NEW reported \in Nat, NEW usage \in Reports, NEW state \in CallStates
  PROVE  LET r == SettledReceipt(NewReceipt(ask), reported, usage, state)
         IN  /\ r \in Receipts /\ Held(r) \in Nat
             /\ r.reported = reported /\ r.ask = ask /\ r.state = state
             /\ Held(r) = (IF usage = "reported" THEN 0 ELSE Remainder(ask, reported))
             /\ reported + Held(r) = Charge(ask, reported, usage)
<1> DEFINE r == SettledReceipt(NewReceipt(ask), reported, usage, state)
<1>1. r \in Receipts /\ r.reported = reported /\ r.ask = ask /\ r.state = state /\ r.usage = usage
  BY DEF Receipts, SettledReceipt, NewReceipt
<1> HIDE DEF r
<1>2. Held(r) = (IF usage = "reported" THEN 0 ELSE Remainder(ask, reported))
  BY <1>1 DEF Held
<1>3. Held(r) \in Nat
  BY <1>1, ReceiptFacts
<1>4. reported + Held(r) = Charge(ask, reported, usage)
  BY <1>2, <1>3 DEF Charge
<1> QED BY <1>1, <1>2, <1>3, <1>4 DEF r

\* What a reserved call adds to the budget.
LEMMA ReservedFields ==
  ASSUME NEW b, Balanced(b), NEW ask \in Ask
  PROVE  LET now == ReserveCall(b, ask)
             n == Len(b.calls)
         IN  /\ DOMAIN now = BudgetFields /\ now.calls \in Seq(Receipts) /\ Len(now.calls) = n + 1
             /\ now.calls[n + 1] = NewReceipt(ask) /\ NewReceipt(ask).ask = ask
             /\ SameTo(b.calls, now.calls, n)
             /\ now.used = b.used /\ now.unknown = b.unknown /\ now.refused = b.refused
             /\ now.bytes = b.bytes + ask.bytes /\ now.output = b.output + ask.output
             /\ now.pending = {n + 1}
<1> DEFINE n == Len(b.calls)
           more == Append(b.calls, NewReceipt(ask))
<1>1. b.calls \in Seq(Receipts) /\ n \in Nat /\ DOMAIN b = BudgetFields /\ b.pending = {}
  BY BalancedFields DEF Balanced
<1>2. NewReceipt(ask) \in Receipts /\ NewReceipt(ask).ask = ask
  BY DEF NewReceipt, Receipts, CallStates, Reports
<1>3. /\ more \in Seq(Receipts) /\ Len(more) = n + 1 /\ more[n + 1] = NewReceipt(ask)
      /\ \A i \in 1 .. n : more[i] = b.calls[i]
  BY <1>1, <1>2
<1>4. {} \cup {n + 1} = {n + 1}
  OBVIOUS
<1> HIDE DEF more
<1>5. LET now == ReserveCall(b, ask)
      IN /\ DOMAIN now = BudgetFields /\ now.calls = more /\ now.pending = {n + 1}
         /\ now.used = b.used /\ now.unknown = b.unknown /\ now.refused = b.refused
         /\ now.bytes = b.bytes + ask.bytes /\ now.output = b.output + ask.output
  BY <1>1, <1>4 DEF ReserveCall, BudgetFields, more
<1> QED BY <1>1, <1>2, <1>3, <1>5 DEF SameTo

\* A call that is settled leaves a balanced budget with one receipt more.
LEMMA SettledBudget ==
  ASSUME NEW b, Balanced(b), Len(b.calls) < MaxCalls, NEW ask \in Ask, NEW reported \in Nat,
         NEW usage \in Reports, NEW state \in CallStates \ {"dispatched"}
  PROVE  LET now == ReserveCall(b, ask)
             after == SettleCall(now, Len(now.calls), reported, usage, state)
         IN  /\ Len(now.calls) = Len(b.calls) + 1
             /\ now.calls[Len(now.calls)].ask = ask
             /\ Balanced(after)
             /\ Len(after.calls) = Len(b.calls) + 1
             /\ after.used + after.unknown
                  = b.used + b.unknown + Charge(ask, reported, usage)
<1> DEFINE n == Len(b.calls)
           r == SettledReceipt(NewReceipt(ask), reported, usage, state)
<1>1. PICK now : now = ReserveCall(b, ask)
  OBVIOUS
<1>2. /\ DOMAIN now = BudgetFields /\ now.calls \in Seq(Receipts) /\ Len(now.calls) = n + 1
      /\ now.calls[n + 1] = NewReceipt(ask) /\ NewReceipt(ask).ask = ask
      /\ SameTo(b.calls, now.calls, n)
      /\ now.used = b.used /\ now.unknown = b.unknown /\ now.refused = b.refused
      /\ now.bytes = b.bytes + ask.bytes /\ now.output = b.output + ask.output
      /\ now.pending = {n + 1}
  BY <1>1, ReservedFields
<1>3. PICK after : after = SettleCall(now, n + 1, reported, usage, state)
  OBVIOUS
<1>4. r \in Receipts /\ Held(r) \in Nat /\ r.state # "dispatched"
      /\ r.reported = reported /\ r.ask = ask
      /\ Held(r) = (IF usage = "reported" THEN 0 ELSE Remainder(ask, reported))
      /\ reported + Held(r) = Charge(ask, reported, usage)
  BY SMTT(30), ReceiptIsCharged
<1>5. n \in Nat /\ n + 1 \in 1 .. n + 1 /\ b.used \in Nat /\ b.unknown \in Nat
  BY BalancedFields
<1> HIDE DEF n, r
<1> DEFINE calls == [now.calls EXCEPT ![n + 1] = r]
<1>6. /\ calls \in Seq(Receipts) /\ Len(calls) = n + 1 /\ calls[n + 1] = r
      /\ \A i \in 1 .. n + 1 : i # n + 1 => calls[i] = now.calls[i]
  BY <1>2, <1>4, <1>5, SeqReplaces
<1>7. SameTo(b.calls, calls, n)
  <2>1. \A i \in 1 .. n : i \in 1 .. n + 1 /\ i # n + 1
    BY <1>5
  <2> QED BY <1>2, <1>6, <2>1 DEF SameTo
<1> HIDE DEF calls
<1>8. /\ DOMAIN after = BudgetFields /\ after.calls = calls /\ after.pending = {}
      /\ after.used = b.used + reported /\ after.refused = b.refused
      /\ after.bytes = b.bytes + ask.bytes /\ after.output = b.output + ask.output
      /\ after.unknown = (IF usage = "reported" THEN b.unknown
                          ELSE b.unknown + Remainder(ask, reported))
  <2>1. {n + 1} \ {n + 1} = {}
    OBVIOUS
  <2>2. SettledReceipt(now.calls[n + 1], reported, usage, state) = r
    BY <1>2 DEF r
  <2> QED BY <1>2, <1>3, <2>1, <2>2 DEF SettleCall, BudgetFields, calls
<1>9. after.unknown = b.unknown + Held(r)
  BY <1>4, <1>5, <1>8
<1>10. Balanced(after)
  BY <1>4, <1>6, <1>7, <1>8, <1>9, ReceiptKeepsBalance DEF n
<1>11. after.used + after.unknown = b.used + b.unknown + Charge(ask, reported, usage)
  BY <1>4, <1>5, <1>8, <1>9
<1>12. Len(now.calls) = n + 1 /\ now.calls[Len(now.calls)].ask = ask /\ Len(after.calls) = n + 1
       /\ after = SettleCall(now, Len(now.calls), reported, usage, state)
  BY <1>2, <1>3, <1>6, <1>8
<1> QED BY <1>1, <1>10, <1>11, <1>12 DEF n

\* Nothing is pending between calls.
LEMMA NothingReserved ==
  ASSUME NEW b, Balanced(b)
  PROVE  Reserved(b) = b.unknown
<1> DEFINE n == Len(b.calls)
           f == PendingTokens(b)
<1>1. b.pending = {} /\ n \in Nat /\ DOMAIN b.calls = 1 .. n /\ b.unknown \in Nat
  BY BalancedFields DEF Balanced
<1>2. f \in [1 .. n -> Nat] /\ \A k \in 1 .. n : f[k] = 0
  BY <1>1 DEF PendingTokens
<1> HIDE DEF f, n
<1>3. SumTo(f, n) = 0
  BY <1>1, <1>2, SumOfZeros
<1> QED BY <1>1, <1>3 DEF Reserved, f, n

\* A call is admitted only if what was used, what is held back and what the
\* call may cost fit the budget together.
LEMMA AdmittedFits ==
  ASSUME NEW b, Balanced(b), NEW ask \in Ask, Admits(b, ask)
  PROVE  b.used + b.unknown + ask.tokens <= TotalBudget /\ Len(b.calls) < MaxCalls
<1>1. ask.tokens \in Nat \ {0} /\ b.used \in Nat /\ b.unknown \in Nat /\ Len(b.calls) \in Nat
  BY BalancedFields DEF Ask
<1>2. ask.tokens <= Larger(0, TotalBudget - b.used - b.unknown) /\ Len(b.calls) < MaxCalls
  BY NothingReserved DEF Admits, CanSpend, Remaining, TotalUsed
<1>3. TotalBudget \in Nat
  BY BudgetAssumption
<1> QED BY <1>1, <1>2, <1>3 DEF Larger

\* The receipts of a saved usage amount to the budget it was taken of.
LEMMA UsageIsRestored ==
  ASSUME NEW b, Balanced(b)
  PROVE  LET c == FromReceipts(Usage(b))
         IN  /\ Balanced(c) /\ c.calls = b.calls /\ c.used = b.used /\ c.unknown = b.unknown
             /\ Usage(c) = Usage(b)
<1>1. PICK c : c = FromReceipts(Usage(b))
  OBVIOUS
<1>2. Usage(b).calls = b.calls /\ Usage(b).refused = b.refused
  BY DEF Usage
<1>3. /\ c.calls = b.calls /\ c.refused = b.refused /\ c.pending = {}
      /\ c.used = SumTo(ReportedTokens(b.calls), Len(b.calls))
      /\ c.unknown = SumTo(HeldTokens(b.calls), Len(b.calls))
      /\ c.bytes = SumTo(PromptBytes(b.calls), Len(b.calls))
      /\ c.output = SumTo(OutputTokens(b.calls), Len(b.calls))
      /\ DOMAIN c = BudgetFields
  BY <1>1, <1>2 DEF FromReceipts, BudgetFields
<1>4. Balanced(c)
  BY <1>3 DEF Balanced
<1>5. c.used = b.used /\ c.unknown = b.unknown /\ c.bytes = b.bytes /\ c.output = b.output
  BY <1>3 DEF Balanced
<1>6. Reserved(c) = Reserved(b)
  BY <1>4, <1>5, NothingReserved
<1>7. Uncertain(c) = Uncertain(b) /\ UsageStatus(c) = UsageStatus(b)
  BY <1>3 DEF Uncertain, UsageStatus
<1>8. Usage(c) = Usage(b)
  BY <1>3, <1>5, <1>6, <1>7 DEF Usage
<1> QED BY <1>1, <1>3, <1>4, <1>5, <1>8

LEMMA UsageIsAUsage ==
  ASSUME NEW b, Balanced(b)
  PROVE  Usage(b) \in Usages /\ Usage(b) # None
<1>1. Reserved(b) \in Nat /\ b.used \in Nat /\ b.bytes \in Nat /\ b.output \in Nat
      /\ b.refused \in Nat /\ b.calls \in Seq(Receipts) /\ DOMAIN b.calls = 1 .. Len(b.calls)
      /\ Len(b.calls) \in Nat
  BY BalancedFields, NothingReserved
<1>2. Cardinality(Uncertain(b)) \in Nat
  <2>1. Uncertain(b) \subseteq 1 .. Len(b.calls)
    BY <1>1 DEF Uncertain
  <2>2. IsFiniteSet(1 .. Len(b.calls))
    BY <1>1, FS_Interval
  <2> QED BY <2>1, <2>2, FS_Subset, FS_CardinalityType
<1>3. UsageStatus(b) \in {"not_used"} \cup Reports
  BY DEF UsageStatus, Reports
<1>4. Usage(b) \in Usages
  BY <1>1, <1>2, <1>3 DEF Usage, Usages, TotalUsed
<1> QED BY <1>4, CheckpointAssumption

LEMMA NothingUsed == Balanced(Unused) /\ Pays(Unused, <<>>)
<1>1. <<>> \in Seq(Receipts) /\ Len(<<>>) = 0 /\ DOMAIN <<>> = {}
  OBVIOUS
<1>2. /\ SumTo(ReportedTokens(<<>>), 0) = 0 /\ SumTo(HeldTokens(<<>>), 0) = 0
      /\ SumTo(PromptBytes(<<>>), 0) = 0 /\ SumTo(OutputTokens(<<>>), 0) = 0
  <2>1. /\ ReportedTokens(<<>>) \in [1 .. 0 -> Nat] /\ HeldTokens(<<>>) \in [1 .. 0 -> Nat]
        /\ PromptBytes(<<>>) \in [1 .. 0 -> Nat] /\ OutputTokens(<<>>) \in [1 .. 0 -> Nat]
    BY <1>1, CountsAreNumbers
  <2> QED BY <2>1, SumUnfolds
<1>3. Balanced(Unused)
  BY <1>1, <1>2, BudgetAssumption DEF Balanced, Unused, BudgetFields
<1>4. Charged(<<>>) = 0
  <2> DEFINE f == [i \in DOMAIN <<>> |-> <<>>[i].charge]
  <2>1. f \in [1 .. 0 -> Nat]
    BY <1>1
  <2> HIDE DEF f
  <2>2. SumTo(f, 0) = 0
    BY <2>1, SumUnfolds
  <2> QED BY <1>1, <2>2 DEF Charged, f
<1> QED BY <1>1, <1>3, <1>4 DEF Pays, Unused

LEMMA RejectedBudget ==
  ASSUME NEW b, Balanced(b)
  PROVE  LET c == RejectCall(b)
         IN Balanced(c) /\ c.calls = b.calls /\ c.used = b.used /\ c.unknown = b.unknown
<1>1. PICK c : c = RejectCall(b)
  OBVIOUS
<1>2. DOMAIN b = BudgetFields /\ b.refused \in Nat
  BY DEF Balanced
<1>3. /\ DOMAIN c = BudgetFields /\ c.calls = b.calls /\ c.used = b.used /\ c.unknown = b.unknown
      /\ c.bytes = b.bytes /\ c.output = b.output /\ c.pending = b.pending
      /\ c.refused \in Nat
  BY <1>1, <1>2 DEF RejectCall, BudgetFields
<1> QED BY <1>1, <1>3 DEF Balanced

(* ------------------------------ the charges ----------------------------- *)

ChargesOK(h) == (\E C : h \in Seq(Sends(C))) /\ \A i \in DOMAIN h : h[i].charge \in Nat

ChargeOf(h) == [i \in DOMAIN h |-> h[i].charge]

LEMMA ChargesAreNumbers ==
  ASSUME NEW h, ChargesOK(h)
  PROVE  /\ ChargeOf(h) \in [1 .. Len(h) -> Nat] /\ Len(h) \in Nat /\ DOMAIN h = 1 .. Len(h)
         /\ Charged(h) = SumTo(ChargeOf(h), Len(h)) /\ Charged(h) \in Nat
<1>1. PICK C : h \in Seq(Sends(C))
  BY DEF ChargesOK
<1>2. Len(h) \in Nat /\ DOMAIN h = 1 .. Len(h)
  BY <1>1, SeqFacts
<1>3. ChargeOf(h) \in [1 .. Len(h) -> Nat]
  BY <1>2 DEF ChargeOf, ChargesOK
<1>4. Charged(h) = SumTo(ChargeOf(h), Len(h))
  BY DEF Charged, ChargeOf
<1>5. Len(h) \in 0 .. Len(h)
  BY <1>2
<1>6. SumTo(ChargeOf(h), Len(h)) \in Nat
  BY <1>2, <1>3, <1>5, SumUnfolds
<1> QED BY <1>2, <1>3, <1>4, <1>6

\* A call that is sent is charged with what it reserves.
LEMMA SentIsCharged ==
  ASSUME NEW h, ChargesOK(h), NEW c \in Nat, NEW x \in Sends({c})
  PROVE  LET h2 == Append(h, x)
         IN /\ ChargesOK(h2) /\ Len(h2) = Len(h) + 1 /\ h2 # <<>>
            /\ h2[Len(h2)].charge = c /\ Charged(h2) = Charged(h) + c
<1> DEFINE n == Len(h)
<1>1. PICK C : h \in Seq(Sends(C))
  BY DEF ChargesOK
<1>2. h \in Seq(Sends(C \cup {c})) /\ x \in Sends(C \cup {c}) /\ x.charge = c
  <2>1. Sends(C) \subseteq Sends(C \cup {c}) /\ Sends({c}) \subseteq Sends(C \cup {c})
    BY DEF Sends
  <2>2. x.charge = c
    BY DEF Sends
  <2> QED BY <1>1, <2>1, <2>2, SeqWidens
<1> DEFINE S == Sends(C \cup {c})
<1> HIDE DEF S
<1>3. PICK h2 : h2 = Append(h, x)
  OBVIOUS
<1>4. /\ h2 \in Seq(S) /\ n \in Nat /\ Len(h2) = n + 1 /\ DOMAIN h2 = 1 .. n + 1
      /\ h2[n + 1] = x /\ \A i \in 1 .. n : h2[i] = h[i]
      /\ DOMAIN h = 1 .. n
  <2>1. h \in Seq(S) /\ x \in S
    BY <1>2 DEF S
  <2> QED BY <1>3, <2>1
<1> HIDE DEF n
<1>5. \A i \in DOMAIN h2 : h2[i].charge \in Nat
  <2>1. \A i \in DOMAIN h2 : i \in 1 .. n \/ i = n + 1
    BY <1>4
  <2> QED BY <1>2, <1>4, <2>1 DEF ChargesOK
<1>6. ChargesOK(h2)
  BY <1>4, <1>5 DEF ChargesOK, S
<1>7. SameTo(ChargeOf(h), ChargeOf(h2), n) /\ ChargeOf(h2)[n + 1] = c
  <2>1. (\A i \in 1 .. n : i \in 1 .. n + 1) /\ n + 1 \in 1 .. n + 1
    BY <1>4
  <2> QED BY <1>2, <1>4, <2>1 DEF SameTo, ChargeOf
<1>8. ChargeOf(h) \in [1 .. n -> Nat] /\ ChargeOf(h2) \in [1 .. n + 1 -> Nat]
      /\ Charged(h) = SumTo(ChargeOf(h), n) /\ Charged(h2) = SumTo(ChargeOf(h2), n + 1)
  BY <1>4, <1>6, ChargesAreNumbers DEF n
<1>9. Charged(h2) = Charged(h) + c
  BY <1>4, <1>7, <1>8, SumOfOneMore
<1>10. h2 # <<>>
  <2>1. n + 1 \in DOMAIN h2
    BY <1>4
  <2> QED BY <1>4, <2>1, NotEmpty
<1> QED BY <1>2, <1>3, <1>4, <1>6, <1>9, <1>10 DEF n

AnsweredAs(h, outcome, charge) ==
  [h EXCEPT ![Len(h)] = [h[Len(h)] EXCEPT !.outcome = outcome, !.charge = charge]]

\* What an answer changes of the history.
LEMMA AnsweredFields ==
  ASSUME NEW h, (\E C : h \in Seq(Sends(C))), h # <<>>, NEW outcome, NEW charge
  PROVE  LET n == Len(h)
             h2 == AnsweredAs(h, outcome, charge)
         IN /\ n \in 1 .. n /\ n \in Nat /\ DOMAIN h = 1 .. n /\ DOMAIN h2 = 1 .. n
            /\ \A i \in 1 .. n : /\ h2[i].position = h[i].position
                                 /\ h2[i].digest = h[i].digest
            /\ \A i \in 1 .. n : i # n => h2[i] = h[i]
            /\ h2[n].outcome = outcome /\ h2[n].charge = charge
<1> DEFINE n == Len(h)
<1>1. PICK C : h \in Seq(Sends(C))
  OBVIOUS
<1>2. /\ n \in Nat /\ n \in 1 .. n /\ DOMAIN h = 1 .. n /\ h[n] \in Sends(C)
  <2> DEFINE S == Sends(C)
  <2> HIDE DEF S
  <2>1. h \in Seq(S)
    BY <1>1 DEF S
  <2>2. n \in Nat /\ n \in 1 .. n /\ DOMAIN h = 1 .. n /\ h[n] \in S
    BY <2>1, LastRecord, SeqFacts
  <2> QED BY <2>2 DEF S
<1> DEFINE x == [h[n] EXCEPT !.outcome = outcome, !.charge = charge]
<1>3. /\ x.outcome = outcome /\ x.charge = charge
      /\ x.position = h[n].position /\ x.digest = h[n].digest
  BY <1>2 DEF Sends
<1> HIDE DEF x, n
<1>4. PICK h2 : h2 = [h EXCEPT ![n] = x]
  OBVIOUS
<1>5. DOMAIN h2 = 1 .. n /\ h2[n] = x /\ \A i \in 1 .. n : i # n => h2[i] = h[i]
  BY <1>2, <1>4
<1>6. h2 = AnsweredAs(h, outcome, charge)
  BY <1>4 DEF AnsweredAs, x, n
<1> QED BY <1>2, <1>3, <1>5, <1>6 DEF n

\* An answer replaces what the last call had reserved by what it is charged.
LEMMA AnswerIsCharged ==
  ASSUME NEW h, ChargesOK(h), h # <<>>, NEW outcome \in Outcomes, NEW charge \in Nat, NEW a \in Nat,
         Charged(h) = a + h[Len(h)].charge
  PROVE  LET h2 == AnsweredAs(h, outcome, charge)
         IN ChargesOK(h2) /\ Len(h2) = Len(h) /\ Charged(h2) = a + charge
<1> DEFINE n == Len(h)
<1>0. PICK C : h \in Seq(Sends(C))
  BY DEF ChargesOK
<1>1. PICK h2 : h2 = AnsweredAs(h, outcome, charge)
  OBVIOUS
<1>2. /\ n \in 1 .. n /\ n \in Nat /\ DOMAIN h = 1 .. n /\ DOMAIN h2 = 1 .. n
      /\ \A i \in 1 .. n : i # n => h2[i] = h[i]
      /\ h2[n].charge = charge
  BY <1>0, <1>1, AnsweredFields
<1>3. \E D : h2 \in Seq(Sends(D))
  <2>1. h[n] \in Sends(C)
    BY <1>0, <1>2, SeqElement
  <2> DEFINE S == Sends(C \cup {charge})
             x == [h[n] EXCEPT !.outcome = outcome, !.charge = charge]
  <2>2. x \in S /\ Sends(C) \subseteq S
    BY <2>1 DEF Sends
  <2> HIDE DEF S, x
  <2>3. h \in Seq(S)
    BY <1>0, <2>2, SeqWidens
  <2>4. [h EXCEPT ![n] = x] \in Seq(S)
    BY <1>2, <2>2, <2>3, SeqReplaces
  <2>5. h2 = [h EXCEPT ![n] = x]
    BY <1>1 DEF AnsweredAs, x
  <2> QED BY <2>4, <2>5 DEF S
<1> HIDE DEF n
<1>4. \A i \in DOMAIN h2 : h2[i].charge \in Nat
  BY <1>2 DEF ChargesOK
<1>5. ChargesOK(h2)
  BY <1>3, <1>4 DEF ChargesOK
<1>6. Len(h2) = n
  <2>1. DOMAIN h2 = 1 .. Len(h2) /\ Len(h2) \in Nat
    BY <1>5, ChargesAreNumbers
  <2> QED BY <1>2, <2>1
<1>7. ChargeOf(h) \in [1 .. n -> Nat] /\ ChargeOf(h2) \in [1 .. n -> Nat]
      /\ Charged(h) = SumTo(ChargeOf(h), n) /\ Charged(h2) = SumTo(ChargeOf(h2), n)
  BY <1>5, <1>6, ChargesAreNumbers DEF n
<1>8. n - 1 \in Nat /\ n - 1 <= n /\ \A i \in 1 .. n - 1 : i \in 1 .. n /\ i # n
  BY <1>2
<1>9. SameTo(ChargeOf(h), ChargeOf(h2), n - 1) /\ ChargeOf(h)[n] = h[n].charge
      /\ ChargeOf(h2)[n] = charge
  BY <1>2, <1>8 DEF SameTo, ChargeOf
<1>10. SumTo(ChargeOf(h), n - 1) = SumTo(ChargeOf(h2), n - 1)
  <2>1. PICK f \in [1 .. n -> Nat], g \in [1 .. n -> Nat], k \in Nat :
          f = ChargeOf(h) /\ g = ChargeOf(h2) /\ k = n - 1
    BY <1>7, <1>8
  <2>2. k <= n /\ SameTo(f, g, k) /\ n \in Nat
    BY <1>2, <1>8, <1>9, <2>1
  <2>3. SumTo(f, k) = SumTo(g, k)
    BY ZenonT(30), <2>2, SumOfSame
  <2> QED BY <2>1, <2>3
<1>11. /\ SumTo(ChargeOf(h), n) = SumTo(ChargeOf(h), n - 1) + ChargeOf(h)[n]
       /\ SumTo(ChargeOf(h2), n) = SumTo(ChargeOf(h2), n - 1) + ChargeOf(h2)[n]
       /\ SumTo(ChargeOf(h), n - 1) \in Nat
  <2>1. n - 1 \in 0 .. n
    BY <1>2
  <2> QED BY <1>2, <1>7, <2>1, SumUnfolds
<1>12. h[n].charge \in Nat
  BY <1>2 DEF ChargesOK
<1>13. Charged(h2) = a + charge
  BY <1>7, <1>9, <1>10, <1>11, <1>12 DEF n
<1> QED BY <1>1, <1>5, <1>6, <1>13 DEF n

(* ------------------------- the story of the records --------------------- *)

LEMMA LastSettledFields ==
  ASSUME NEW records \in Seq(Records), records # <<>>,
         records[Len(records)] \in PendingRecords, NEW outcome \in Outcomes
  PROVE  LET n == Len(records)
             r2 == LastSettled(records, outcome)
         IN /\ n \in Nat /\ n \in 1 .. n /\ DOMAIN records = 1 .. n
            /\ DOMAIN r2 = 1 .. n /\ Len(r2) = n
            /\ r2[n].state # "pending" /\ r2[n].outcome = outcome
            /\ r2[n].digest = records[n].digest
            /\ \A i \in 1 .. n : i # n => r2[i] = records[i]
<1> DEFINE n == Len(records)
           y == SettledAs(records[n], outcome)
<1>1. y \in Records /\ y.state # "pending" /\ y.outcome = outcome /\ y.digest = records[n].digest
  <2>1. y \in SettledRecords /\ y.digest = records[n].digest /\ y.outcome = outcome
    BY DEF SettledAs, PendingRecords, SettledRecords
  <2> HIDE DEF y
  <2> QED BY <2>1 DEF Records, SettledRecords
<1>2. n \in Nat /\ n \in 1 .. n /\ DOMAIN records = 1 .. n
  BY LastRecord, SeqFacts
<1>3. LastSettled(records, outcome) = [records EXCEPT ![n] = y]
  BY DEF LastSettled
<1> HIDE DEF y
<1> DEFINE t == [records EXCEPT ![n] = y]
<1>4. n \in 1 .. Len(records) /\ records \in Seq(Records) /\ y \in Records
  BY <1>1, <1>2
<1>5. /\ Len(t) = n /\ DOMAIN t = 1 .. n /\ t[n] = y
      /\ \A i \in 1 .. n : i # n => t[i] = records[i]
  BY <1>4, SeqReplaces
<1>6. LastSettled(records, outcome) = t
  BY <1>3
<1> HIDE DEF t, n
<1>7. /\ t[n].state # "pending" /\ t[n].outcome = outcome
      /\ t[n].digest = records[n].digest
  BY <1>1, <1>5
<1> QED BY <1>2, <1>5, <1>6, <1>7 DEF n

\* A call that is sent is told of by no settled record yet.
LEMMA SentIsUntold ==
  ASSUME NEW records, NEW h, Tells(records, h), (\E C : h \in Seq(Sends(C))),
         records[Len(records)].state = "pending",
         NEW x, x.position = Len(records)
  PROVE  Tells(records, Append(h, x))
<1>1. PICK C : h \in Seq(Sends(C))
  OBVIOUS
<1>2. Len(h) \in Nat /\ DOMAIN h = 1 .. Len(h)
  BY <1>1, SeqFacts
<1>3. PICK h2 : h2 = Append(h, x)
  OBVIOUS
<1>4. /\ DOMAIN h2 = 1 .. Len(h) + 1 /\ h2[Len(h) + 1] = x
      /\ \A i \in 1 .. Len(h) : h2[i] = h[i]
  <2>1. h \in Seq(Sends(C) \cup {x}) /\ x \in Sends(C) \cup {x}
    BY <1>1, SeqWidens
  <2> DEFINE S == Sends(C) \cup {x}
  <2> HIDE DEF S
  <2>2. h \in Seq(S) /\ x \in S
    BY <2>1 DEF S
  <2> QED BY <1>3, <2>2
<1>5. \A i \in DOMAIN h2 : i \in DOMAIN h \/ i = Len(h) + 1
  BY <1>2, <1>4
<1>6. \A i \in DOMAIN h : i \in DOMAIN h2 /\ h2[i] = h[i]
  BY <1>2, <1>4
<1>7. ASSUME NEW k \in DOMAIN records, records[k].state # "pending"
      PROVE  /\ \A i \in DOMAIN h2 : h2[i].position = k =>
                  h2[i].outcome = records[k].outcome /\ h2[i].digest = records[k].digest
             /\ (\A i \in DOMAIN h2 : h2[i].position # k) => records[k].outcome = "error"
  <2>1. h2[Len(h) + 1].position # k
    BY <1>4, <1>7
  <2> QED BY <1>5, <1>6, <1>7, <2>1 DEF Tells
<1> QED BY <1>3, <1>7 DEF Tells

\* Nor does an answer touch what settled records tell.
LEMMA AnswerIsUntold ==
  ASSUME NEW records, NEW h, Tells(records, h), (\E C : h \in Seq(Sends(C))), h # <<>>,
         records[Len(records)].state = "pending", h[Len(h)].position = Len(records),
         NEW outcome, NEW charge
  PROVE  Tells(records, AnsweredAs(h, outcome, charge))
<1> DEFINE n == Len(h)
<1>1. PICK h2 : h2 = AnsweredAs(h, outcome, charge)
  OBVIOUS
<1>2. /\ n \in 1 .. n /\ DOMAIN h = 1 .. n /\ DOMAIN h2 = 1 .. n
      /\ \A i \in 1 .. n : h2[i].position = h[i].position
      /\ \A i \in 1 .. n : i # n => h2[i] = h[i]
  BY <1>1, AnsweredFields
<1> HIDE DEF n
<1>3. ASSUME NEW k \in DOMAIN records, records[k].state # "pending"
      PROVE  /\ \A i \in DOMAIN h2 : h2[i].position = k =>
                  h2[i].outcome = records[k].outcome /\ h2[i].digest = records[k].digest
             /\ (\A i \in DOMAIN h2 : h2[i].position # k) => records[k].outcome = "error"
  <2>1. h[n].position # k
    BY <1>3 DEF n
  <2> QED BY <1>2, <1>3, <2>1 DEF Tells
<1> QED BY <1>1, <1>3 DEF Tells

\* The record of an answered call tells what was answered.
LEMMA AnswerIsTold ==
  ASSUME NEW records \in Seq(Records), records # <<>>,
         records[Len(records)] \in PendingRecords, NEW outcome \in Outcomes,
         NEW h, Tells(records, h), (\E C : h \in Seq(Sends(C))), h # <<>>,
         \A i, j \in DOMAIN h : h[i].position = h[j].position => i = j,
         h[Len(h)].position = Len(records),
         h[Len(h)].digest = records[Len(records)].digest,
         NEW charge
  PROVE  Tells(LastSettled(records, outcome), AnsweredAs(h, outcome, charge))
<1> DEFINE n == Len(h)
           m == Len(records)
<1>1. PICK h2 : h2 = AnsweredAs(h, outcome, charge)
  OBVIOUS
<1>2. /\ n \in 1 .. n /\ DOMAIN h = 1 .. n /\ DOMAIN h2 = 1 .. n
      /\ \A i \in 1 .. n : h2[i].position = h[i].position /\ h2[i].digest = h[i].digest
      /\ \A i \in 1 .. n : i # n => h2[i] = h[i]
      /\ h2[n].outcome = outcome
  BY <1>1, AnsweredFields
<1>3. PICK r2 : r2 = LastSettled(records, outcome)
  OBVIOUS
<1>4. /\ m \in 1 .. m /\ DOMAIN records = 1 .. m /\ DOMAIN r2 = 1 .. m
      /\ r2[m].state # "pending" /\ r2[m].outcome = outcome
      /\ r2[m].digest = records[m].digest
      /\ \A i \in 1 .. m : i # m => r2[i] = records[i]
  BY <1>3, LastSettledFields
<1>5. h[n].position = m /\ h[n].digest = records[m].digest
  OBVIOUS
<1> HIDE DEF n, m
<1>6. ASSUME NEW k \in DOMAIN r2, r2[k].state # "pending"
      PROVE  /\ \A i \in DOMAIN h2 : h2[i].position = k =>
                  h2[i].outcome = r2[k].outcome /\ h2[i].digest = r2[k].digest
             /\ (\A i \in DOMAIN h2 : h2[i].position # k) => r2[k].outcome = "error"
  <2>1. CASE k = m
    <3>1. \A i \in DOMAIN h2 : h2[i].position = k => i = n
      BY <1>2, <1>5, <2>1
    <3> QED BY <1>2, <1>4, <1>5, <2>1, <3>1
  <2>2. CASE k # m
    <3>1. r2[k] = records[k] /\ h[n].position # k /\ k \in DOMAIN records
      BY <1>4, <1>5, <1>6, <2>2
    <3>2. \A i \in DOMAIN h2 : i \in DOMAIN h /\ (h2[i].position = k => h2[i] = h[i])
      BY <1>2, <3>1
    <3>3. \A i \in DOMAIN h : i \in DOMAIN h2 /\ h2[i].position = h[i].position
      BY <1>2
    <3>4. /\ \A i \in DOMAIN h : h[i].position = k =>
               h[i].outcome = records[k].outcome /\ h[i].digest = records[k].digest
          /\ (\A i \in DOMAIN h : h[i].position # k) => records[k].outcome = "error"
      BY <1>6, <3>1 DEF Tells
    <3> QED BY <3>1, <3>2, <3>3, <3>4
  <2> QED BY <2>1, <2>2
<1> QED BY <1>1, <1>3, <1>6 DEF Tells

\* A call the budget refused is an error that was never sent.
LEMMA RefusalIsTold ==
  ASSUME NEW records \in Seq(Records), records # <<>>,
         records[Len(records)] \in PendingRecords,
         NEW h, Tells(records, h), \A i \in DOMAIN h : h[i].position # Len(records)
  PROVE  Tells(LastSettled(records, "error"), h)
<1> DEFINE m == Len(records)
<1>1. PICK r2 : r2 = LastSettled(records, "error")
  OBVIOUS
<1>2. /\ m \in 1 .. m /\ DOMAIN records = 1 .. m /\ DOMAIN r2 = 1 .. m
      /\ r2[m].outcome = "error"
      /\ \A i \in 1 .. m : i # m => r2[i] = records[i]
  BY <1>1, LastSettledFields DEF Outcomes
<1> HIDE DEF m
<1>3. ASSUME NEW k \in DOMAIN r2, r2[k].state # "pending"
      PROVE  /\ \A i \in DOMAIN h : h[i].position = k =>
                  h[i].outcome = r2[k].outcome /\ h[i].digest = r2[k].digest
             /\ (\A i \in DOMAIN h : h[i].position # k) => r2[k].outcome = "error"
  <2>1. CASE k = m
    BY <1>2, <2>1 DEF m
  <2>2. CASE k # m
    <3>1. r2[k] = records[k] /\ k \in DOMAIN records
      BY <1>2, <1>3, <2>2
    <3> QED BY <1>3, <3>1 DEF Tells
  <2> QED BY <2>1, <2>2
<1> QED BY <1>1, <1>3 DEF Tells

\* A pending record tells nothing.
LEMMA PendingIsUntold ==
  ASSUME NEW records \in Seq(Records), NEW new \in PendingRecords, NEW h, Tells(records, h)
  PROVE  Tells(Append(records, new), h)
<1> DEFINE n == Len(records)
<1>1. PICK r2 : r2 = Append(records, new)
  OBVIOUS
<1>2. n \in Nat /\ DOMAIN records = 1 .. n /\ DOMAIN r2 = 1 .. n + 1 /\ r2[n + 1] = new
      /\ \A i \in 1 .. n : r2[i] = records[i]
  <2>1. new \in Records
    BY DEF Records
  <2> QED BY <1>1, <2>1
<1>3. \A k \in DOMAIN r2 : r2[k].state # "pending" => k \in DOMAIN records /\ r2[k] = records[k]
  <2>1. \A k \in DOMAIN r2 : k \in 1 .. n \/ k = n + 1
    BY <1>2
  <2> QED BY <1>2, <2>1 DEF PendingRecords
<1> QED BY <1>1, <1>3 DEF Tells

(* ----------------------------- the results ------------------------------ *)

\* What was seen before a turn does not change when its result is appended.
LEMMA SeenBefore ==
  ASSUME NEW s \in Seq(Results), NEW r \in Results
  PROVE  /\ \A k \in 0 .. Len(s) : SubSeq(Append(s, r), 1, k) = SubSeq(s, 1, k)
         /\ SubSeq(s, 1, Len(s)) = s
<1>1. Len(s) \in Nat /\ DOMAIN s = 1 .. Len(s)
  OBVIOUS
<1>2. \A i \in 1 .. Len(s) : Append(s, r)[i] = s[i]
  OBVIOUS
<1>3. ASSUME NEW k \in 0 .. Len(s)
      PROVE  SubSeq(Append(s, r), 1, k) = SubSeq(s, 1, k)
  BY <1>1, <1>2
<1>4. SubSeq(s, 1, Len(s)) = s
  BY <1>1
<1> QED BY <1>3, <1>4

\* The next record is of the request the process makes, and its outcome the
\* result it gets.
LEMMA FollowsOn ==
  ASSUME NEW q, Typed(q), NEW n \in {q.cursor, Len(q.records)}, Follows(q, n),
         q.cursor < Len(q.records),
         q.records[q.cursor + 1].digest = Digest(q.world, q.results),
         NEW r \in Results, r = q.records[q.cursor + 1].outcome,
         NEW q2, q2.world = q.world, q2.records = q.records, q2.results = Append(q.results, r),
         q2.cursor = q.cursor + 1
  PROVE  Follows(q2, q2.cursor)
<1> DEFINE c == q.cursor
<1>1. q.results \in Seq(Results) /\ c \in Nat /\ Len(q.records) \in Nat /\ Len(q.results) = c
      /\ c <= n
  BY TypedFields DEF Typed, Follows
<1>2. /\ \A k \in 0 .. c : SubSeq(q2.results, 1, k) = SubSeq(q.results, 1, k)
      /\ SubSeq(q.results, 1, c) = q.results
  BY <1>1, SeenBefore
<1>3. Len(q2.results) = c + 1 /\ q2.results[c + 1] = r
      /\ \A k \in 1 .. c : q2.results[k] = q.results[k]
  BY <1>1
<1>4. \A k \in 1 .. c + 1 : k \in 1 .. c \/ k = c + 1
  BY <1>1
<1>5. \A k \in 1 .. c : k \in 1 .. n
  BY <1>1, TypedFields DEF Typed
<1>6. \A k \in 1 .. c + 1 : q2.results[k] = q2.records[k].outcome
  BY <1>3, <1>4 DEF Follows
<1>7. ASSUME NEW k \in 1 .. c + 1
      PROVE  q2.records[k].digest = Digest(q2.world, SubSeq(q2.results, 1, k - 1))
  <2>1. CASE k \in 1 .. c
    <3>1. q.records[k].digest = Digest(q.world, SubSeq(q.results, 1, k - 1))
      BY <1>5, <2>1 DEF Follows
    <3>2. k - 1 \in 0 .. c
      BY <1>1, <2>1
    <3>3. SubSeq(q2.results, 1, k - 1) = SubSeq(q.results, 1, k - 1)
      BY <1>2, <3>2
    <3> QED BY <3>1, <3>3
  <2>2. CASE k = c + 1
    <3>1. k - 1 = c /\ c \in 0 .. c
      BY <1>1, <2>2
    <3>2. SubSeq(q2.results, 1, k - 1) = q.results
      BY <1>2, <3>1
    <3> QED BY <2>2, <3>2
  <2> QED BY <1>4, <2>1, <2>2
<1> QED BY <1>3, <1>6, <1>7 DEF Follows

\* A new record is of the request the process makes.
LEMMA RecordFollows ==
  ASSUME NEW q, Typed(q), Follows(q, q.cursor), q.cursor = Len(q.records),
         NEW new \in PendingRecords, new.digest = Digest(q.world, q.results),
         NEW q2, q2.world = q.world, q2.records = Append(q.records, new),
         q2.results = q.results, q2.cursor = q.cursor
  PROVE  Follows(q2, Len(q2.records))
<1> DEFINE n == Len(q.records)
<1>1. q.results \in Seq(Results) /\ n \in Nat /\ Len(q.results) = n /\ q.records \in Seq(Records)
  BY TypedFields DEF Follows
<1>2. SubSeq(q.results, 1, n) = q.results
  BY <1>1
<1>3. /\ Len(q2.records) = n + 1 /\ q2.records[n + 1] = new
      /\ \A i \in 1 .. n : q2.records[i] = q.records[i]
  <2>1. new \in Records
    BY DEF Records
  <2> QED BY <1>1, <2>1
<1>4. (\A k \in 1 .. n + 1 : k \in 1 .. n \/ k = n + 1) /\ n + 1 - 1 = n
  BY <1>1
<1>5. q2.records[n + 1].digest = Digest(q2.world, SubSeq(q2.results, 1, n + 1 - 1))
  BY <1>2, <1>3, <1>4
<1>6. \A k \in 1 .. n : q2.records[k].digest = Digest(q2.world, SubSeq(q2.results, 1, k - 1))
  BY <1>3 DEF Follows
<1> HIDE DEF n
<1>7. \A k \in 1 .. n : q2.results[k] = q2.records[k].outcome
  BY <1>3 DEF Follows, n
<1> QED BY <1>1, <1>3, <1>4, <1>5, <1>6, <1>7 DEF Follows, n

(* --------------------------- steps of a process ------------------------- *)

PathGood(f, h) == PaidFor(f, h) /\ (f.kind = "saved" => Tells(f.records, h))

Good(q, h) == ProcessPays(q, h) /\ ProcessTells(q, h)

More ==
  /\ PathGood(file, history) /\ PathGood(durable, history)
  /\ \A p \in Procs : ~At(p, "gone") => Good(proc[p], history)

\* What holds of the process at work.
LEMMA AtWork ==
  ASSUME Inv, More, NEW p \in Procs, ~At(p, "gone")
  PROVE  /\ ProcessOK(proc[p], file, durable, history) /\ Typed(proc[p])
         /\ DOMAIN proc[p] = Fields
         /\ ProcessPays(proc[p], history) /\ ProcessTells(proc[p], history)
         /\ PathGood(file, history) /\ PathGood(durable, history)
         /\ HistoryOK(history, durable)
<1>1. ProcessOK(proc[p], file, durable, history)
  BY Alone
<1> QED BY <1>1 DEF More, Good, ProcessOK, Typed, Inv, PathOK

LEMMA MoreFrame ==
  ASSUME Inv, NEW p \in Procs, ~At(p, "gone"), \A o \in Procs \ {p} : proc'[o] = proc[o],
         PathGood(file', history'), PathGood(durable', history'), Good(proc'[p], history')
  PROVE  More'
<1>1. \A o \in Procs \ {p} : proc'[o].pc = "gone"
  BY Alone DEF Gone
<1> QED BY <1>1 DEF More, At

LEMMA MoreExit ==
  ASSUME Inv, NEW p \in Procs, ~At(p, "gone"), Exit(p),
         PathGood(file', history'), PathGood(durable', history')
  PROVE  More'
<1>1. \A o \in Procs : proc'[o].pc = "gone"
  BY Alone DEF Inv, Exit, Gone
<1> QED BY <1>1 DEF More, At

LEMMA MoreInit == Init => More
<1> SUFFICES ASSUME Init PROVE More
  OBVIOUS
<1>1. file.kind = "absent" /\ durable.kind = "absent" /\ \A p \in Procs : proc[p].pc = "gone"
  BY DEF Init, Absent, Gone
<1> QED BY <1>1 DEF More, PathGood, PaidFor, At

LEMMA MoreStart ==
  ASSUME Inv, More, NEW p \in Procs, NEW i \in Identities, NEW w \in Worlds, NEW r \in BOOLEAN,
         Start(p, i, w, r)
  PROVE  More'
<1>1. \A o \in Procs : proc[o] = Gone
  BY CheckpointAssumption DEF Inv, Start, LockFree
<1>2. proc'[p] = [pc |-> IF r THEN "resuming" ELSE "creating", identity |-> i, world |-> w,
                  records |-> <<>>, usage |-> None, budget |-> Unused, cursor |-> 0,
                  failed |-> FALSE, results |-> <<>>]
      /\ \A o \in Procs \ {p} : proc'[o].pc = "gone"
  BY <1>1 DEF Start, Inv, Gone
<1>3. UNCHANGED <<file, durable, history>>
  BY DEF Start
<1>4. PICK q : q = proc'[p]
  OBVIOUS
<1>5. /\ q.pc \in Opening /\ q.pc \notin Sending /\ q.pc # "saving outcome" /\ q.pc # "running"
      /\ q.records = <<>> /\ q.usage = None /\ q.budget = Unused /\ q.cursor = 0 /\ ~q.failed
      /\ q.results = <<>>
  BY <1>2, <1>4 DEF Opening, Sending
<1>6. ProcessPays(q, history)
  BY <1>5 DEF ProcessPays, Sending
<1>7. Tells(q.records, history) /\ Follows(q, 0)
  <2>1. DOMAIN <<>> = {} /\ Len(<<>>) = 0 /\ 1 .. 0 = {}
    OBVIOUS
  <2> QED BY <1>5, <2>1 DEF Tells, Follows
<1>8. ProcessTells(q, history)
  BY <1>5, <1>7 DEF ProcessTells, Sending
<1> QED BY <1>2, <1>3, <1>4, <1>6, <1>8 DEF More, At, Good

\* What a new phase needs of a process that is not at work on a call.
LEMMA MoreCreate ==
  ASSUME Inv, More, NEW p \in Procs, Create(p)
  PROVE  More'
<1>1. ~At(p, "gone") /\ proc[p].pc = "creating"
  BY DEF Create, At
<1>2. /\ Typed(proc[p]) /\ DOMAIN proc[p] = Fields
      /\ ProcessPays(proc[p], history) /\ ProcessTells(proc[p], history)
      /\ PathGood(file, history) /\ PathGood(durable, history)
  BY <1>1, AtWork
<1>3. CASE file = Absent
  <2>1. /\ file' = Torn /\ UNCHANGED <<durable, history>>
        /\ proc' = [proc EXCEPT ![p].pc = "first save"]
    BY <1>3 DEF Create, MayCreate, Go
  <2>2. PICK q : q = proc'[p]
    OBVIOUS
  <2>3. q = [proc[p] EXCEPT !.pc = "first save"] /\ \A o \in Procs \ {p} : proc'[o] = proc[o]
    BY <2>1, <2>2 DEF Inv
  <2>4. /\ q.pc = "first save" /\ q.identity = proc[p].identity /\ q.records = proc[p].records
        /\ q.usage = proc[p].usage /\ q.budget = proc[p].budget /\ q.cursor = proc[p].cursor
        /\ q.failed = proc[p].failed /\ q.results = proc[p].results /\ q.world = proc[p].world
    BY <1>2, <2>3 DEF Fields
  <2>5. ProcessPays(q, history)
    BY <1>1, <1>2, <2>4 DEF ProcessPays, Opening, Sending
  <2>6. ProcessTells(q, history)
    BY <1>1, <1>2, <2>4 DEF ProcessTells, Opening, Sending, Follows
  <2>7. PathGood(file', history')
    BY <2>1 DEF PathGood, PaidFor, Torn
  <2> QED BY <1>1, <1>2, <2>1, <2>2, <2>3, <2>5, <2>6, <2>7, MoreFrame DEF Good
<1>4. CASE file # Absent
  <2>1. Exit(p) /\ UNCHANGED <<file, durable, history>>
    BY <1>4 DEF Create, MayCreate
  <2> QED BY <1>1, <1>2, <2>1, MoreExit
<1> QED BY <1>3, <1>4

LEMMA MoreResume ==
  ASSUME Inv, More, NEW p \in Procs, Resume(p)
  PROVE  More'
<1>1. ~At(p, "gone") /\ proc[p].pc = "resuming" /\ UNCHANGED <<file, durable, history>>
  BY DEF Resume, At
<1>2. /\ Typed(proc[p]) /\ DOMAIN proc[p] = Fields
      /\ ProcessPays(proc[p], history) /\ ProcessTells(proc[p], history)
      /\ PathGood(file, history) /\ PathGood(durable, history)
  BY <1>1, AtWork
<1>3. CASE Resumable(p)
  <2>1. proc' = [proc EXCEPT ![p].pc = "running", ![p].records = file.records,
                             ![p].usage = file.usage, ![p].budget = RestoredBudget(file)]
    BY <1>3 DEF Resume
  <2>2. PICK q : q = proc'[p]
    OBVIOUS
  <2>3. q = [proc[p] EXCEPT !.pc = "running", !.records = file.records,
                            !.usage = file.usage, !.budget = RestoredBudget(file)]
        /\ \A o \in Procs \ {p} : proc'[o] = proc[o]
    BY <2>1, <2>2 DEF Inv
  <2>4. /\ q.pc = "running" /\ q.identity = proc[p].identity /\ q.records = file.records
        /\ q.usage = file.usage /\ q.budget = RestoredBudget(file)
        /\ q.failed = proc[p].failed /\ q.results = proc[p].results /\ q.world = proc[p].world
        /\ q.cursor = proc[p].cursor
    BY <1>2, <2>3 DEF Fields
  <2>5. file.kind = "saved" /\ file.identity = q.identity /\ Certain(file.records)
    BY <1>3, <2>4 DEF Resumable
  <2>6. ProcessPays(q, history)
    <3>1. Metered(q.identity) => Pays(q.budget, history)
                                 /\ UsageOf(q.usage, q.records, q.budget, history)
      BY <1>2, <2>4, <2>5 DEF PathGood, PaidFor, RestoredBudget
    <3> QED BY <2>4, <3>1 DEF ProcessPays, Opening
  <2>7. ProcessTells(q, history)
    <3>1. q.cursor = 0 /\ q.results = <<>>
      BY <1>1, <1>2, <2>4 DEF ProcessTells, Opening
    <3>2. Tells(q.records, history)
      BY <1>2, <2>4, <2>5 DEF PathGood
    <3> QED BY <2>4, <3>1, <3>2 DEF ProcessTells, Opening, Sending, Follows
  <2> QED BY <1>1, <1>2, <2>2, <2>3, <2>6, <2>7, MoreFrame DEF Good
<1>4. CASE ~Resumable(p)
  <2>1. Exit(p)
    BY <1>4 DEF Resume
  <2> QED BY <1>1, <1>2, <2>1, MoreExit
<1> QED BY <1>3, <1>4

LEMMA PaidByItsUsage ==
  ASSUME NEW f, NEW b, NEW h, Pays(b, h), f.usage = Usage(b)
  PROVE  PaidFor(f, h)
<1>1. Balanced(b)
  BY DEF Pays
<1>2. f.usage # None
  BY <1>1, UsageIsAUsage
<1>3. PICK c : c = FromReceipts(Usage(b))
  OBVIOUS
<1>4. Balanced(c) /\ c.calls = b.calls /\ c.used = b.used /\ c.unknown = b.unknown
      /\ Usage(c) = Usage(b)
  BY <1>1, <1>3, UsageIsRestored
<1>5. Pays(c, h)
  BY <1>4 DEF Pays
<1> QED BY <1>2, <1>3, <1>4, <1>5 DEF PaidFor, UsageOf

\* What a process saves is as good as what it knows.
LEMMA SavedIsGood ==
  ASSUME Inv, More, NEW p \in Procs, IsSaving(p)
  PROVE  PathGood(StateOf(proc[p]), history)
<1> DEFINE q == proc[p]
<1>1. PICK f : f = StateOf(q)
  OBVIOUS
<1>2. /\ f.kind = "saved" /\ f.identity = q.identity /\ f.records = q.records
      /\ f.usage = q.usage
  BY <1>1, SavedFields DEF StateOf
<1>3. /\ ~At(p, "gone") /\ ProcessOK(q, file, durable, history)
      /\ ProcessPays(q, history) /\ ProcessTells(q, history)
  BY AtWork DEF IsSaving, At
<1>4. Tells(f.records, history)
  BY <1>2, <1>3 DEF ProcessTells
<1>5. PaidFor(f, history)
  <2>1. CASE q.pc = "first save"
    <3>1. file = Torn /\ q.records = <<>> /\ q.usage = None
      BY <1>3, <2>1 DEF ProcessOK, ProcessPays, Opening
    <3>2. history = <<>>
      BY <3>1, NoHistoryYet DEF Inv, Torn
    <3> QED BY <1>2, <3>1, <3>2, NothingUsed DEF PaidFor, UsageOf
  <2>2. CASE q.pc = "saving request"
    <3>1. q.records # <<>> /\ q.records[Len(q.records)] \in PendingRecords /\ Typed(q)
      BY <1>3, <2>2 DEF ProcessOK, Sending
    <3>2. Len(q.records) \in DOMAIN q.records
      BY <3>1, TypedFields, LastRecord
    <3>3. ~Certain(f.records)
      BY <1>2, <3>1, <3>2 DEF Certain, PendingRecords
    <3> QED BY <3>3 DEF PaidFor
  <2>3. CASE q.pc = "saving outcome"
    <3>1. CASE Metered(q.identity)
      <4>1. Pays(q.budget, history) /\ f.usage = Usage(q.budget)
        BY <1>2, <1>3, <2>3, <3>1 DEF ProcessPays
      <4> QED BY <4>1, PaidByItsUsage
    <3>2. CASE ~Metered(q.identity)
      BY <1>2, <3>2 DEF PaidFor
    <3> QED BY <3>1, <3>2
  <2> QED BY <2>1, <2>2, <2>3 DEF IsSaving
<1> QED BY <1>1, <1>4, <1>5 DEF PathGood

LEMMA MoreSave ==
  ASSUME Inv, More, NEW p \in Procs, Save(p)
  PROVE  More'
<1> DEFINE q == proc[p]
<1>1. IsSaving(p) /\ ~At(p, "gone") /\ history' = history
      /\ file' = StateOf(q) /\ durable' = StateOf(q)
  BY StateIsStateOf DEF Save, IsSaving, At
<1>2. /\ ProcessOK(q, file, durable, history) /\ Typed(q) /\ DOMAIN q = Fields
      /\ ProcessPays(q, history) /\ ProcessTells(q, history)
  BY <1>1, AtWork
<1>3. PathGood(file', history') /\ PathGood(durable', history')
  BY <1>1, SavedIsGood
<1>4. PICK q2 : q2 = proc'[p]
  OBVIOUS
<1>5. CASE q.pc \in {"first save", "saving request"}
  <2> DEFINE pc2 == IF q.pc = "first save" THEN "running" ELSE "dispatching"
  <2>1. proc' = [proc EXCEPT ![p].pc = pc2]
    BY <1>5 DEF Save, AfterSave, At
  <2>2. q2 = [q EXCEPT !.pc = pc2] /\ \A o \in Procs \ {p} : proc'[o] = proc[o]
    BY <1>4, <2>1 DEF Inv
  <2>3. /\ q2.pc = pc2 /\ q2.identity = q.identity /\ q2.records = q.records
        /\ q2.usage = q.usage /\ q2.budget = q.budget /\ q2.cursor = q.cursor
        /\ q2.failed = q.failed /\ q2.results = q.results /\ q2.world = q.world
    BY <1>2, <2>2 DEF Fields
  <2>4. ProcessPays(q2, history)
    <3>1. CASE q.pc = "first save"
      <4>1. file = Torn /\ q.records = <<>> /\ q.usage = None /\ q.budget = Unused
        BY <1>2, <3>1 DEF ProcessOK, ProcessPays, Opening
      <4>2. history = <<>>
        BY <4>1, NoHistoryYet DEF Inv, Torn
      <4> QED BY <2>3, <3>1, <4>1, <4>2, NothingUsed DEF ProcessPays, Opening, UsageOf
    <3>2. CASE q.pc = "saving request"
      BY <1>2, <2>3, <3>2 DEF ProcessPays, Opening
    <3> QED BY <1>5, <3>1, <3>2
  <2>5. ProcessTells(q2, history)
    <3>1. CASE q.pc = "first save"
      BY <1>2, <2>3, <3>1 DEF ProcessTells, Opening, Sending, Follows
    <3>2. CASE q.pc = "saving request"
      BY <1>2, <2>3, <3>2 DEF ProcessTells, Opening, Sending, Follows
    <3> QED BY <1>5, <3>1, <3>2
  <2> QED BY <1>1, <1>3, <1>4, <2>2, <2>4, <2>5, MoreFrame DEF Good
<1>6. CASE q.pc = "saving outcome"
  <2> DEFINE r == Last(q.records).outcome
  <2>1. proc' = [Result(p, r) EXCEPT ![p].cursor = @ + 1]
    BY <1>6 DEF Save, AfterSave, At
  <2>2. q2 = WithResult(q, r, q.cursor + 1) /\ \A o \in Procs \ {p} : proc'[o] = proc[o]
    BY <1>2, <1>4, <2>1 DEF Inv, Result, WithResult, Fields
  <2>3. /\ q2.pc = "running" /\ q2.identity = q.identity /\ q2.records = q.records
        /\ q2.usage = q.usage /\ q2.budget = q.budget /\ q2.cursor = q.cursor + 1
        /\ q2.failed = q.failed /\ q2.results = Append(q.results, r) /\ q2.world = q.world
    BY <1>2, <2>2 DEF Fields, WithResult
  <2>4. ProcessPays(q2, history)
    BY <1>2, <1>6, <2>3 DEF ProcessPays, Opening, UsageOf
  <2>5. Certain(q.records) /\ q.records # <<>> /\ q.cursor = Len(q.records) - 1 /\ ~q.failed
    BY <1>2, <1>6 DEF ProcessOK
  <2>6. r \in Results /\ r = q.records[q.cursor + 1].outcome
        /\ q.cursor < Len(q.records) /\ q.cursor + 1 = Len(q.records)
    <3>1. q.records \in Seq(Records) /\ Len(q.records) \in Nat \ {0}
          /\ Last(q.records) = q.records[Len(q.records)] /\ Len(q.records) \in DOMAIN q.records
          /\ Last(q.records) \in Records
      BY <1>2, <2>5, TypedFields, LastRecord
    <3>2. Last(q.records).state # "pending"
      BY <2>5, <3>1 DEF Certain
    <3>3. Last(q.records) \in SettledRecords
      BY <3>1, <3>2 DEF Records, PendingRecords
    <3>4. r \in Results
      BY <3>3 DEF SettledRecords, Results
    <3>5. q.cursor + 1 = Len(q.records) /\ q.cursor < Len(q.records)
      BY <2>5, <3>1
    <3> QED BY <3>1, <3>4, <3>5
  <2>7. Follows(q, Len(q.records))
    BY <1>2, <1>6, <2>5 DEF ProcessTells
  <2>8. q.records[q.cursor + 1].digest = Digest(q.world, q.results)
    <3>1. q.results \in Seq(Results) /\ Len(q.results) = q.cursor /\ Len(q.records) \in Nat \ {0}
      BY <1>2, <2>5, <2>7, TypedFields, LastRecord DEF Follows
    <3>2. SubSeq(q.results, 1, Len(q.records) - 1) = q.results
      BY <2>5, <3>1, SeenBefore
    <3>3. Len(q.records) \in 1 .. Len(q.records)
      BY <3>1
    <3>4. q.records[Len(q.records)].digest
            = Digest(q.world, SubSeq(q.results, 1, Len(q.records) - 1))
      BY <2>7, <3>3 DEF Follows
    <3> QED BY <2>6, <3>2, <3>4
  <2>9. Follows(q2, q2.cursor)
    BY <1>2, <2>3, <2>6, <2>7, <2>8, FollowsOn
  <2>10. ProcessTells(q2, history)
    BY <1>2, <2>3, <2>9 DEF ProcessTells, Opening, Sending
  <2> QED BY <1>1, <1>3, <1>4, <2>2, <2>4, <2>10, MoreFrame DEF Good
<1> QED BY <1>1, <1>5, <1>6 DEF IsSaving

\* A process that has stopped claims nothing but its records.
LEMMA StoppedIsGood ==
  ASSUME Inv, More, NEW p \in Procs, ~At(p, "gone"), Stop(p)
  PROVE  Good(proc'[p], history) /\ \A o \in Procs \ {p} : proc'[o] = proc[o]
<1> DEFINE q == proc[p]
<1>1. DOMAIN q = Fields /\ ProcessTells(q, history)
  BY AtWork
<1>2. PICK q2 : q2 = proc'[p]
  OBVIOUS
<1>3. q2 = [q EXCEPT !.pc = "running", !.results = Append(@, "stopped"), !.failed = TRUE]
      /\ \A o \in Procs \ {p} : proc'[o] = proc[o]
  BY <1>1, <1>2 DEF Stop, Result, Inv, Fields
<1>4. q2.pc = "running" /\ q2.failed /\ q2.records = q.records
  BY <1>1, <1>3 DEF Fields
<1>5. ProcessPays(q2, history)
  BY <1>4 DEF ProcessPays, Opening
<1>6. ProcessTells(q2, history)
  BY <1>1, <1>4 DEF ProcessTells, Opening
<1> QED BY <1>2, <1>3, <1>5, <1>6 DEF Good

LEMMA MoreSaveFails ==
  ASSUME Inv, More, NEW p \in Procs, SaveFails(p)
  PROVE  More'
<1>1. IsSaving(p) /\ ~At(p, "gone") /\ UNCHANGED <<durable, history>>
      /\ (file' = file \/ file' = StateOf(proc[p]))
  BY StateIsStateOf DEF SaveFails, IsSaving, At
<1>2. PathGood(file', history') /\ PathGood(durable', history')
  BY <1>1, AtWork, SavedIsGood
<1>3. CASE At(p, "first save")
  <2>1. Exit(p)
    BY <1>3 DEF SaveFails
  <2> QED BY <1>1, <1>2, <2>1, MoreExit
<1>4. CASE ~At(p, "first save")
  <2>1. Stop(p)
    BY <1>4 DEF SaveFails
  <2> QED BY <1>1, <1>2, <2>1, StoppedIsGood, MoreFrame
<1> QED BY <1>3, <1>4

LEMMA MoreTurnOfStopped ==
  ASSUME Inv, More, NEW p \in Procs, TurnOfStopped(p)
  PROVE  More'
<1> DEFINE q == proc[p]
<1>1. ~At(p, "gone") /\ q.failed /\ q.pc = "running" /\ UNCHANGED <<file, durable, history>>
      /\ DOMAIN q = Fields /\ ProcessTells(q, history)
      /\ PathGood(file, history) /\ PathGood(durable, history)
  BY AtWork DEF TurnOfStopped, TakesTurn, At
<1>2. PICK q2 : q2 = proc'[p]
  OBVIOUS
<1>3. q2 = [q EXCEPT !.pc = "running", !.results = Append(@, "stopped")]
      /\ \A o \in Procs \ {p} : proc'[o] = proc[o]
  BY <1>1, <1>2 DEF TurnOfStopped, Result, Inv, Fields
<1>4. q2.pc = "running" /\ q2.failed /\ q2.records = q.records
  BY <1>1, <1>3 DEF Fields
<1>5. ProcessPays(q2, history)
  BY <1>4 DEF ProcessPays, Opening
<1>6. ProcessTells(q2, history)
  BY <1>1, <1>4 DEF ProcessTells, Opening
<1> QED BY <1>1, <1>2, <1>3, <1>5, <1>6, MoreFrame DEF Good

LEMMA MoreReplay ==
  ASSUME Inv, More, NEW p \in Procs, Replay(p)
  PROVE  More'
<1> DEFINE q == proc[p]
           record == q.records[q.cursor + 1]
<1>1. /\ ~At(p, "gone") /\ ~q.failed /\ q.pc = "running" /\ q.cursor < Len(q.records)
      /\ UNCHANGED <<file, durable, history>>
  BY DEF Replay, TakesTurn, At, Replays
<1>2. /\ ProcessOK(q, file, durable, history) /\ Typed(q) /\ DOMAIN q = Fields
      /\ ProcessPays(q, history) /\ ProcessTells(q, history)
      /\ PathGood(file, history) /\ PathGood(durable, history)
  BY <1>1, AtWork
<1>3. CASE SameRequest(p, record)
  <2> DEFINE r == record.outcome
  <2>1. proc' = [Result(p, r) EXCEPT ![p].cursor = @ + 1]
    BY <1>3 DEF Replay
  <2>2. PICK q2 : q2 = proc'[p]
    OBVIOUS
  <2>3. q2 = WithResult(q, r, q.cursor + 1) /\ \A o \in Procs \ {p} : proc'[o] = proc[o]
    BY <1>2, <2>1, <2>2 DEF Inv, Result, WithResult, Fields
  <2>4. /\ q2.pc = "running" /\ q2.identity = q.identity /\ q2.records = q.records
        /\ q2.usage = q.usage /\ q2.budget = q.budget /\ q2.cursor = q.cursor + 1
        /\ q2.failed = q.failed /\ q2.results = Append(q.results, r) /\ q2.world = q.world
    BY <1>2, <2>3 DEF Fields, WithResult
  <2>5. ProcessPays(q2, history)
    BY <1>1, <1>2, <2>4 DEF ProcessPays, Opening
  <2>6. r \in Results
    <3>1. q.cursor + 1 \in DOMAIN q.records
      BY <1>1, <1>2 DEF Typed
    <3>2. record \in Records /\ record.state # "pending"
      BY <1>1, <1>2, <3>1, TypedFields DEF ProcessOK, Certain
    <3> QED BY <3>2 DEF Records, PendingRecords, SettledRecords, Results
  <2>7. Follows(q, q.cursor)
    BY <1>1, <1>2 DEF ProcessTells, Sending
  <2>8. Follows(q2, q2.cursor)
    BY <1>1, <1>2, <1>3, <2>4, <2>6, <2>7, FollowsOn DEF SameRequest, Request
  <2>9. ProcessTells(q2, history)
    BY <1>2, <2>4, <2>8 DEF ProcessTells, Opening, Sending
  <2> QED BY <1>1, <1>2, <2>2, <2>3, <2>5, <2>9, MoreFrame DEF Good
<1>4. CASE ~SameRequest(p, record)
  <2>1. Stop(p)
    BY <1>4 DEF Replay
  <2> QED BY <1>1, <1>2, <2>1, StoppedIsGood, MoreFrame
<1> QED BY <1>3, <1>4

LEMMA MoreRecord ==
  ASSUME Inv, More, NEW p \in Procs, Record(p)
  PROVE  More'
<1> DEFINE q == proc[p]
           new == Pending(Request(p))
<1>1. /\ ~At(p, "gone") /\ ~q.failed /\ q.pc = "running" /\ ~(q.cursor < Len(q.records))
      /\ UNCHANGED <<file, durable, history>>
  BY DEF Record, TakesTurn, At, Replays
<1>2. /\ ProcessOK(q, file, durable, history) /\ Typed(q) /\ DOMAIN q = Fields
      /\ ProcessPays(q, history) /\ ProcessTells(q, history)
      /\ PathGood(file, history) /\ PathGood(durable, history)
  BY <1>1, AtWork
<1>3. CASE Len(q.records) < MaxRecords
  <2>1. proc' = [proc EXCEPT ![p].pc = "saving request", ![p].records = Append(@, new)]
    BY <1>3 DEF Record, AfterRecording
  <2>2. PICK q2 : q2 = proc'[p]
    OBVIOUS
  <2>3. q2 = WithRecord(q, new) /\ \A o \in Procs \ {p} : proc'[o] = proc[o]
    BY <2>1, <2>2 DEF Inv, WithRecord
  <2>4. /\ q2.pc = "saving request" /\ q2.identity = q.identity
        /\ q2.records = Append(q.records, new)
        /\ q2.usage = q.usage /\ q2.budget = q.budget /\ q2.cursor = q.cursor
        /\ q2.failed = q.failed /\ q2.results = q.results /\ q2.world = q.world
    BY <1>2, <2>3 DEF Fields, WithRecord
  <2>5. ProcessPays(q2, history)
    BY <1>1, <1>2, <2>4 DEF ProcessPays, Opening
  <2>6. new \in PendingRecords /\ new.digest = Digest(q.world, q.results)
    <3>1. Request(p) \in Digests
      BY <1>2 DEF Typed, Request, Digests
    <3> QED BY <3>1 DEF Pending, PendingRecords, Request
  <2>7. Follows(q, q.cursor) /\ q.cursor = Len(q.records)
    BY <1>1, <1>2, TypedFields DEF ProcessTells, Sending, Typed
  <2> HIDE DEF new
  <2>8. Follows(q2, Len(q2.records))
    BY <1>2, <2>4, <2>6, <2>7, RecordFollows
  <2>9. Tells(q2.records, history)
    BY <1>2, <2>4, <2>6, PendingIsUntold, TypedFields DEF ProcessTells
  <2>10. ProcessTells(q2, history)
    BY <2>4, <2>8, <2>9 DEF ProcessTells, Opening, Sending
  <2> QED BY <1>1, <1>2, <2>2, <2>3, <2>5, <2>10, MoreFrame DEF Good
<1>4. CASE ~(Len(q.records) < MaxRecords)
  <2>1. Stop(p)
    BY <1>4 DEF Record
  <2> QED BY <1>1, <1>2, <2>1, StoppedIsGood, MoreFrame
<1> QED BY <1>3, <1>4

\* Both file and durable copy hold the request of the call at work.
LEMMA InFlight ==
  ASSUME Inv, More, NEW p \in Procs, proc[p].pc \in {"dispatching", "calling"}
  PROVE  LET q == proc[p] IN
         /\ ~At(p, "gone") /\ Typed(q) /\ DOMAIN q = Fields /\ ~q.failed
         /\ q.records \in Seq(Records) /\ q.records # <<>>
         /\ q.records[Len(q.records)] \in PendingRecords
         /\ q.records[Len(q.records)].state = "pending"
         /\ file.kind = "saved" /\ file.records = q.records
         /\ durable.kind = "saved" /\ durable.records = q.records
         /\ ~Certain(q.records) /\ Tells(q.records, history)
         /\ Follows(q, Len(q.records))
         /\ \E C : history \in Seq(Sends(C))
         /\ \A i, j \in DOMAIN history : history[i].position = history[j].position => i = j
<1> DEFINE q == proc[p]
<1>1. ~At(p, "gone")
  BY DEF At
<1>2. /\ ProcessOK(q, file, durable, history) /\ Typed(q) /\ DOMAIN q = Fields
      /\ ProcessTells(q, history) /\ HistoryOK(history, durable)
  BY <1>1, AtWork
<1>3. /\ file = StateOf(q) /\ durable = StateOf(q) /\ ~q.failed
      /\ q.records # <<>> /\ q.records[Len(q.records)] \in PendingRecords
  BY <1>2 DEF ProcessOK, Sending
<1>4. q.records \in Seq(Records) /\ Len(q.records) \in DOMAIN q.records
  BY <1>2, <1>3, TypedFields, LastRecord
<1>5. q.records[Len(q.records)].state = "pending"
  BY <1>3 DEF PendingRecords
<1>6. ~Certain(q.records)
  BY <1>4, <1>5 DEF Certain
<1>7. file.kind = "saved" /\ file.records = q.records
      /\ durable.kind = "saved" /\ durable.records = q.records
  BY <1>3, SavedFields DEF StateOf
<1>8. Tells(q.records, history) /\ Follows(q, Len(q.records))
  BY <1>2, <1>3 DEF ProcessTells, Sending
<1> QED BY <1>1, <1>2, <1>3, <1>4, <1>5, <1>6, <1>7, <1>8 DEF HistoryOK

\* A call goes out.
LEMMA SendIsGood ==
  ASSUME Inv, More, NEW p \in Procs, At(p, "dispatching"), NEW c,
         history' = Append(history, Sent(p, c)), UNCHANGED <<file, durable>>,
         \A o \in Procs \ {p} : proc'[o] = proc[o],
         Keeps(proc'[p], proc[p]), proc'[p].pc = "calling",
         proc'[p].records = proc[p].records, ProcessPays(proc'[p], history')
  PROVE  More'
<1> DEFINE q == proc[p]
           x == Sent(p, c)
<1>1. /\ ~At(p, "gone") /\ Typed(q) /\ DOMAIN q = Fields /\ ~q.failed
      /\ q.records[Len(q.records)].state = "pending"
      /\ file.kind = "saved" /\ file.records = q.records
      /\ durable.kind = "saved" /\ durable.records = q.records
      /\ ~Certain(q.records) /\ Tells(q.records, history)
      /\ Follows(q, Len(q.records))
      /\ \E C : history \in Seq(Sends(C))
  BY InFlight DEF At
<1>2. x.position = Len(q.records) /\ x.digest = q.records[Len(q.records)].digest
  BY DEF Sent, Position, Last
<1>3. Tells(q.records, history')
  BY <1>1, <1>2, SentIsUntold
<1>4. PathGood(file', history') /\ PathGood(durable', history')
  BY <1>1, <1>3 DEF PathGood, PaidFor
<1>5. history' # <<>> /\ history'[Len(history')] = x
  <2>1. PICK C : history \in Seq(Sends(C))
    BY <1>1
  <2> DEFINE S == Sends(C) \cup {x}
  <2>2. history \in Seq(S)
    BY <2>1, SeqWidens
  <2>3. x \in S
    OBVIOUS
  <2> HIDE DEF S, x
  <2>4. Append(history, x) # <<>> /\ Append(history, x)[Len(Append(history, x))] = x
    BY <2>2, <2>3
  <2> QED BY <2>4 DEF x
<1>6. PICK q2 : q2 = proc'[p]
  OBVIOUS
<1>7. Follows(q2, Len(q2.records))
  BY <1>1, <1>6 DEF Follows, Keeps
<1>8. ProcessTells(q2, history')
  BY <1>1, <1>2, <1>3, <1>5, <1>6, <1>7 DEF ProcessTells, Keeps, Opening, Sending
<1> QED BY <1>1, <1>4, <1>6, <1>8, MoreFrame DEF Good

LEMMA MoreDispatchCommand ==
  ASSUME Inv, More, NEW p \in Procs, DispatchCommand(p)
  PROVE  More'
<1>1. At(p, "dispatching") /\ proc' = [proc EXCEPT ![p].pc = "calling"]
      /\ history' = Append(history, Sent(p, 0)) /\ UNCHANGED <<file, durable>>
      /\ ~Metered(proc[p].identity)
  BY DEF DispatchCommand, Go
<1>2. DOMAIN proc[p] = Fields
  BY <1>1, InFlight DEF At
<1>3. /\ \A o \in Procs \ {p} : proc'[o] = proc[o]
      /\ Keeps(proc'[p], proc[p]) /\ proc'[p].pc = "calling"
      /\ proc'[p].records = proc[p].records
  BY <1>1, <1>2 DEF Inv, Keeps, Fields
<1>4. ProcessPays(proc'[p], history')
  BY <1>1, <1>3 DEF ProcessPays, Keeps, Opening
<1> QED BY <1>1, <1>3, <1>4, SendIsGood

\* What lies below a number is not that number.
LEMMA BelowIsOther == \A m \in Nat : \A k \in 1 .. m - 1 : k \in 1 .. m /\ k # m
OBVIOUS

LEMMA LessIsOther == \A j, m \in Nat : j < m => j # m
OBVIOUS

\* A call is settled that was sent, or refused before it was.
LEMMA SettleIsGood ==
  ASSUME Inv, More, NEW p \in Procs, proc[p].pc \in {"dispatching", "calling"},
         NEW outcome \in Outcomes, UNCHANGED <<file, durable>>,
         \/ /\ proc[p].pc = "dispatching" /\ outcome = "error" /\ history' = history
         \/ /\ proc[p].pc = "calling"
            /\ \E charge : history' = AnsweredAs(history, outcome, charge),
         \A o \in Procs \ {p} : proc'[o] = proc[o],
         Keeps(proc'[p], proc[p]), proc'[p].pc = "saving outcome",
         proc'[p].records = LastSettled(proc[p].records, outcome),
         ProcessPays(proc'[p], history')
  PROVE  More'
<1> DEFINE q == proc[p]
           n == Len(q.records)
<1>1. /\ ~At(p, "gone") /\ Typed(q) /\ DOMAIN q = Fields /\ ~q.failed
      /\ q.records \in Seq(Records) /\ q.records # <<>>
      /\ q.records[n] \in PendingRecords /\ q.records[n].state = "pending"
      /\ file.kind = "saved" /\ file.records = q.records
      /\ durable.kind = "saved" /\ durable.records = q.records
      /\ ~Certain(q.records) /\ Tells(q.records, history)
      /\ Follows(q, Len(q.records))
      /\ \E C : history \in Seq(Sends(C))
      /\ \A i, j \in DOMAIN history : history[i].position = history[j].position => i = j
  BY InFlight
<1>2. PICK q2 : q2 = proc'[p]
  OBVIOUS
<1>3. /\ n \in Nat /\ n \in 1 .. n /\ Len(q2.records) = n
      /\ q2.records[n].digest = q.records[n].digest
      /\ \A i \in 1 .. n : i # n => q2.records[i] = q.records[i]
  BY ZenonT(30), <1>1, <1>2, LastSettledFields
<1>4. q.cursor = n - 1
  <2>1. ProcessOK(q, file, durable, history)
    BY <1>1, AtWork
  <2> QED BY <2>1 DEF ProcessOK, Sending
<1> HIDE DEF n
<1>5. Follows(q2, Len(q2.records))
  <2>1. \A k \in 1 .. n : q2.records[k].digest = q.records[k].digest
    BY <1>3
  <2>2. \A k \in 1 .. q.cursor : k \in 1 .. n /\ k # n
    <3> QED BY <1>3, <1>4, BelowIsOther
  <2>3. \A k \in 1 .. q.cursor : q2.records[k] = q.records[k]
    BY <1>3, <2>2
  <2>4. /\ q2.results = q.results /\ q2.cursor = q.cursor /\ q2.world = q.world
    BY <1>2 DEF Keeps
  <2> QED BY <1>1, <1>3, <2>1, <2>3, <2>4 DEF Follows, n
<1>6. Tells(q2.records, history') /\ Tells(q.records, history')
  <2>1. CASE q.pc = "dispatching" /\ outcome = "error" /\ history' = history
    <3>1. ProcessOK(q, file, durable, history) /\ HistoryOK(history, durable)
      BY <1>1, AtWork
    <3>2. \A i \in DOMAIN history : history[i].position < n /\ history[i].position \in Nat
      BY <2>1, <3>1, PositionsAreNumbers DEF ProcessOK, n
    <3>3. \A i \in DOMAIN history : history[i].position # n
      <4> QED BY <1>3, <3>2, LessIsOther
    <3> QED BY <1>1, <1>2, <2>1, <3>3, RefusalIsTold DEF n
  <2>2. CASE q.pc = "calling" /\ \E charge : history' = AnsweredAs(history, outcome, charge)
    <3>1. PICK charge : history' = AnsweredAs(history, outcome, charge)
      BY <2>2
    <3>2. history # <<>> /\ history[Len(history)].position = n
          /\ history[Len(history)].digest = q.records[n].digest
      BY <1>1, <2>2, AtWork DEF ProcessTells, n
    <3>3. Tells(q2.records, history')
      BY <1>1, <1>2, <3>1, <3>2, AnswerIsTold DEF n
    <3>4. Tells(q.records, history')
      BY <1>1, <3>1, <3>2, AnswerIsUntold DEF n
    <3> QED BY <3>3, <3>4
  <2> QED BY <2>1, <2>2
<1>7. PathGood(file', history') /\ PathGood(durable', history')
  BY <1>1, <1>6 DEF PathGood, PaidFor
<1>8. ProcessTells(q2, history')
  BY <1>1, <1>2, <1>5, <1>6 DEF ProcessTells, Keeps, Opening, Sending
<1> QED BY <1>1, <1>2, <1>7, <1>8, MoreFrame DEF Good

LEMMA MoreAnswerCommand ==
  ASSUME Inv, More, NEW p \in Procs, AnswerCommand(p)
  PROVE  More'
<1>1. At(p, "calling") /\ proc[p].pc = "calling" /\ UNCHANGED <<file, durable>>
      /\ ~Metered(proc[p].identity)
  BY DEF AnswerCommand, At
<1>2. PICK outcome \in Outcomes :
        proc' = Settled(p, outcome) /\ history' = Answered(outcome, 0)
  BY DEF AnswerCommand
<1>3. history' = AnsweredAs(history, outcome, 0)
  BY <1>2 DEF Answered, AnsweredAs
<1>4. \A o \in Procs \ {p} : proc'[o] = proc[o]
  BY <1>2, OthersKept
<1>5. /\ Keeps(proc'[p], proc[p]) /\ proc'[p].pc = "saving outcome"
      /\ proc'[p].records = LastSettled(proc[p].records, outcome)
  BY <1>1, <1>2, SettledFields
<1>6. ProcessPays(proc'[p], history')
  BY <1>1, <1>5 DEF ProcessPays, Keeps, Opening
<1> QED BY <1>1, <1>3, <1>4, <1>5, <1>6, SettleIsGood

\* What the budget of a process and its usage are once a call is settled.
LEMMA SettledWithinFields ==
  ASSUME Inv, More, NEW p \in Procs, proc[p].pc \in {"dispatching", "calling"},
         NEW outcome, NEW b, proc' = SettledWithin(b, p, outcome)
  PROVE  proc'[p].budget = b /\ proc'[p].usage = Usage(b)
<1>1. DOMAIN proc[p] = Fields /\ DOMAIN proc = Procs
  BY InFlight DEF Inv
<1>2. PICK s : s = Settled(p, outcome)[p]
  OBVIOUS
<1>3. DOMAIN s = Fields
  BY <1>2, SettledFields DEF Keeps
<1>4. proc'[p] = [s EXCEPT !.budget = b, !.usage = Usage(b)]
  BY <1>1, <1>2 DEF SettledWithin, Settled
<1> QED BY <1>3, <1>4 DEF Fields

LEMMA MoreDispatchMetered ==
  ASSUME Inv, More, NEW p \in Procs, DispatchMetered(p)
  PROVE  /\ More'
         /\ history' # history => Charged(history') <= TotalBudget /\ Len(history') <= MaxCalls
<1> DEFINE q == proc[p]
           b == q.budget
<1>1. /\ At(p, "dispatching") /\ q.pc = "dispatching" /\ Metered(q.identity)
      /\ UNCHANGED <<file, durable>>
  BY DEF DispatchMetered, At
<1>2. DOMAIN q = Fields /\ ProcessPays(q, history) /\ \E C : history \in Seq(Sends(C))
  BY <1>1, InFlight, AtWork
<1>3. Pays(b, history) /\ Balanced(b)
  BY <1>1, <1>2 DEF ProcessPays, Pays
<1>4. PICK ask \in Asks :
        \/ /\ Admits(b, ask)
           /\ proc' = [proc EXCEPT ![p].pc = "calling", ![p].budget = ReserveCall(@, ask)]
           /\ history' = Append(history, Sent(p, ask.tokens))
        \/ /\ proc' = SettledWithin(RejectCall(b), p, "error")
           /\ UNCHANGED history
  BY DEF DispatchMetered
<1>5. ask \in Ask /\ ask.tokens \in Nat
  BY CheckpointAssumption DEF Ask
<1>6. CASE /\ Admits(b, ask)
           /\ proc' = [proc EXCEPT ![p].pc = "calling", ![p].budget = ReserveCall(@, ask)]
           /\ history' = Append(history, Sent(p, ask.tokens))
  <2>1. PICK q2 : q2 = proc'[p]
    OBVIOUS
  <2>2. q2 = [q EXCEPT !.pc = "calling", !.budget = ReserveCall(b, ask)]
        /\ \A o \in Procs \ {p} : proc'[o] = proc[o]
    BY <1>2, <1>6, <2>1 DEF Inv, Fields
  <2>3. /\ Keeps(q2, q) /\ q2.pc = "calling" /\ q2.records = q.records
        /\ q2.budget = ReserveCall(b, ask) /\ q2.identity = q.identity
    BY <1>2, <2>2 DEF Keeps, Fields
  <2>4. ChargesOK(history) /\ Charged(history) = b.used + b.unknown /\ Len(history) = Len(b.calls)
    BY <1>2, <1>3 DEF Pays, ChargesOK
  <2>5. Sent(p, ask.tokens) \in Sends({ask.tokens})
    BY <1>1, SentIsTyped
  <2>6. /\ ChargesOK(history') /\ Len(history') = Len(history) + 1 /\ history' # <<>>
        /\ history'[Len(history')].charge = ask.tokens
        /\ Charged(history') = Charged(history) + ask.tokens
    BY <1>5, <1>6, <2>4, <2>5, SentIsCharged
  <2>7. b.used + b.unknown + ask.tokens <= TotalBudget /\ Len(b.calls) < MaxCalls
    BY <1>3, <1>5, <1>6, AdmittedFits
  <2>8. Reserves(q2.budget, history', b, ask)
    BY <1>3, <2>3, <2>4, <2>6, <2>7 DEF Reserves, ChargesOK
  <2>9. ProcessPays(q2, history')
    BY <2>3, <2>8 DEF ProcessPays, Opening
  <2>10. More'
    BY <1>1, <1>6, <2>1, <2>2, <2>3, <2>9, SendIsGood
  <2>11. Charged(history') <= TotalBudget /\ Len(history') <= MaxCalls
    <3>1. Len(b.calls) \in Nat /\ MaxCalls \in Nat
      BY <1>3, BalancedFields, BudgetAssumption
    <3> QED BY <2>4, <2>6, <2>7, <3>1
  <2> QED BY <2>10, <2>11
<1>7. CASE /\ proc' = SettledWithin(RejectCall(b), p, "error")
           /\ UNCHANGED history
  <2>1. "error" \in Outcomes
    BY DEF Outcomes
  <2>2. \A o \in Procs \ {p} : proc'[o] = proc[o]
    BY <1>7, OthersKept
  <2>3. /\ Keeps(proc'[p], q) /\ proc'[p].pc = "saving outcome"
        /\ proc'[p].records = LastSettled(q.records, "error")
    <3>1. \E c : proc'[p] = SettledWithin(c, p, "error")[p]
      BY <1>7
    <3> QED BY <1>1, <3>1, SettledFields
  <2>4. proc'[p].budget = RejectCall(b) /\ proc'[p].usage = Usage(RejectCall(b))
    BY <1>1, <1>7, SettledWithinFields
  <2>5. Pays(RejectCall(b), history)
    BY <1>3, RejectedBudget DEF Pays
  <2>6. ProcessPays(proc'[p], history')
    BY <1>7, <2>3, <2>4, <2>5 DEF ProcessPays, Opening
  <2> QED BY <1>1, <1>7, <2>1, <2>2, <2>3, <2>6, SettleIsGood
<1> QED BY <1>4, <1>6, <1>7

LEMMA MoreAnswerMetered ==
  ASSUME Inv, More, NEW p \in Procs, AnswerMetered(p)
  PROVE  More'
<1> DEFINE q == proc[p]
           b == q.budget
           id == Len(b.calls)
<1>1. At(p, "calling") /\ q.pc = "calling" /\ UNCHANGED <<file, durable>>
      /\ Metered(q.identity)
  BY DEF AnswerMetered, At
<1>2. PICK outcome \in Outcomes, state \in CallStates \ {"dispatched"},
           reported \in Counters, usage \in Reports :
        /\ proc' = SettledWithin(SettleCall(b, id, reported, usage, state), p, outcome)
        /\ history' = Answered(outcome, Charge(b.calls[id].ask, reported, usage))
  BY DEF AnswerMetered
<1>3. DOMAIN q = Fields /\ ProcessPays(q, history) /\ \E C : history \in Seq(Sends(C))
  BY <1>1, InFlight, AtWork
<1>4. PICK b0 : \E ask \in Asks : Reserves(b, history, b0, ask)
  BY <1>1, <1>3 DEF ProcessPays
<1>4a. PICK ask \in Asks : Reserves(b, history, b0, ask)
  BY <1>4
<1>5. /\ Balanced(b0) /\ Len(b0.calls) < MaxCalls /\ b = ReserveCall(b0, ask)
      /\ history # <<>> /\ history[Len(history)].charge = ask.tokens
      /\ Charged(history) = b0.used + b0.unknown + ask.tokens
      /\ Len(history) = Len(b0.calls) + 1 /\ ChargesOK(history)
      /\ ask \in Ask /\ reported \in Nat
  BY <1>3, <1>4a, CheckpointAssumption DEF Reserves, ChargesOK
<1>6. PICK after : after = SettleCall(b, id, reported, usage, state)
  OBVIOUS
<1>7. /\ b.calls[id].ask = ask /\ Balanced(after) /\ Len(after.calls) = Len(b0.calls) + 1
      /\ after.used + after.unknown
           = b0.used + b0.unknown + Charge(ask, reported, usage)
  BY <1>5, <1>6, SettledBudget
<1>8. b0.used + b0.unknown \in Nat /\ Charge(ask, reported, usage) \in Nat
  BY <1>5, BalancedFields DEF Charge, Remainder, Larger, Ask
<1>9. history' = AnsweredAs(history, outcome, Charge(ask, reported, usage))
  BY <1>2, <1>7 DEF Answered, AnsweredAs
<1>10. /\ ChargesOK(history') /\ Len(history') = Len(history)
       /\ Charged(history') = b0.used + b0.unknown + Charge(ask, reported, usage)
  BY <1>5, <1>8, <1>9, AnswerIsCharged
<1>11. Pays(after, history')
  BY <1>5, <1>7, <1>10 DEF Pays, ChargesOK
<1>12. \A o \in Procs \ {p} : proc'[o] = proc[o]
  BY <1>2, OthersKept
<1>13. /\ Keeps(proc'[p], q) /\ proc'[p].pc = "saving outcome"
       /\ proc'[p].records = LastSettled(q.records, outcome)
  <2>1. \E c : proc'[p] = SettledWithin(c, p, outcome)[p]
    BY <1>2
  <2> QED BY ZenonT(30), <1>1, <2>1, SettledFields
<1>14. proc'[p].budget = after /\ proc'[p].usage = Usage(after)
  BY <1>1, <1>2, <1>6, SettledWithinFields
<1>15. ProcessPays(proc'[p], history')
  BY <1>11, <1>13, <1>14 DEF ProcessPays, Opening
<1> QED BY <1>1, <1>9, <1>12, <1>13, <1>15, SettleIsGood

LEMMA MoreEnd ==
  ASSUME Inv, More, NEW p \in Procs, Finish(p) \/ Crash(p)
  PROVE  More'
<1>1. ~At(p, "gone") /\ Exit(p) /\ UNCHANGED <<file, durable, history>>
  BY DEF Finish, Crash, At
<1> QED BY <1>1, AtWork, MoreExit

LEMMA MorePowerFailure ==
  ASSUME Inv, More, PowerFailure
  PROVE  More'
<1>1. /\ \A p \in Procs : proc'[p].pc = "gone"
      /\ durable' = file' /\ history' = history /\ (file' = file \/ file' = durable)
  BY DEF PowerFailure, Gone
<1> QED BY <1>1 DEF More, At

LEMMA MoreStep == Inv /\ More /\ [Next]_vars => More'
<1> SUFFICES ASSUME Inv, More, [Next]_vars PROVE More'
  OBVIOUS
<1>1. ASSUME NEW p \in Procs, Step(p) PROVE More'
  BY <1>1, MoreCreate, MoreResume, MoreSave, MoreSaveFails, MoreTurnOfStopped, MoreReplay,
     MoreRecord, MoreDispatchCommand, MoreAnswerCommand, MoreDispatchMetered,
     MoreAnswerMetered, MoreEnd DEF Step
<1>2. CASE UNCHANGED vars
  BY <1>2 DEF vars, More, At
<1> QED BY <1>1, <1>2, MoreStart, MoreEnd, MorePowerFailure DEF Next

LEMMA Resumability == Inv /\ More => SettledFileIsResumable
<1> SUFFICES ASSUME Inv, More, file.kind = "saved", Certain(file.records), Metered(file.identity)
             PROVE  /\ file.records # <<>> => file.usage # None
                    /\ file.usage # None => CanRestore(Unused, file.usage)
  BY DEF SettledFileIsResumable, UsageRestorable
<1> DEFINE b == IF file.usage = None THEN Unused ELSE FromReceipts(file.usage)
<1>1. Pays(b, history) /\ UsageOf(file.usage, file.records, b, history)
  BY DEF More, PathGood, PaidFor
<1>2. CASE file.usage = None
  <2>1. Usage(b) # None
    BY <1>1, UsageIsAUsage DEF Pays
  <2> QED BY <1>1, <1>2, <2>1 DEF UsageOf
<1>3. CASE file.usage # None
  <2>1. b = FromReceipts(file.usage)
    BY <1>3
  <2> HIDE DEF b
  <2>2. file.usage = Usage(b) /\ Balanced(b)
    BY <1>1, <1>3 DEF UsageOf, Pays
  <2>3. file.usage.calls = b.calls
    BY <2>2 DEF Usage
  <2>4. /\ Len(file.usage.calls) <= MaxCalls
        /\ \A i \in DOMAIN file.usage.calls : file.usage.calls[i].state # "dispatched"
    BY <2>2, <2>3 DEF Balanced
  <2>5. Usage(FromReceipts(file.usage)) = file.usage
    BY <2>1, <2>2
  <2>6. Unused.calls = <<>> /\ TotalUsed(Unused) = 0 /\ Unused.pending = {}
    BY DEF Unused, TotalUsed
  <2> QED BY <1>3, <2>4, <2>5, <2>6 DEF CanRestore
<1> QED BY <1>2, <1>3

\* What the path, the processes and the provider know of the run agrees; the
\* usage of every settled checkpoint passes the checks of its restoration.
THEOREM CheckpointsAgree == Spec => []CheckpointInvariant
<1>1. Inv /\ More => CheckpointInvariant
  <2> SUFFICES ASSUME Inv, More PROVE CheckpointInvariant
    OBVIOUS
  <2>1. WriterOwnsFile
    BY OneWriterHolds
  <2>2. SentOnce
    BY DEF Inv, PathOK, HistoryOK, SentOnce
  <2> QED BY <2>1, <2>2, InvTypes, Resumability DEF CheckpointInvariant
<1> QED BY InitInv, InvStep, MoreInit, MoreStep, <1>1, PTL DEF Spec

\* Over every crash and resumption, a call is let out only if all calls since
\* the first process, with what they may have cost, fit the one budget.
THEOREM LifetimeBudget == Spec => LifetimeWithinBudget
<1> DEFINE A == \A p \in Procs :
                  At(p, "dispatching") /\ Metered(proc[p].identity) /\ history' # history =>
                    /\ Charged(history') <= TotalBudget
                    /\ Len(history') <= MaxCalls
<1>1. Inv /\ More /\ [Next]_vars => A
  <2> SUFFICES ASSUME Inv, More, [Next]_vars, NEW p \in Procs,
                      At(p, "dispatching"), Metered(proc[p].identity), history' # history
               PROVE  Charged(history') <= TotalBudget /\ Len(history') <= MaxCalls
    OBVIOUS
  <2>1. ~At(p, "gone") /\ proc[p].pc = "dispatching"
    BY DEF At
  <2>2. \A o \in Procs \ {p} : At(o, "gone")
    BY <2>1, Alone DEF At, Gone
  <2>3. DispatchMetered(p)
    <3>1. PICK o \in Procs : Step(o)
      BY DEF Next, Start, Crash, PowerFailure, vars
    <3>2. o = p
      <4>1. At(o, "gone") => FALSE
        BY <3>1 DEF Step, At, Create, Resume, Save, SaveFails, IsSaving, TurnOfStopped, Replay,
           Record, TakesTurn, DispatchCommand, AnswerCommand, DispatchMetered, AnswerMetered,
           Finish
      <4> QED BY <2>2, <4>1
    <3> QED BY <2>1, <3>1, <3>2 DEF Step, At, Create, Resume, Save, SaveFails, IsSaving,
           TurnOfStopped, Replay, Record, TakesTurn, DispatchCommand, AnswerCommand,
           AnswerMetered, Finish
  <2> QED BY <2>3, MoreDispatchMetered
<1>2. Inv /\ More /\ [Next]_vars => [A]_vars
  BY <1>1
<1> QED BY InitInv, InvStep, MoreInit, MoreStep, <1>2, PTL DEF Spec, LifetimeWithinBudget

\* A published run consists of what the provider said to its own requests.
THEOREM PublishedRuns == Spec => PublishedRunIsHistory
<1> DEFINE A == \A run \in published' \ published :
                  /\ \A k \in DOMAIN run.results : Agrees(run, k)
                  /\ \A i \in DOMAIN history : history[i].position <= Len(run.results)
<1>1. Inv /\ More /\ [Next]_vars => A
  <2> SUFFICES ASSUME Inv, More, [Next]_vars, NEW run \in published' \ published
               PROVE  /\ \A k \in DOMAIN run.results : Agrees(run, k)
                      /\ \A i \in DOMAIN history : history[i].position <= Len(run.results)
    OBVIOUS
  <2>1. PICK p \in Procs : Finish(p)
    BY DEF Next, Step, Start, Create, Resume, Save, SaveFails, TurnOfStopped, Replay, Record,
       DispatchCommand, AnswerCommand, DispatchMetered, AnswerMetered, Crash, PowerFailure, vars
  <2> DEFINE q == proc[p]
             n == Len(q.records)
  <2>2. /\ run = [world |-> q.world, results |-> q.results] /\ q.pc = "running"
        /\ ~At(p, "gone") /\ ~q.failed /\ q.cursor = Len(q.records)
    BY <2>1 DEF Finish, MayPublish, At
  <2>3. /\ ProcessOK(q, file, durable, history) /\ Typed(q) /\ ProcessTells(q, history)
        /\ HistoryOK(history, durable)
    BY <2>2, AtWork
  <2>4. Follows(q, n) /\ Tells(q.records, history) /\ Certain(q.records)
    BY <2>2, <2>3 DEF ProcessTells, ProcessOK, Sending
  <2>5. /\ q.results \in Seq(Results) /\ q.records \in Seq(Records) /\ n \in Nat
        /\ DOMAIN q.results = 1 .. n /\ Len(q.results) = n /\ DOMAIN q.records = 1 .. n
    BY <2>2, <2>3, <2>4, TypedFields, SeqFacts DEF Follows
  <2>6. run.results = q.results /\ run.world = q.world
    BY <2>2
  <2>7. ASSUME NEW k \in DOMAIN run.results PROVE Agrees(run, k)
    <3>1. /\ k \in 1 .. q.cursor /\ k \in 1 .. n /\ k \in DOMAIN q.records
          /\ q.records[k].state # "pending"
      BY <2>2, <2>4, <2>5, <2>6 DEF Certain
    <3>2. q.results[k] = q.records[k].outcome
          /\ q.records[k].digest = Digest(q.world, SubSeq(q.results, 1, k - 1))
      BY <2>4, <3>1 DEF Follows
    <3>3. /\ \A i \in DOMAIN history : history[i].position = k =>
               history[i].outcome = q.records[k].outcome /\ history[i].digest = q.records[k].digest
          /\ (\A i \in DOMAIN history : history[i].position # k) => q.records[k].outcome = "error"
      BY <2>4, <3>1 DEF Tells
    <3> QED BY <2>6, <3>2, <3>3 DEF Agrees
  <2>8. ASSUME NEW i \in DOMAIN history PROVE history[i].position <= Len(run.results)
    <3>1. HistoryOK(history, file)
      BY HistoryMonotone DEF Inv, PathOK
    <3>2. history[i].position <= Len(file.records)
      BY <3>1 DEF HistoryOK
    <3>3. file.records = q.records
      BY <2>2, <2>3, StateIsCheckpoint DEF ProcessOK
    <3> QED BY <2>5, <2>6, <3>2, <3>3
  <2> QED BY <2>7, <2>8
<1>2. Inv /\ More /\ [Next]_vars => [A]_vars
  BY <1>1
<1> QED BY InitInv, InvStep, MoreInit, MoreStep, <1>2, PTL DEF Spec, PublishedRunIsHistory
====
