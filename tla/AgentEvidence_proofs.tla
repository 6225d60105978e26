------------------------- MODULE AgentEvidence_proofs -------------------------
(***************************************************************************)
(* Proofs about what stands behind an agent run: the rows of AgentRuns,    *)
(* for every set of runs, plans and workspaces, and the dynamic            *)
(* verification of Verification and HarnessRunner, for every plan file,    *)
(* driver and container.  The rows of a run agree at every moment and a    *)
(* closed run is final; a verification that says passed went through its   *)
(* whole plan with the answers the plan expects, and a report is of what   *)
(* was executed and kept.                                                  *)
(***************************************************************************)
EXTENDS AgentRuns, Verification, TLAPS

(***************************************************************************)
(* The records of a verification                                           *)
(***************************************************************************)

RecordSet ==
  [status : Statuses \cup {NoStatus, "unrecorded"}, passed : BOOLEAN, error : BOOLEAN]

(***************************************************************************)
(* The invariant of the driver                                             *)
(***************************************************************************)

RunnerTypes ==
  /\ case \in Nat /\ runError \in BOOLEAN /\ exit \in Int /\ rows \in Seq(RecordSet)
  /\ draft \in [Cases -> RecordSet] /\ records \in [Ids -> RecordSet]
  /\ DOMAIN handler = Cases /\ DOMAIN served = Cases

OtherDriver ==
  plan.kind # "proxy" =>
    /\ client = "idle"
    /\ \A c \in Cases : handler[c] = "none" /\ ~draft[c].passed /\ ~records[Id(c)].passed

Sent == \A c \in Cases : handler[c] # "none" => c < case \/ (c = case /\ client # "idle")

DraftsHold == \A c \in Cases : draft[c].passed => served[c] \in Expects(c)

RecordsHold ==
  \A c \in Cases : records[Id(c)].passed => handler[c] = "done" /\ served[c] \in Expects(c)

RowsGrow ==
  IF plan.kind = "proxy" THEN rows = <<>> \/ Len(rows) = Len(plan.cases)
  ELSE Len(rows) = case - 1 /\ case <= Len(plan.cases) + 1

RowsComplete ==
  runner \in {"stopping", "writing"} /\ ~runError => Len(rows) = Len(plan.cases)

RowsHold ==
  plan.kind # "browser" =>
    \A c \in DOMAIN rows :
      rows[c].passed => served[c] \in Expects(c) /\ (plan.kind = "proxy" => handler[c] = "done")

ExitHolds == 
  /\ exit = 0 => /\ runner \in {"exited", "crashed"}
                 /\ plan.kind # "browser" => \A c \in Cases : served[c] \in Expects(c)
  /\ runner = "off" => exit = -1

RunnerInv == /\ RunnerTypes /\ OtherDriver /\ Sent /\ DraftsHold /\ RecordsHold
             /\ RowsGrow /\ RowsComplete /\ RowsHold /\ ExitHolds

CasesKnown ==
  /\ plan.cases \in Seq(CaseSet)
  /\ DistinctIds(plan.cases)

(***************************************************************************)
(* The driver, step by step                                                *)
(***************************************************************************)

LEMMA FoundSame ==
  ASSUME CasesKnown, NEW c \in Cases
  PROVE  Found(c) = c
<1>1. \A d \in Cases : Id(d) = Id(c) => d = c
  BY DEF CasesKnown, DistinctIds, Id, Cases
<1>2. c <= c
  BY DEF CasesKnown, Cases
<1>3. Id(c) = Id(c) /\ \A e \in Cases : Id(e) = Id(c) => e <= c
  BY <1>1, <1>2
<1> QED BY <1>1, <1>3 DEF Found

\* The rows are rows of cases.
LEMMA RowsOfCases ==
  ASSUME RunnerInv, CasesKnown
  PROVE  DOMAIN rows \subseteq Cases
BY DEF RunnerInv, RunnerTypes, RowsGrow, CasesKnown, Cases

LEMMA RecordFacts ==
  /\ Failure \in RecordSet /\ ~Failure.passed
  /\ \A c \in Cases, s \in Statuses :
       Judged(c, s) \in RecordSet /\ (Judged(c, s).passed <=> s \in Expects(c))
  /\ \A ok \in BOOLEAN : Record(NoStatus, ok, ~ok) \in RecordSet
<1>1. Failure \in RecordSet /\ ~Failure.passed
  BY DEF RecordSet, Failure, Record
<1>2. ASSUME NEW c \in Cases, NEW s \in Statuses
      PROVE  Judged(c, s) \in RecordSet /\ (Judged(c, s).passed <=> s \in Expects(c))
  <2>1. CASE s \in Expects(c)
    <3>1. Judged(c, s) = [status |-> s, passed |-> TRUE, error |-> FALSE]
      BY <2>1 DEF Judged, Record
    <3> QED BY <3>1, <2>1 DEF RecordSet
  <2>2. CASE s \notin Expects(c)
    <3>1. (s \in Expects(c)) = FALSE
      BY <2>2
    <3>2. Judged(c, s) = [status |-> s, passed |-> FALSE, error |-> FALSE]
      BY <3>1 DEF Judged, Record
    <3> QED BY <3>2, <2>2 DEF RecordSet
  <2> QED BY <2>1, <2>2
<1>3. ASSUME NEW ok \in BOOLEAN PROVE Record(NoStatus, ok, ~ok) \in RecordSet
  BY DEF RecordSet, Record
<1> QED BY <1>1, <1>2, <1>3


LEMMA ServiceMissingKeeps ==
  ASSUME RunnerInv, CasesKnown, ServiceMissing, plan' = plan
  PROVE  RunnerInv'
<1>0. PICK P : plan = P
  OBVIOUS
<1>1. RunnerTypes'
  BY <1>0 DEF RunnerInv, ServiceMissing, Crash, RunnerTypes, RecordSet, Cases, Ids, Id
<1>2. OtherDriver'
  BY <1>0 DEF RunnerInv, ServiceMissing, Crash, OtherDriver, RunnerTypes, Cases, Id, Ids
<1>3. Sent'
  BY <1>0 DEF RunnerInv, ServiceMissing, Crash, Sent, OtherDriver, RunnerTypes, Cases, CasesKnown
<1>4. DraftsHold'
  BY <1>0 DEF RunnerInv, ServiceMissing, Crash, DraftsHold, OtherDriver, RunnerTypes, Cases, Expects
<1>5. RecordsHold'
  BY <1>0 DEF RunnerInv, ServiceMissing, Crash, RecordsHold, OtherDriver, DraftsHold, Sent,
     RunnerTypes, Cases, Ids, Id, Expects, CasesKnown, DistinctIds
<1>6. RowsGrow'
  BY <1>0 DEF RunnerInv, ServiceMissing, Crash, RowsGrow, OtherDriver, RunnerTypes, Cases,
     CasesKnown
<1>7. RowsComplete'
  BY <1>0 DEF RunnerInv, ServiceMissing, Crash, RowsComplete, RowsGrow, RunnerTypes, Cases,
     CasesKnown
<1>8. RowsHold'
  BY <1>0 DEF RunnerInv, ServiceMissing, Crash, RowsHold, RowsGrow, RecordsHold, Sent, RunnerTypes,
     Cases, Ids, Id, Expects, CasesKnown
<1>9. ExitHolds'
  BY <1>0 DEF RunnerInv, ServiceMissing, Crash, ExitHolds, RowsHold, RowsComplete, RunnerTypes,
     Cases, Expects, CasesKnown
<1> QED BY <1>1, <1>2, <1>3, <1>4, <1>5, <1>6, <1>7, <1>8, <1>9 DEF RunnerInv

LEMMA ServiceListensKeeps ==
  ASSUME RunnerInv, CasesKnown, ServiceListens, plan' = plan
  PROVE  RunnerInv'
<1>0. PICK P : plan = P
  OBVIOUS
<1>1. RunnerTypes'
  BY <1>0 DEF RunnerInv, ServiceListens, RunnerTypes, RecordSet, Cases, Ids, Id
<1>2. OtherDriver'
  BY <1>0 DEF RunnerInv, ServiceListens, OtherDriver, RunnerTypes, Cases, Id, Ids
<1>3. Sent'
  BY <1>0 DEF RunnerInv, ServiceListens, Sent, OtherDriver, RunnerTypes, Cases, CasesKnown
<1>4. DraftsHold'
  BY <1>0 DEF RunnerInv, ServiceListens, DraftsHold, OtherDriver, RunnerTypes, Cases, Expects
<1>5. RecordsHold'
  BY <1>0 DEF RunnerInv, ServiceListens, RecordsHold, OtherDriver, DraftsHold, Sent, RunnerTypes,
     Cases, Ids, Id, Expects, CasesKnown, DistinctIds
<1>6. RowsGrow'
  BY <1>0 DEF RunnerInv, ServiceListens, RowsGrow, OtherDriver, RunnerTypes, Cases, CasesKnown
<1>7. RowsComplete'
  BY <1>0 DEF RunnerInv, ServiceListens, RowsComplete, RowsGrow, RunnerTypes, Cases, CasesKnown
<1>8. RowsHold'
  BY <1>0 DEF RunnerInv, ServiceListens, RowsHold, RowsGrow, RecordsHold, Sent, RunnerTypes, Cases,
     Ids, Id, Expects, CasesKnown
<1>9. ExitHolds'
  BY <1>0 DEF RunnerInv, ServiceListens, ExitHolds, RowsHold, RowsComplete, RunnerTypes, Cases,
     Expects, CasesKnown
<1> QED BY <1>1, <1>2, <1>3, <1>4, <1>5, <1>6, <1>7, <1>8, <1>9 DEF RunnerInv

LEMMA ServiceNeverListensKeeps ==
  ASSUME RunnerInv, CasesKnown, ServiceNeverListens, plan' = plan
  PROVE  RunnerInv'
<1>0. PICK P : plan = P
  OBVIOUS
<1>1. RunnerTypes'
  BY <1>0 DEF RunnerInv, ServiceNeverListens, BreakOff, RunnerTypes, RecordSet, Cases, Ids, Id
<1>2. OtherDriver'
  BY <1>0 DEF RunnerInv, ServiceNeverListens, BreakOff, OtherDriver, RunnerTypes, Cases, Id, Ids
<1>3. Sent'
  BY <1>0 DEF RunnerInv, ServiceNeverListens, BreakOff, Sent, OtherDriver, RunnerTypes, Cases,
     CasesKnown
<1>4. DraftsHold'
  BY <1>0 DEF RunnerInv, ServiceNeverListens, BreakOff, DraftsHold, OtherDriver, RunnerTypes,
     Cases, Expects
<1>5. RecordsHold'
  BY <1>0 DEF RunnerInv, ServiceNeverListens, BreakOff, RecordsHold, OtherDriver, DraftsHold, Sent,
     RunnerTypes, Cases, Ids, Id, Expects, CasesKnown, DistinctIds
<1>6. RowsGrow'
  BY <1>0 DEF RunnerInv, ServiceNeverListens, BreakOff, RowsGrow, OtherDriver, RunnerTypes, Cases,
     CasesKnown
<1>7. RowsComplete'
  BY <1>0 DEF RunnerInv, ServiceNeverListens, BreakOff, RowsComplete, RowsGrow, RunnerTypes, Cases,
     CasesKnown
<1>8. RowsHold'
  BY <1>0 DEF RunnerInv, ServiceNeverListens, BreakOff, RowsHold, RowsGrow, RecordsHold, Sent,
     RunnerTypes, Cases, Ids, Id, Expects, CasesKnown
<1>9. ExitHolds'
  BY <1>0 DEF RunnerInv, ServiceNeverListens, BreakOff, ExitHolds, RowsHold, RowsComplete,
     RunnerTypes, Cases, Expects, CasesKnown
<1> QED BY <1>1, <1>2, <1>3, <1>4, <1>5, <1>6, <1>7, <1>8, <1>9 DEF RunnerInv

LEMMA StopServiceKeeps ==
  ASSUME RunnerInv, CasesKnown, NEW stopped \in BOOLEAN, StopService(stopped), plan' = plan
  PROVE  RunnerInv'
<1>0. PICK P : plan = P
  OBVIOUS
<1>1. RunnerTypes'
  BY <1>0 DEF RunnerInv, StopService, Crash, RunnerTypes, RecordSet, Cases, Ids, Id
<1>2. OtherDriver'
  BY <1>0 DEF RunnerInv, StopService, Crash, OtherDriver, RunnerTypes, Cases, Id, Ids
<1>3. Sent'
  BY <1>0 DEF RunnerInv, StopService, Crash, Sent, OtherDriver, RunnerTypes, Cases, CasesKnown
<1>4. DraftsHold'
  BY <1>0 DEF RunnerInv, StopService, Crash, DraftsHold, OtherDriver, RunnerTypes, Cases, Expects
<1>5. RecordsHold'
  BY <1>0 DEF RunnerInv, StopService, Crash, RecordsHold, OtherDriver, DraftsHold, Sent,
     RunnerTypes, Cases, Ids, Id, Expects, CasesKnown, DistinctIds
<1>6. RowsGrow'
  BY <1>0 DEF RunnerInv, StopService, Crash, RowsGrow, OtherDriver, RunnerTypes, Cases, CasesKnown
<1>7. RowsComplete'
  BY <1>0 DEF RunnerInv, StopService, Crash, RowsComplete, RowsGrow, RunnerTypes, Cases, CasesKnown
<1>8. RowsHold'
  BY <1>0 DEF RunnerInv, StopService, Crash, RowsHold, RowsGrow, RecordsHold, Sent, RunnerTypes,
     Cases, Ids, Id, Expects, CasesKnown
<1>9. ExitHolds'
  BY <1>0 DEF RunnerInv, StopService, Crash, ExitHolds, RowsHold, RowsComplete, RunnerTypes, Cases,
     Expects, CasesKnown
<1> QED BY <1>1, <1>2, <1>3, <1>4, <1>5, <1>6, <1>7, <1>8, <1>9 DEF RunnerInv

LEMMA SendCaseKeeps ==
  ASSUME RunnerInv, CasesKnown, SendCase, plan' = plan
  PROVE  RunnerInv'
<1>0. PICK P : plan = P
  OBVIOUS
<1>1. RunnerTypes'
  BY <1>0 DEF RunnerInv, SendCase, Sending, RunnerTypes, RecordSet, Cases, Ids, Id
<1>2. OtherDriver'
  BY <1>0 DEF RunnerInv, SendCase, Sending, OtherDriver, RunnerTypes, Cases, Id, Ids
<1>3. Sent'
  BY <1>0 DEF RunnerInv, SendCase, Sending, Sent, OtherDriver, RunnerTypes, Cases, CasesKnown
<1>4. DraftsHold'
  BY <1>0 DEF RunnerInv, SendCase, Sending, DraftsHold, OtherDriver, RunnerTypes, Cases, Expects
<1>5. RecordsHold'
  BY <1>0 DEF RunnerInv, SendCase, Sending, RecordsHold, OtherDriver, DraftsHold, Sent,
     RunnerTypes, Cases, Ids, Id, Expects, CasesKnown, DistinctIds
<1>6. RowsGrow'
  BY <1>0 DEF RunnerInv, SendCase, Sending, RowsGrow, OtherDriver, RunnerTypes, Cases, CasesKnown
<1>7. RowsComplete'
  BY <1>0 DEF RunnerInv, SendCase, Sending, RowsComplete, RowsGrow, RunnerTypes, Cases, CasesKnown
<1>8. RowsHold'
  BY <1>0, RowsOfCases DEF RunnerInv, SendCase, Sending, RowsHold, Sent, RunnerTypes, Cases, Expects
<1>9. ExitHolds'
  BY <1>0 DEF RunnerInv, SendCase, Sending, ExitHolds, RowsHold, RowsComplete, RunnerTypes, Cases,
     Expects, CasesKnown
<1> QED BY <1>1, <1>2, <1>3, <1>4, <1>5, <1>6, <1>7, <1>8, <1>9 DEF RunnerInv

LEMMA SendMalformedCaseKeeps ==
  ASSUME RunnerInv, CasesKnown, SendMalformedCase, plan' = plan
  PROVE  RunnerInv'
<1>0. PICK P : plan = P
  OBVIOUS
<1>1. RunnerTypes'
  BY <1>0 DEF RunnerInv, SendMalformedCase, Sending, Crash, RunnerTypes, RecordSet, Cases, Ids, Id
<1>2. OtherDriver'
  BY <1>0 DEF RunnerInv, SendMalformedCase, Sending, Crash, OtherDriver, RunnerTypes, Cases, Id, Ids
<1>3. Sent'
  BY <1>0 DEF RunnerInv, SendMalformedCase, Sending, Crash, Sent, OtherDriver, RunnerTypes, Cases,
     CasesKnown
<1>4. DraftsHold'
  BY <1>0 DEF RunnerInv, SendMalformedCase, Sending, Crash, DraftsHold, OtherDriver, RunnerTypes,
     Cases, Expects
<1>5. RecordsHold'
  BY <1>0 DEF RunnerInv, SendMalformedCase, Sending, Crash, RecordsHold, OtherDriver, DraftsHold,
     Sent, RunnerTypes, Cases, Ids, Id, Expects, CasesKnown, DistinctIds
<1>6. RowsGrow'
  BY <1>0 DEF RunnerInv, SendMalformedCase, Sending, Crash, RowsGrow, OtherDriver, RunnerTypes,
     Cases, CasesKnown
<1>7. RowsComplete'
  BY <1>0 DEF RunnerInv, SendMalformedCase, Sending, Crash, RowsComplete, RowsGrow, RunnerTypes,
     Cases, CasesKnown
<1>8. RowsHold'
  BY <1>0 DEF RunnerInv, SendMalformedCase, Sending, Crash, RowsHold, RowsGrow, RecordsHold, Sent,
     RunnerTypes, Cases, Ids, Id, Expects, CasesKnown
<1>9. ExitHolds'
  BY <1>0 DEF RunnerInv, SendMalformedCase, Sending, Crash, ExitHolds, RowsHold, RowsComplete,
     RunnerTypes, Cases, Expects, CasesKnown
<1> QED BY <1>1, <1>2, <1>3, <1>4, <1>5, <1>6, <1>7, <1>8, <1>9 DEF RunnerInv

LEMMA ReadAnswerKeeps ==
  ASSUME RunnerInv, CasesKnown, ReadAnswer, plan' = plan
  PROVE  RunnerInv'
<1>0. PICK P : plan = P
  OBVIOUS
<1>1. RunnerTypes'
  BY <1>0 DEF RunnerInv, ReadAnswer, NextCase, RunnerTypes, RecordSet, Cases, Ids, Id
<1>2. OtherDriver'
  BY <1>0 DEF RunnerInv, ReadAnswer, NextCase, OtherDriver, RunnerTypes, Cases, Id, Ids
<1>3. Sent'
  BY <1>0 DEF RunnerInv, ReadAnswer, NextCase, Sent, OtherDriver, RunnerTypes, Cases, CasesKnown
<1>4. DraftsHold'
  BY <1>0 DEF RunnerInv, ReadAnswer, NextCase, DraftsHold, OtherDriver, RunnerTypes, Cases, Expects
<1>5. RecordsHold'
  BY <1>0 DEF RunnerInv, ReadAnswer, NextCase, RecordsHold, OtherDriver, DraftsHold, Sent,
     RunnerTypes, Cases, Ids, Id, Expects, CasesKnown, DistinctIds
<1>6. RowsGrow'
  BY <1>0 DEF RunnerInv, ReadAnswer, NextCase, RowsGrow, OtherDriver, RunnerTypes, Cases, CasesKnown
<1>7. RowsComplete'
  BY <1>0 DEF RunnerInv, ReadAnswer, NextCase, RowsComplete, RowsGrow, RunnerTypes, Cases,
     CasesKnown
<1>8. RowsHold'
  BY <1>0 DEF RunnerInv, ReadAnswer, NextCase, RowsHold, RowsGrow, RecordsHold, Sent, RunnerTypes,
     Cases, Ids, Id, Expects, CasesKnown
<1>9. ExitHolds'
  BY <1>0 DEF RunnerInv, ReadAnswer, NextCase, ExitHolds, RowsHold, RowsComplete, RunnerTypes,
     Cases, Expects, CasesKnown
<1> QED BY <1>1, <1>2, <1>3, <1>4, <1>5, <1>6, <1>7, <1>8, <1>9 DEF RunnerInv

LEMMA GiveUpCaseKeeps ==
  ASSUME RunnerInv, CasesKnown, GiveUpCase, plan' = plan
  PROVE  RunnerInv'
<1>0. PICK P : plan = P
  OBVIOUS
<1>1. RunnerTypes'
  <2>1. records' \in [Ids -> RecordSet]
    BY RecordFacts DEF RunnerInv, GiveUpCase, RunnerTypes
  <2> QED BY <1>0, <2>1 DEF RunnerInv, GiveUpCase, NextCase, RunnerTypes, Cases, Ids, Id
<1>2. OtherDriver'
  BY <1>0, RecordFacts DEF RunnerInv, GiveUpCase, Sending, NextCase, OtherDriver, RunnerTypes,
     Cases, Id, Ids
<1>3. Sent'
  BY <1>0, RecordFacts DEF RunnerInv, GiveUpCase, Sending, NextCase, Sent, OtherDriver,
     RunnerTypes, Cases, CasesKnown
<1>4. DraftsHold'
  BY <1>0, RecordFacts DEF RunnerInv, GiveUpCase, Sending, NextCase, DraftsHold, OtherDriver,
     RunnerTypes, Cases, Expects
<1>5. RecordsHold'
  BY <1>0, RecordFacts DEF RunnerInv, GiveUpCase, Sending, NextCase, RecordsHold, OtherDriver,
     DraftsHold, Sent, RunnerTypes, Cases, Ids, Id, Expects, CasesKnown, DistinctIds
<1>6. RowsGrow'
  BY <1>0, RecordFacts DEF RunnerInv, GiveUpCase, Sending, NextCase, RowsGrow, OtherDriver,
     RunnerTypes, Cases, CasesKnown
<1>7. RowsComplete'
  BY <1>0, RecordFacts DEF RunnerInv, GiveUpCase, Sending, NextCase, RowsComplete, RowsGrow,
     RunnerTypes, Cases, CasesKnown
<1>8. RowsHold'
  BY <1>0, RecordFacts DEF RunnerInv, GiveUpCase, Sending, NextCase, RowsHold, RowsGrow,
     RecordsHold, Sent, RunnerTypes, Cases, Ids, Id, Expects, CasesKnown
<1>9. ExitHolds'
  BY <1>0, RecordFacts DEF RunnerInv, GiveUpCase, Sending, NextCase, ExitHolds, RowsHold,
     RowsComplete, RunnerTypes, Cases, Expects, CasesKnown
<1> QED BY <1>1, <1>2, <1>3, <1>4, <1>5, <1>6, <1>7, <1>8, <1>9 DEF RunnerInv

LEMMA RefuseCaseKeeps ==
  ASSUME RunnerInv, CasesKnown, NEW c \in Cases, RefuseCase(c), plan' = plan
  PROVE  RunnerInv'
<1>0. PICK P : plan = P
  OBVIOUS
<1>1. RunnerTypes'
  BY <1>0, RecordFacts DEF RunnerInv, RefuseCase, Handling, Moves, RunnerTypes, Cases, Ids, Id
<1>2. OtherDriver'
  BY <1>0, RecordFacts DEF RunnerInv, RefuseCase, Handling, Moves, OtherDriver, RunnerTypes, Cases,
     Id, Ids
<1>3. Sent'
  BY <1>0, RecordFacts DEF RunnerInv, RefuseCase, Handling, Moves, Sent, OtherDriver, RunnerTypes,
     Cases, CasesKnown
<1>4. DraftsHold'
  BY <1>0, RecordFacts DEF RunnerInv, RefuseCase, Handling, Moves, DraftsHold, OtherDriver,
     RunnerTypes, Cases, Expects
<1>5. RecordsHold'
  BY <1>0, RecordFacts DEF RunnerInv, RefuseCase, Handling, Moves, RecordsHold, OtherDriver,
     DraftsHold, Sent, RunnerTypes, Cases, Ids, Id, Expects, CasesKnown, DistinctIds
<1>6. RowsGrow'
  BY <1>0, RecordFacts DEF RunnerInv, RefuseCase, Handling, Moves, RowsGrow, OtherDriver,
     RunnerTypes, Cases, CasesKnown
<1>7. RowsComplete'
  BY <1>0, RecordFacts DEF RunnerInv, RefuseCase, Handling, Moves, RowsComplete, RowsGrow,
     RunnerTypes, Cases, CasesKnown
<1>8. RowsHold'
  BY <1>0, RecordFacts DEF RunnerInv, RefuseCase, Handling, Moves, RowsHold, RowsGrow, RecordsHold,
     Sent, RunnerTypes, Cases, Ids, Id, Expects, CasesKnown
<1>9. ExitHolds'
  BY <1>0, RecordFacts DEF RunnerInv, RefuseCase, Handling, Moves, ExitHolds, RowsHold,
     RowsComplete, RunnerTypes, Cases, Expects, CasesKnown
<1> QED BY <1>1, <1>2, <1>3, <1>4, <1>5, <1>6, <1>7, <1>8, <1>9 DEF RunnerInv

LEMMA ForwardCaseKeeps ==
  ASSUME RunnerInv, CasesKnown, NEW c \in Cases, ForwardCase(c), plan' = plan
  PROVE  RunnerInv'
<1>0. PICK P : plan = P
  OBVIOUS
<1>1. RunnerTypes'
  BY <1>0 DEF RunnerInv, ForwardCase, Handling, Moves, RunnerTypes, RecordSet, Cases, Ids, Id
<1>2. OtherDriver'
  BY <1>0 DEF RunnerInv, ForwardCase, Handling, Moves, OtherDriver, RunnerTypes, Cases, Id, Ids
<1>3. Sent'
  BY <1>0 DEF RunnerInv, ForwardCase, Handling, Moves, Sent, OtherDriver, RunnerTypes, Cases,
     CasesKnown
<1>4. DraftsHold'
  BY <1>0 DEF RunnerInv, ForwardCase, Handling, Moves, DraftsHold, OtherDriver, RunnerTypes, Cases,
     Expects
<1>5. RecordsHold'
  BY <1>0 DEF RunnerInv, ForwardCase, Handling, Moves, RecordsHold, OtherDriver, DraftsHold, Sent,
     RunnerTypes, Cases, Ids, Id, Expects, CasesKnown, DistinctIds
<1>6. RowsGrow'
  BY <1>0 DEF RunnerInv, ForwardCase, Handling, Moves, RowsGrow, OtherDriver, RunnerTypes, Cases,
     CasesKnown
<1>7. RowsComplete'
  BY <1>0 DEF RunnerInv, ForwardCase, Handling, Moves, RowsComplete, RowsGrow, RunnerTypes, Cases,
     CasesKnown
<1>8. RowsHold'
  BY <1>0 DEF RunnerInv, ForwardCase, Handling, Moves, RowsHold, RowsGrow, RecordsHold, Sent,
     RunnerTypes, Cases, Ids, Id, Expects, CasesKnown
<1>9. ExitHolds'
  BY <1>0 DEF RunnerInv, ForwardCase, Handling, Moves, ExitHolds, RowsHold, RowsComplete,
     RunnerTypes, Cases, Expects, CasesKnown
<1> QED BY <1>1, <1>2, <1>3, <1>4, <1>5, <1>6, <1>7, <1>8, <1>9 DEF RunnerInv

LEMMA ServiceAnswersKeeps ==
  ASSUME RunnerInv, CasesKnown, NEW c \in Cases, NEW s \in Statuses, ServiceAnswers(c, s), plan' = plan
  PROVE  RunnerInv'
<1>0. PICK P : plan = P
  OBVIOUS
<1>1. RunnerTypes'
  BY <1>0, FoundSame, RecordFacts DEF RunnerInv, ServiceAnswers, Handling, Alive, Moves,
     RunnerTypes, Cases, Ids, Id
<1>2. OtherDriver'
  BY <1>0, FoundSame, RecordFacts DEF RunnerInv, ServiceAnswers, Handling, Alive, Moves,
     OtherDriver, RunnerTypes, Cases, Id, Ids
<1>3. Sent'
  BY <1>0, FoundSame, RecordFacts DEF RunnerInv, ServiceAnswers, Handling, Alive, Moves, Sent,
     OtherDriver, RunnerTypes, Cases, CasesKnown
<1>4. DraftsHold'
  BY <1>0, FoundSame, RecordFacts DEF RunnerInv, ServiceAnswers, Handling, Alive, Moves,
     DraftsHold, OtherDriver, RunnerTypes, Cases, Expects
<1>5. RecordsHold'
  BY <1>0, FoundSame, RecordFacts DEF RunnerInv, ServiceAnswers, Handling, Alive, Moves,
     RecordsHold, OtherDriver, DraftsHold, Sent, RunnerTypes, Cases, Ids, Id, Expects, CasesKnown,
     DistinctIds
<1>6. RowsGrow'
  BY <1>0, FoundSame, RecordFacts DEF RunnerInv, ServiceAnswers, Handling, Alive, Moves, RowsGrow,
     OtherDriver, RunnerTypes, Cases, CasesKnown
<1>7. RowsComplete'
  BY <1>0, FoundSame, RecordFacts DEF RunnerInv, ServiceAnswers, Handling, Alive, Moves,
     RowsComplete, RowsGrow, RunnerTypes, Cases, CasesKnown
<1>8. RowsHold'
  BY <1>0, RowsOfCases DEF RunnerInv, ServiceAnswers, Handling, Moves, RowsHold, OtherDriver,
     RunnerTypes, Cases, Expects
<1>9. ExitHolds'
  BY <1>0, FoundSame, RecordFacts DEF RunnerInv, ServiceAnswers, Handling, Alive, Moves, ExitHolds,
     RowsHold, RowsComplete, RunnerTypes, Cases, Expects, CasesKnown
<1> QED BY <1>1, <1>2, <1>3, <1>4, <1>5, <1>6, <1>7, <1>8, <1>9 DEF RunnerInv

LEMMA ServiceFailsKeeps ==
  ASSUME RunnerInv, CasesKnown, NEW c \in Cases, ServiceFails(c), plan' = plan
  PROVE  RunnerInv'
<1>0. PICK P : plan = P
  OBVIOUS
<1>1. RunnerTypes'
  BY <1>0, RecordFacts DEF RunnerInv, ServiceFails, Handling, Moves, RunnerTypes, Cases, Ids, Id
<1>2. OtherDriver'
  BY <1>0, RecordFacts DEF RunnerInv, ServiceFails, Handling, Moves, OtherDriver, RunnerTypes,
     Cases, Id, Ids
<1>3. Sent'
  BY <1>0, RecordFacts DEF RunnerInv, ServiceFails, Handling, Moves, Sent, OtherDriver,
     RunnerTypes, Cases, CasesKnown
<1>4. DraftsHold'
  BY <1>0, RecordFacts DEF RunnerInv, ServiceFails, Handling, Moves, DraftsHold, OtherDriver,
     RunnerTypes, Cases, Expects
<1>5. RecordsHold'
  BY <1>0, RecordFacts DEF RunnerInv, ServiceFails, Handling, Moves, RecordsHold, OtherDriver,
     DraftsHold, Sent, RunnerTypes, Cases, Ids, Id, Expects, CasesKnown, DistinctIds
<1>6. RowsGrow'
  BY <1>0, RecordFacts DEF RunnerInv, ServiceFails, Handling, Moves, RowsGrow, OtherDriver,
     RunnerTypes, Cases, CasesKnown
<1>7. RowsComplete'
  BY <1>0, RecordFacts DEF RunnerInv, ServiceFails, Handling, Moves, RowsComplete, RowsGrow,
     RunnerTypes, Cases, CasesKnown
<1>8. RowsHold'
  BY <1>0, RecordFacts DEF RunnerInv, ServiceFails, Handling, Moves, RowsHold, RowsGrow,
     RecordsHold, Sent, RunnerTypes, Cases, Ids, Id, Expects, CasesKnown
<1>9. ExitHolds'
  BY <1>0, RecordFacts DEF RunnerInv, ServiceFails, Handling, Moves, ExitHolds, RowsHold,
     RowsComplete, RunnerTypes, Cases, Expects, CasesKnown
<1> QED BY <1>1, <1>2, <1>3, <1>4, <1>5, <1>6, <1>7, <1>8, <1>9 DEF RunnerInv

LEMMA ExchangeGarbledKeeps ==
  ASSUME RunnerInv, CasesKnown, NEW c \in Cases, ExchangeGarbled(c), plan' = plan
  PROVE  RunnerInv'
<1>0. PICK P : plan = P
  OBVIOUS
<1>1. RunnerTypes'
  BY <1>0 DEF RunnerInv, ExchangeGarbled, Handling, Moves, RunnerTypes, RecordSet, Cases, Ids, Id
<1>2. OtherDriver'
  BY <1>0 DEF RunnerInv, ExchangeGarbled, Handling, Moves, OtherDriver, RunnerTypes, Cases, Id, Ids
<1>3. Sent'
  BY <1>0 DEF RunnerInv, ExchangeGarbled, Handling, Moves, Sent, OtherDriver, RunnerTypes, Cases,
     CasesKnown
<1>4. DraftsHold'
  BY <1>0 DEF RunnerInv, ExchangeGarbled, Handling, Moves, DraftsHold, OtherDriver, RunnerTypes,
     Cases, Expects
<1>5. RecordsHold'
  BY <1>0 DEF RunnerInv, ExchangeGarbled, Handling, Moves, RecordsHold, OtherDriver, DraftsHold,
     Sent, RunnerTypes, Cases, Ids, Id, Expects, CasesKnown, DistinctIds
<1>6. RowsGrow'
  BY <1>0 DEF RunnerInv, ExchangeGarbled, Handling, Moves, RowsGrow, OtherDriver, RunnerTypes,
     Cases, CasesKnown
<1>7. RowsComplete'
  BY <1>0 DEF RunnerInv, ExchangeGarbled, Handling, Moves, RowsComplete, RowsGrow, RunnerTypes,
     Cases, CasesKnown
<1>8. RowsHold'
  BY <1>0 DEF RunnerInv, ExchangeGarbled, Handling, Moves, RowsHold, RowsGrow, RecordsHold, Sent,
     RunnerTypes, Cases, Ids, Id, Expects, CasesKnown
<1>9. ExitHolds'
  BY <1>0 DEF RunnerInv, ExchangeGarbled, Handling, Moves, ExitHolds, RowsHold, RowsComplete,
     RunnerTypes, Cases, Expects, CasesKnown
<1> QED BY <1>1, <1>2, <1>3, <1>4, <1>5, <1>6, <1>7, <1>8, <1>9 DEF RunnerInv

LEMMA ReplyToClientKeeps ==
  ASSUME RunnerInv, CasesKnown, NEW c \in Cases, ReplyToClient(c), plan' = plan
  PROVE  RunnerInv'
<1>0. PICK P : plan = P
  OBVIOUS
<1>a. /\ draft' \in [Cases -> RecordSet]
      /\ \A d \in Cases : draft'[d].passed = draft[d].passed
  <2>1. draft \in [Cases -> RecordSet]
    BY DEF RunnerInv, RunnerTypes
  <2>2. \A d \in Cases : /\ [draft[d] EXCEPT !.error = TRUE] \in RecordSet
                         /\ [draft[d] EXCEPT !.error = TRUE].passed = draft[d].passed
    BY <2>1 DEF RecordSet
  <2>3. CASE draft' = [draft EXCEPT ![c].error = TRUE]
    BY <2>1, <2>2, <2>3
  <2>4. CASE draft' = draft
    BY <2>1, <2>4
  <2> QED BY <2>3, <2>4 DEF ReplyToClient
<1>1. RunnerTypes'
  BY <1>0, <1>a DEF RunnerInv, ReplyToClient, Moves, RunnerTypes, Cases, Ids, Id
<1>2. OtherDriver'
  BY <1>0 DEF RunnerInv, ReplyToClient, Handling, Moves, WaitedFor, OtherDriver, RunnerTypes,
     Cases, Id, Ids
<1>3. Sent'
  BY <1>0 DEF RunnerInv, ReplyToClient, Handling, Moves, WaitedFor, Sent, OtherDriver, RunnerTypes,
     Cases, CasesKnown
<1>4. DraftsHold'
  BY <1>0, <1>a DEF RunnerInv, ReplyToClient, DraftsHold, Cases, Expects
<1>5. RecordsHold'
  BY <1>0 DEF RunnerInv, ReplyToClient, Handling, Moves, WaitedFor, RecordsHold, OtherDriver,
     DraftsHold, Sent, RunnerTypes, Cases, Ids, Id, Expects, CasesKnown, DistinctIds
<1>6. RowsGrow'
  BY <1>0 DEF RunnerInv, ReplyToClient, Handling, Moves, WaitedFor, RowsGrow, OtherDriver,
     RunnerTypes, Cases, CasesKnown
<1>7. RowsComplete'
  BY <1>0 DEF RunnerInv, ReplyToClient, Handling, Moves, WaitedFor, RowsComplete, RowsGrow,
     RunnerTypes, Cases, CasesKnown
<1>8. RowsHold'
  BY <1>0 DEF RunnerInv, ReplyToClient, Handling, Moves, WaitedFor, RowsHold, RowsGrow,
     RecordsHold, Sent, RunnerTypes, Cases, Ids, Id, Expects, CasesKnown
<1>9. ExitHolds'
  BY <1>0 DEF RunnerInv, ReplyToClient, Handling, Moves, WaitedFor, ExitHolds, RowsHold,
     RowsComplete, RunnerTypes, Cases, Expects, CasesKnown
<1> QED BY <1>1, <1>2, <1>3, <1>4, <1>5, <1>6, <1>7, <1>8, <1>9 DEF RunnerInv

LEMMA RecordCaseKeeps ==
  ASSUME RunnerInv, CasesKnown, NEW c \in Cases, RecordCase(c), plan' = plan
  PROVE  RunnerInv'
<1>0. PICK P : plan = P
  OBVIOUS
<1>1. RunnerTypes'
  BY <1>0 DEF RunnerInv, RecordCase, Handling, Moves, WaitedFor, RunnerTypes, RecordSet, Cases,
     Ids, Id
<1>2. OtherDriver'
  BY <1>0 DEF RunnerInv, RecordCase, Handling, Moves, WaitedFor, OtherDriver, RunnerTypes, Cases,
     Id, Ids
<1>3. Sent'
  BY <1>0 DEF RunnerInv, RecordCase, Handling, Moves, WaitedFor, Sent, OtherDriver, RunnerTypes,
     Cases, CasesKnown
<1>4. DraftsHold'
  BY <1>0 DEF RunnerInv, RecordCase, Handling, Moves, WaitedFor, DraftsHold, OtherDriver,
     RunnerTypes, Cases, Expects
<1>5. RecordsHold'
  BY <1>0 DEF RunnerInv, RecordCase, Handling, Moves, WaitedFor, RecordsHold, OtherDriver,
     DraftsHold, Sent, RunnerTypes, Cases, Ids, Id, Expects, CasesKnown, DistinctIds
<1>6. RowsGrow'
  BY <1>0 DEF RunnerInv, RecordCase, Handling, Moves, WaitedFor, RowsGrow, OtherDriver,
     RunnerTypes, Cases, CasesKnown
<1>7. RowsComplete'
  BY <1>0 DEF RunnerInv, RecordCase, Handling, Moves, WaitedFor, RowsComplete, RowsGrow,
     RunnerTypes, Cases, CasesKnown
<1>8. RowsHold'
  BY <1>0 DEF RunnerInv, RecordCase, Handling, Moves, WaitedFor, RowsHold, RowsGrow, RecordsHold,
     Sent, RunnerTypes, Cases, Ids, Id, Expects, CasesKnown
<1>9. ExitHolds'
  BY <1>0 DEF RunnerInv, RecordCase, Handling, Moves, WaitedFor, ExitHolds, RowsHold, RowsComplete,
     RunnerTypes, Cases, Expects, CasesKnown
<1> QED BY <1>1, <1>2, <1>3, <1>4, <1>5, <1>6, <1>7, <1>8, <1>9 DEF RunnerInv

LEMMA CollectRecordsKeeps ==
  ASSUME RunnerInv, CasesKnown, CollectRecords, plan' = plan
  PROVE  RunnerInv'
<1>0. PICK P : plan = P
  OBVIOUS
<1>1. RunnerTypes'
  <2>1. exit' \in Int
    BY DEF RunnerInv, CollectRecords, Crash, RunnerTypes
  <2>2. [c \in Cases |-> records[Id(c)]] \in Seq(RecordSet)
    <3>1. Cases = 1 .. Len(plan.cases) /\ Len(plan.cases) \in Nat
      BY DEF CasesKnown, Cases
    <3>2. \A c \in Cases : records[Id(c)] \in RecordSet
      BY DEF RunnerInv, RunnerTypes, Ids
    <3> QED BY <3>1, <3>2
  <2>3. rows' \in Seq(RecordSet)
    BY <2>2 DEF RunnerInv, CollectRecords, RunnerTypes
  <2> QED BY <1>0, <2>1, <2>3 DEF RunnerInv, CollectRecords, RunnerTypes, Cases, Ids, Id
<1>2. OtherDriver'
  BY <1>0 DEF RunnerInv, CollectRecords, Missing, Crash, OtherDriver, RunnerTypes, Cases, Id, Ids
<1>3. Sent'
  BY <1>0 DEF RunnerInv, CollectRecords, Missing, Crash, Sent, OtherDriver, RunnerTypes, Cases,
     CasesKnown
<1>4. DraftsHold'
  BY <1>0 DEF RunnerInv, CollectRecords, Missing, Crash, DraftsHold, OtherDriver, RunnerTypes,
     Cases, Expects
<1>5. RecordsHold'
  BY <1>0 DEF RunnerInv, CollectRecords, Missing, Crash, RecordsHold, OtherDriver, DraftsHold,
     Sent, RunnerTypes, Cases, Ids, Id, Expects, CasesKnown, DistinctIds
<1>6. RowsGrow'
  BY <1>0 DEF RunnerInv, CollectRecords, Missing, Crash, RowsGrow, OtherDriver, RunnerTypes, Cases,
     CasesKnown
<1>7. RowsComplete'
  BY <1>0 DEF RunnerInv, CollectRecords, Missing, Crash, RowsComplete, RowsGrow, RunnerTypes,
     Cases, CasesKnown
<1>8. RowsHold'
  BY <1>0 DEF RunnerInv, CollectRecords, Missing, Crash, RowsHold, RowsGrow, RecordsHold, Sent,
     RunnerTypes, Cases, Ids, Id, Expects, CasesKnown
<1>9. ExitHolds'
  BY <1>0 DEF RunnerInv, CollectRecords, Missing, Crash, ExitHolds, RowsHold, RowsComplete,
     RunnerTypes, Cases, Expects, CasesKnown
<1> QED BY <1>1, <1>2, <1>3, <1>4, <1>5, <1>6, <1>7, <1>8, <1>9 DEF RunnerInv

LEMMA RequestCaseKeeps ==
  ASSUME RunnerInv, CasesKnown, NEW s \in Statuses, RequestCase(s), plan' = plan
  PROVE  RunnerInv'
<1>0. PICK P : plan = P
  OBVIOUS
<1>1. RunnerTypes'
  BY <1>0, RecordFacts DEF RunnerInv, RequestCase, Sending, NextCase, RunnerTypes, Cases, Ids, Id
<1>2. OtherDriver'
  BY <1>0, RecordFacts DEF RunnerInv, RequestCase, Sending, NextCase, OtherDriver, RunnerTypes,
     Cases, Id, Ids
<1>3. Sent'
  BY <1>0, RecordFacts DEF RunnerInv, RequestCase, Sending, NextCase, Sent, OtherDriver,
     RunnerTypes, Cases, CasesKnown
<1>4. DraftsHold'
  BY <1>0, RecordFacts DEF RunnerInv, RequestCase, Sending, NextCase, DraftsHold, OtherDriver,
     RunnerTypes, Cases, Expects
<1>5. RecordsHold'
  BY <1>0, RecordFacts DEF RunnerInv, RequestCase, Sending, NextCase, RecordsHold, OtherDriver,
     DraftsHold, Sent, RunnerTypes, Cases, Ids, Id, Expects, CasesKnown, DistinctIds
<1>6. RowsGrow'
  BY <1>0, RecordFacts DEF RunnerInv, RequestCase, Sending, NextCase, RowsGrow, OtherDriver,
     RunnerTypes, Cases, CasesKnown
<1>7. RowsComplete'
  BY <1>0, RecordFacts DEF RunnerInv, RequestCase, Sending, NextCase, RowsComplete, RowsGrow,
     RunnerTypes, Cases, CasesKnown
<1>8. RowsHold'
  BY <1>0, RecordFacts DEF RunnerInv, RequestCase, Sending, NextCase, RowsHold, RowsGrow,
     RecordsHold, Sent, RunnerTypes, Cases, Ids, Id, Expects, CasesKnown
<1>9. ExitHolds'
  BY <1>0, RecordFacts DEF RunnerInv, RequestCase, Sending, NextCase, ExitHolds, RowsHold,
     RowsComplete, RunnerTypes, Cases, Expects, CasesKnown
<1> QED BY <1>1, <1>2, <1>3, <1>4, <1>5, <1>6, <1>7, <1>8, <1>9 DEF RunnerInv

LEMMA RequestFailsKeeps ==
  ASSUME RunnerInv, CasesKnown, RequestFails, plan' = plan
  PROVE  RunnerInv'
<1>0. PICK P : plan = P
  OBVIOUS
<1>1. RunnerTypes'
  BY <1>0, RecordFacts DEF RunnerInv, RequestFails, Sending, NextCase, RunnerTypes, Cases, Ids, Id
<1>2. OtherDriver'
  BY <1>0, RecordFacts DEF RunnerInv, RequestFails, Sending, NextCase, OtherDriver, RunnerTypes,
     Cases, Id, Ids
<1>3. Sent'
  BY <1>0, RecordFacts DEF RunnerInv, RequestFails, Sending, NextCase, Sent, OtherDriver,
     RunnerTypes, Cases, CasesKnown
<1>4. DraftsHold'
  BY <1>0, RecordFacts DEF RunnerInv, RequestFails, Sending, NextCase, DraftsHold, OtherDriver,
     RunnerTypes, Cases, Expects
<1>5. RecordsHold'
  BY <1>0, RecordFacts DEF RunnerInv, RequestFails, Sending, NextCase, RecordsHold, OtherDriver,
     DraftsHold, Sent, RunnerTypes, Cases, Ids, Id, Expects, CasesKnown, DistinctIds
<1>6. RowsGrow'
  BY <1>0, RecordFacts DEF RunnerInv, RequestFails, Sending, NextCase, RowsGrow, OtherDriver,
     RunnerTypes, Cases, CasesKnown
<1>7. RowsComplete'
  BY <1>0, RecordFacts DEF RunnerInv, RequestFails, Sending, NextCase, RowsComplete, RowsGrow,
     RunnerTypes, Cases, CasesKnown
<1>8. RowsHold'
  BY <1>0, RecordFacts DEF RunnerInv, RequestFails, Sending, NextCase, RowsHold, RowsGrow,
     RecordsHold, Sent, RunnerTypes, Cases, Ids, Id, Expects, CasesKnown
<1>9. ExitHolds'
  BY <1>0, RecordFacts DEF RunnerInv, RequestFails, Sending, NextCase, ExitHolds, RowsHold,
     RowsComplete, RunnerTypes, Cases, Expects, CasesKnown
<1> QED BY <1>1, <1>2, <1>3, <1>4, <1>5, <1>6, <1>7, <1>8, <1>9 DEF RunnerInv

LEMMA RequestBreaksOffKeeps ==
  ASSUME RunnerInv, CasesKnown, RequestBreaksOff, plan' = plan
  PROVE  RunnerInv'
<1>0. PICK P : plan = P
  OBVIOUS
<1>1. RunnerTypes'
  BY <1>0 DEF RunnerInv, RequestBreaksOff, Sending, BreakOff, RunnerTypes, RecordSet, Cases, Ids, Id
<1>2. OtherDriver'
  BY <1>0 DEF RunnerInv, RequestBreaksOff, Sending, BreakOff, OtherDriver, RunnerTypes, Cases, Id,
     Ids
<1>3. Sent'
  BY <1>0 DEF RunnerInv, RequestBreaksOff, Sending, BreakOff, Sent, OtherDriver, RunnerTypes,
     Cases, CasesKnown
<1>4. DraftsHold'
  BY <1>0 DEF RunnerInv, RequestBreaksOff, Sending, BreakOff, DraftsHold, OtherDriver, RunnerTypes,
     Cases, Expects
<1>5. RecordsHold'
  BY <1>0 DEF RunnerInv, RequestBreaksOff, Sending, BreakOff, RecordsHold, OtherDriver, DraftsHold,
     Sent, RunnerTypes, Cases, Ids, Id, Expects, CasesKnown, DistinctIds
<1>6. RowsGrow'
  BY <1>0 DEF RunnerInv, RequestBreaksOff, Sending, BreakOff, RowsGrow, OtherDriver, RunnerTypes,
     Cases, CasesKnown
<1>7. RowsComplete'
  BY <1>0 DEF RunnerInv, RequestBreaksOff, Sending, BreakOff, RowsComplete, RowsGrow, RunnerTypes,
     Cases, CasesKnown
<1>8. RowsHold'
  BY <1>0 DEF RunnerInv, RequestBreaksOff, Sending, BreakOff, RowsHold, RowsGrow, RecordsHold,
     Sent, RunnerTypes, Cases, Ids, Id, Expects, CasesKnown
<1>9. ExitHolds'
  BY <1>0 DEF RunnerInv, RequestBreaksOff, Sending, BreakOff, ExitHolds, RowsHold, RowsComplete,
     RunnerTypes, Cases, Expects, CasesKnown
<1> QED BY <1>1, <1>2, <1>3, <1>4, <1>5, <1>6, <1>7, <1>8, <1>9 DEF RunnerInv

LEMMA ObserveAnswerKeeps ==
  ASSUME RunnerInv, CasesKnown, NEW s \in Statuses, ObserveAnswer(s), plan' = plan
  PROVE  RunnerInv'
<1>0. PICK P : plan = P
  OBVIOUS
<1>1. RunnerTypes'
  BY <1>0 DEF RunnerInv, ObserveAnswer, Sending, RunnerTypes, RecordSet, Cases, Ids, Id
<1>2. OtherDriver'
  BY <1>0 DEF RunnerInv, ObserveAnswer, Sending, OtherDriver, RunnerTypes, Cases, Id, Ids
<1>3. Sent'
  BY <1>0 DEF RunnerInv, ObserveAnswer, Sending, Sent, OtherDriver, RunnerTypes, Cases, CasesKnown
<1>4. DraftsHold'
  BY <1>0 DEF RunnerInv, ObserveAnswer, Sending, DraftsHold, OtherDriver, RunnerTypes, Cases,
     Expects
<1>5. RecordsHold'
  BY <1>0 DEF RunnerInv, ObserveAnswer, Sending, RecordsHold, OtherDriver, DraftsHold, Sent,
     RunnerTypes, Cases, Ids, Id, Expects, CasesKnown, DistinctIds
<1>6. RowsGrow'
  BY <1>0 DEF RunnerInv, ObserveAnswer, Sending, RowsGrow, OtherDriver, RunnerTypes, Cases,
     CasesKnown
<1>7. RowsComplete'
  BY <1>0 DEF RunnerInv, ObserveAnswer, Sending, RowsComplete, RowsGrow, RunnerTypes, Cases,
     CasesKnown
<1>8. RowsHold'
  BY <1>0 DEF RunnerInv, ObserveAnswer, Sending, RowsHold, RowsGrow, RecordsHold, Sent,
     RunnerTypes, Cases, Ids, Id, Expects, CasesKnown
<1>9. ExitHolds'
  BY <1>0 DEF RunnerInv, ObserveAnswer, Sending, ExitHolds, RowsHold, RowsComplete, RunnerTypes,
     Cases, Expects, CasesKnown
<1> QED BY <1>1, <1>2, <1>3, <1>4, <1>5, <1>6, <1>7, <1>8, <1>9 DEF RunnerInv

LEMMA PlayScenarioKeeps ==
  ASSUME RunnerInv, CasesKnown, NEW ok \in BOOLEAN, PlayScenario(ok), plan' = plan
  PROVE  RunnerInv'
<1>0. PICK P : plan = P
  OBVIOUS
<1>1. RunnerTypes'
  BY <1>0, RecordFacts DEF RunnerInv, PlayScenario, Sending, NextCase, RunnerTypes, Cases, Ids, Id
<1>2. OtherDriver'
  BY <1>0, RecordFacts DEF RunnerInv, PlayScenario, Sending, NextCase, OtherDriver, RunnerTypes,
     Cases, Id, Ids
<1>3. Sent'
  BY <1>0, RecordFacts DEF RunnerInv, PlayScenario, Sending, NextCase, Sent, OtherDriver,
     RunnerTypes, Cases, CasesKnown
<1>4. DraftsHold'
  BY <1>0, RecordFacts DEF RunnerInv, PlayScenario, Sending, NextCase, DraftsHold, OtherDriver,
     RunnerTypes, Cases, Expects
<1>5. RecordsHold'
  BY <1>0, RecordFacts DEF RunnerInv, PlayScenario, Sending, NextCase, RecordsHold, OtherDriver,
     DraftsHold, Sent, RunnerTypes, Cases, Ids, Id, Expects, CasesKnown, DistinctIds
<1>6. RowsGrow'
  BY <1>0, RecordFacts DEF RunnerInv, PlayScenario, Sending, NextCase, RowsGrow, OtherDriver,
     RunnerTypes, Cases, CasesKnown
<1>7. RowsComplete'
  BY <1>0, RecordFacts DEF RunnerInv, PlayScenario, Sending, NextCase, RowsComplete, RowsGrow,
     RunnerTypes, Cases, CasesKnown
<1>8. RowsHold'
  BY <1>0, RecordFacts DEF RunnerInv, PlayScenario, Sending, NextCase, RowsHold, RowsGrow,
     RecordsHold, Sent, RunnerTypes, Cases, Ids, Id, Expects, CasesKnown
<1>9. ExitHolds'
  BY <1>0, RecordFacts DEF RunnerInv, PlayScenario, Sending, NextCase, ExitHolds, RowsHold,
     RowsComplete, RunnerTypes, Cases, Expects, CasesKnown
<1> QED BY <1>1, <1>2, <1>3, <1>4, <1>5, <1>6, <1>7, <1>8, <1>9 DEF RunnerInv

LEMMA BrowserFailsKeeps ==
  ASSUME RunnerInv, CasesKnown, BrowserFails, plan' = plan
  PROVE  RunnerInv'
<1>0. PICK P : plan = P
  OBVIOUS
<1>1. RunnerTypes'
  <2>1. runError' \in BOOLEAN /\ exit' \in Int
    <3>1. CASE BreakOff /\ UNCHANGED exit
      BY <3>1 DEF RunnerInv, BreakOff, RunnerTypes
    <3>2. CASE Crash /\ UNCHANGED runError
      BY <3>2 DEF RunnerInv, Crash, RunnerTypes
    <3> QED BY <3>1, <3>2 DEF BrowserFails
  <2> QED BY <1>0, <2>1 DEF RunnerInv, BrowserFails, RunnerTypes, Cases, Ids, Id
<1>2. OtherDriver'
  BY <1>0 DEF RunnerInv, BrowserFails, BreakOff, Crash, OtherDriver, RunnerTypes, Cases, Id, Ids
<1>3. Sent'
  BY <1>0 DEF RunnerInv, BrowserFails, BreakOff, Crash, Sent, OtherDriver, RunnerTypes, Cases,
     CasesKnown
<1>4. DraftsHold'
  BY <1>0 DEF RunnerInv, BrowserFails, BreakOff, Crash, DraftsHold, OtherDriver, RunnerTypes,
     Cases, Expects
<1>5. RecordsHold'
  BY <1>0 DEF RunnerInv, BrowserFails, BreakOff, Crash, RecordsHold, OtherDriver, DraftsHold, Sent,
     RunnerTypes, Cases, Ids, Id, Expects, CasesKnown, DistinctIds
<1>6. RowsGrow'
  BY <1>0 DEF RunnerInv, BrowserFails, BreakOff, Crash, RowsGrow, OtherDriver, RunnerTypes, Cases,
     CasesKnown
<1>7. RowsComplete'
  BY <1>0 DEF RunnerInv, BrowserFails, BreakOff, Crash, RowsComplete, RowsGrow, RunnerTypes, Cases,
     CasesKnown
<1>8. RowsHold'
  BY <1>0 DEF RunnerInv, BrowserFails, BreakOff, Crash, RowsHold, RowsGrow, RecordsHold, Sent,
     RunnerTypes, Cases, Ids, Id, Expects, CasesKnown
<1>9. ExitHolds'
  BY <1>0 DEF RunnerInv, BrowserFails, BreakOff, Crash, ExitHolds, RowsHold, RowsComplete,
     RunnerTypes, Cases, Expects, CasesKnown
<1> QED BY <1>1, <1>2, <1>3, <1>4, <1>5, <1>6, <1>7, <1>8, <1>9 DEF RunnerInv

LEMMA FinishCasesKeeps ==
  ASSUME RunnerInv, CasesKnown, FinishCases, plan' = plan
  PROVE  RunnerInv'
<1>0. PICK P : plan = P
  OBVIOUS
<1>1. RunnerTypes'
  BY <1>0 DEF RunnerInv, FinishCases, RunnerTypes, RecordSet, Cases, Ids, Id
<1>2. OtherDriver'
  BY <1>0 DEF RunnerInv, FinishCases, OtherDriver, RunnerTypes, Cases, Id, Ids
<1>3. Sent'
  BY <1>0 DEF RunnerInv, FinishCases, Sent, OtherDriver, RunnerTypes, Cases, CasesKnown
<1>4. DraftsHold'
  BY <1>0 DEF RunnerInv, FinishCases, DraftsHold, OtherDriver, RunnerTypes, Cases, Expects
<1>5. RecordsHold'
  BY <1>0 DEF RunnerInv, FinishCases, RecordsHold, OtherDriver, DraftsHold, Sent, RunnerTypes,
     Cases, Ids, Id, Expects, CasesKnown, DistinctIds
<1>6. RowsGrow'
  BY <1>0 DEF RunnerInv, FinishCases, RowsGrow, OtherDriver, RunnerTypes, Cases, CasesKnown
<1>7. RowsComplete'
  BY <1>0 DEF RunnerInv, FinishCases, RowsComplete, RowsGrow, RunnerTypes, Cases, CasesKnown
<1>8. RowsHold'
  BY <1>0 DEF RunnerInv, FinishCases, RowsHold, RowsGrow, RecordsHold, Sent, RunnerTypes, Cases,
     Ids, Id, Expects, CasesKnown
<1>9. ExitHolds'
  BY <1>0 DEF RunnerInv, FinishCases, ExitHolds, RowsHold, RowsComplete, RunnerTypes, Cases,
     Expects, CasesKnown
<1> QED BY <1>1, <1>2, <1>3, <1>4, <1>5, <1>6, <1>7, <1>8, <1>9 DEF RunnerInv

LEMMA DriverKilledKeeps ==
  ASSUME RunnerInv, CasesKnown, DriverKilled, plan' = plan
  PROVE  RunnerInv'
<1>0. PICK P : plan = P
  OBVIOUS
<1>1. RunnerTypes'
  BY <1>0 DEF RunnerInv, DriverKilled, Alive, Crash, RunnerTypes, RecordSet, Cases, Ids, Id
<1>2. OtherDriver'
  BY <1>0 DEF RunnerInv, DriverKilled, Alive, Crash, OtherDriver, RunnerTypes, Cases, Id, Ids
<1>3. Sent'
  BY <1>0 DEF RunnerInv, DriverKilled, Alive, Crash, Sent, OtherDriver, RunnerTypes, Cases,
     CasesKnown
<1>4. DraftsHold'
  BY <1>0 DEF RunnerInv, DriverKilled, Alive, Crash, DraftsHold, OtherDriver, RunnerTypes, Cases,
     Expects
<1>5. RecordsHold'
  BY <1>0 DEF RunnerInv, DriverKilled, Alive, Crash, RecordsHold, OtherDriver, DraftsHold, Sent,
     RunnerTypes, Cases, Ids, Id, Expects, CasesKnown, DistinctIds
<1>6. RowsGrow'
  BY <1>0 DEF RunnerInv, DriverKilled, Alive, Crash, RowsGrow, OtherDriver, RunnerTypes, Cases,
     CasesKnown
<1>7. RowsComplete'
  BY <1>0 DEF RunnerInv, DriverKilled, Alive, Crash, RowsComplete, RowsGrow, RunnerTypes, Cases,
     CasesKnown
<1>8. RowsHold'
  BY <1>0 DEF RunnerInv, DriverKilled, Alive, Crash, RowsHold, RowsGrow, RecordsHold, Sent,
     RunnerTypes, Cases, Ids, Id, Expects, CasesKnown
<1>9. ExitHolds'
  BY <1>0 DEF RunnerInv, DriverKilled, Alive, Crash, ExitHolds, RowsHold, RowsComplete,
     RunnerTypes, Cases, Expects, CasesKnown
<1> QED BY <1>1, <1>2, <1>3, <1>4, <1>5, <1>6, <1>7, <1>8, <1>9 DEF RunnerInv

LEMMA WriteEvidenceKeeps ==
  ASSUME RunnerInv, CasesKnown, WriteEvidence, plan' = plan
  PROVE  RunnerInv'
<1>0. PICK P : plan = P
  OBVIOUS
<1>1. RunnerTypes'
  BY <1>0 DEF RunnerInv, WriteEvidence, Succeeds, RunnerTypes, RecordSet, Cases, Ids, Id
<1>2. OtherDriver'
  BY <1>0 DEF RunnerInv, WriteEvidence, Succeeds, OtherDriver, RunnerTypes, Cases, Id, Ids
<1>3. Sent'
  BY <1>0 DEF RunnerInv, WriteEvidence, Succeeds, Sent, OtherDriver, RunnerTypes, Cases, CasesKnown
<1>4. DraftsHold'
  BY <1>0 DEF RunnerInv, WriteEvidence, Succeeds, DraftsHold, OtherDriver, RunnerTypes, Cases,
     Expects
<1>5. RecordsHold'
  BY <1>0 DEF RunnerInv, WriteEvidence, Succeeds, RecordsHold, OtherDriver, DraftsHold, Sent,
     RunnerTypes, Cases, Ids, Id, Expects, CasesKnown, DistinctIds
<1>6. RowsGrow'
  BY <1>0 DEF RunnerInv, WriteEvidence, Succeeds, RowsGrow, OtherDriver, RunnerTypes, Cases,
     CasesKnown
<1>7. RowsComplete'
  BY <1>0 DEF RunnerInv, WriteEvidence, Succeeds, RowsComplete, RowsGrow, RunnerTypes, Cases,
     CasesKnown
<1>8. RowsHold'
  BY <1>0 DEF RunnerInv, WriteEvidence, Succeeds, RowsHold, RowsGrow, RecordsHold, Sent,
     RunnerTypes, Cases, Ids, Id, Expects, CasesKnown
<1>9. ExitHolds'
  BY <1>0 DEF RunnerInv, WriteEvidence, Succeeds, ExitHolds, RowsHold, RowsComplete, RunnerTypes,
     Cases, Expects, CasesKnown
<1> QED BY <1>1, <1>2, <1>3, <1>4, <1>5, <1>6, <1>7, <1>8, <1>9 DEF RunnerInv

LEMMA RunnerKeeps ==
  ASSUME RunnerInv, CasesKnown, RunnerStep \/ WriteEvidence, plan' = plan
  PROVE  RunnerInv'
<1>1. CASE \E c \in Cases : HandlerStep(c)
  BY <1>1, RefuseCaseKeeps, ForwardCaseKeeps, ServiceAnswersKeeps, ServiceFailsKeeps,
     ExchangeGarbledKeeps, ReplyToClientKeeps, RecordCaseKeeps DEF HandlerStep
<1> QED
  BY <1>1, ServiceMissingKeeps, ServiceListensKeeps, ServiceNeverListensKeeps, StopServiceKeeps,
     SendCaseKeeps, SendMalformedCaseKeeps, ReadAnswerKeeps, GiveUpCaseKeeps, CollectRecordsKeeps,
     RequestCaseKeeps, RequestFailsKeeps, RequestBreaksOffKeeps, ObserveAnswerKeeps,
     PlayScenarioKeeps, BrowserFailsKeeps, FinishCasesKeeps, DriverKilledKeeps, WriteEvidenceKeeps
     DEF RunnerStep

\* Only a driver that is alive takes a step.
LEMMA StepsAlive ==
  ASSUME RunnerStep \/ WriteEvidence
  PROVE  Alive /\ (RunnerStep => runner' # "off" /\ (runner' = "crashed" \/ exit' = exit))
<1>1. CASE \E c \in Cases : HandlerStep(c)
  BY <1>1 DEF HandlerStep, RefuseCase, ForwardCase, ServiceAnswers, ServiceFails, ExchangeGarbled,
     ReplyToClient, RecordCase, Handling, Alive
<1> QED
  BY <1>1 DEF RunnerStep, WriteEvidence, ServiceMissing, ServiceListens, ServiceNeverListens,
     StopService, SendCase, SendMalformedCase, ReadAnswer, GiveUpCase, CollectRecords, RequestCase,
     RequestFails, RequestBreaksOff, ObserveAnswer, PlayScenario, BrowserFails, FinishCases,
     DriverKilled, Sending, Crash, BreakOff, Alive

(***************************************************************************)
(* The invariant of the executor                                           *)
(***************************************************************************)

ArtifactSet == [path : STRING, hash : Nat]
StepStatuses == {"pending", "passed", "failed", "timeout", "error"}
ResultSet == [id : STRING \cup {"none"}, status : StepStatuses, artifacts : Seq(ArtifactSet)]
CommandSet == [step : STRING, runs : STRING, over : Nat, network : {"none"}]

ExecTypes ==
  /\ plan \in PlanFiles
  /\ source \in Nat \ {0} /\ staged \in Nat /\ digest \in Nat /\ isolated \in Nat
  /\ writes \in Nat /\ step \in Nat
  /\ files \in [Paths -> Nat] /\ retained \in [Slots -> Nat]
  /\ result \in ResultSet /\ results \in Seq(ResultSet) /\ commands \in Seq(CommandSet)

Valid == phase \notin {"load", "aborted"} => ValidPlan(plan)

OffUntilStarted ==
  /\ IsStaged /\ phase \in {"load", "ready", "copy", "steps"} => runner = "off"
  /\ ~IsStaged => runner = "off"

Before ==
  phase \in {"load", "ready", "copy"} =>
    results = <<>> /\ commands = <<>> /\ step = 1 /\ survivors = {}

InStep == {"wait", "collect", "retain", "record"}

During ==
  phase \in InStep \cup {"steps"} =>
    /\ step \in Steps /\ Len(results) = step - 1
    /\ Len(commands) = IF phase = "steps" THEN step - 1 ELSE step

After ==
  phase = "done" /\ report # "planned" =>
    /\ step \in Steps /\ Len(results) = step /\ Len(commands) = step
    /\ report = "passed" => step = Len(plan.steps)

Planned == report = "planned" => phase = "done"

StatusHolds ==
  /\ report = "passed" => \A k \in DOMAIN results : results[k].status = "passed"
  /\ \A k \in DOMAIN results :
       results[k].status = "passed" => Len(results[k].artifacts) = Len(Outputs(k))
  /\ phase = "record" /\ result.status = "passed" => Len(result.artifacts) = Len(Outputs(step))

ExitObserved ==
  IsStaged => /\ container = "exited0" => exit = 0
              /\ result.status = "passed" => exit = 0
              /\ \A k \in DOMAIN results : results[k].status = "passed" => exit = 0

Names ==
  /\ report # "planned" => \A k \in DOMAIN commands : commands[k] = DockerCommand(k, isolated)
  /\ \A k \in DOMAIN results : results[k].id = plan.steps[k].id
  /\ phase \in InStep \ {"wait"} => result.id = plan.steps[step].id

Versions ==
  /\ phase \notin {"load", "ready", "aborted"} =>
       IF IsStaged THEN digest = staged ELSE source = 1 => digest = 1
  /\ phase \notin {"load", "ready", "copy", "aborted"} /\ report # "planned" =>
       IF IsStaged THEN isolated = staged ELSE source = 1 => isolated = 1

Quiet == phase # "wait" => container = "none"

Collected ==
  phase \in InStep \ {"wait"} =>
    /\ Len(result.artifacts) <= Len(Outputs(step))
    /\ \A a \in DOMAIN result.artifacts : result.artifacts[a].path = Outputs(step)[a]
    /\ phase = "retain" => result.artifacts # <<>>

\* The artifact that is hashed and not yet copied.
Fresh(a) == phase = "retain" /\ a = Len(result.artifacts)

\* The artifact directory has a file of that name, with that content.
Holds(slot, hash) == slot \in DOMAIN retained /\ retained[slot] = hash

KeptBefore ==
  survivors = {} /\ plan.keeps =>
    \A k \in DOMAIN results : \A a \in DOMAIN results[k].artifacts :
      Holds(<<results[k].id, results[k].artifacts[a].path>>, results[k].artifacts[a].hash)

KeptNow ==
  survivors = {} /\ plan.keeps /\ phase \in InStep \ {"wait"} =>
    \A a \in DOMAIN result.artifacts :
      IF Fresh(a) THEN result.artifacts[a].hash = files[Hashed]
      ELSE Holds(<<result.id, result.artifacts[a].path>>, result.artifacts[a].hash)

ExecInv == /\ ExecTypes /\ Valid /\ OffUntilStarted /\ Before /\ During /\ After /\ Planned
           /\ StatusHolds /\ ExitObserved /\ Names /\ Versions /\ Quiet /\ Collected /\ KeptBefore
           /\ KeptNow

LEMMA PlanFacts ==
  ASSUME ExecInv
  PROVE  /\ plan.steps \in Seq(StepSet)
         /\ plan.cases \in Seq(CaseSet)
         /\ IsStaged => Len(plan.steps) = 1
         /\ phase \notin {"load", "aborted"} =>
              /\ Len(plan.steps) > 0
              /\ DistinctIds(plan.steps)
              /\ \A k \in Steps : Distinct(Outputs(k))
              /\ IsStaged => CasesKnown
<1>1. IsPlanFile(plan)
  BY VerificationAssumption DEF ExecInv, ExecTypes
<1>2. plan.steps \in Seq(StepSet) /\ plan.cases \in Seq(CaseSet)
  BY <1>1 DEF IsPlanFile
<1>4. IsStaged => Len(plan.steps) = 1
  <2>1. ASSUME IsStaged PROVE plan.steps = StagedSteps
    BY <1>1, <2>1 DEF IsPlanFile, IsStaged
  <2>2. Len(StagedSteps) = 1
    BY DEF StagedSteps
  <2> QED BY <2>1, <2>2
<1>5. ASSUME phase \notin {"load", "aborted"}
      PROVE  /\ Len(plan.steps) > 0 /\ DistinctIds(plan.steps)
             /\ \A k \in Steps : Distinct(Outputs(k))
             /\ IsStaged => CasesKnown
  <2>1. ValidPlan(plan)
    BY <1>5 DEF ExecInv, Valid
  <2>2. plan.steps # <<>> /\ DistinctIds(plan.steps) /\ \A k \in Steps : Distinct(Outputs(k))
    BY <2>1 DEF ValidPlan, ValidSteps, Steps, Outputs
  <2>3. Len(plan.steps) > 0
    BY <2>2, <1>2
  <2>4. IsStaged => CasesKnown
    BY <2>1, <1>2 DEF ValidPlan, IsStaged, ValidCases, CasesKnown
  <2> QED BY <2>2, <2>3, <2>4
<1> QED BY <1>2, <1>4, <1>5

\* What the plan is made of does not change.
LEMMA PlanKept ==
  ASSUME plan' = plan
  PROVE  Paths' = Paths /\ Slots' = Slots /\ Steps' = Steps /\ (IsStaged' <=> IsStaged)
BY DEF Paths, Slots, Steps, Outputs, IsStaged

\* A result of the step, its command and its outputs.
LEMMA StepFacts ==
  ASSUME ExecInv, step \in Steps
  PROVE  /\ \A s \in StepStatuses :
              /\ Result(s) \in ResultSet /\ Result(s).status = s
              /\ Result(s).artifacts = <<>> /\ Result(s).id = plan.steps[step].id
         /\ DockerCommand(step, isolated) \in CommandSet
         /\ Outputs(step) \in Seq(STRING)
         /\ Pending \in ResultSet /\ Pending.status = "pending"
<1>1. plan.steps[step] \in StepSet
  BY PlanFacts DEF Steps
<1>2. plan.steps[step].id \in STRING /\ plan.steps[step].command \in STRING
      /\ Outputs(step) \in Seq(STRING)
  BY <1>1 DEF StepSet, Outputs
<1>3. <<>> \in Seq(ArtifactSet)
  OBVIOUS
<1>4. \A s \in StepStatuses :
         /\ Result(s) \in ResultSet /\ Result(s).status = s
         /\ Result(s).artifacts = <<>> /\ Result(s).id = plan.steps[step].id
  BY <1>2, <1>3 DEF Result, ResultSet
<1>5. DockerCommand(step, isolated) \in CommandSet
  <2>1. isolated \in Nat
    BY DEF ExecInv, ExecTypes
  <2> QED BY <1>2, <2>1 DEF DockerCommand, CommandSet
<1>6. Pending \in ResultSet /\ Pending.status = "pending"
  BY <1>3 DEF Pending, ResultSet, StepStatuses
<1> QED BY <1>2, <1>4, <1>5, <1>6

\* Stopping at an output keeps the artifacts there are.
LEMMA StoppedFacts ==
  ASSUME ExecInv, StopCollecting
  PROVE  /\ result' \in ResultSet /\ result'.status # "passed"
         /\ result'.id = result.id /\ result'.artifacts = result.artifacts
BY DEF ExecInv, ExecTypes, StopCollecting, ResultSet, StepStatuses

LEMMA EditSourceSafe ==
  ASSUME RunnerInv, ExecInv, EditSource
  PROVE  ExecInv'
<1>0. PICK P : plan = P
  OBVIOUS
<1>a. plan' = plan
  BY DEF EditSource
<1>1. ExecTypes'
  BY <1>a, PlanKept DEF ExecInv, EditSource, runnerVars, Ended, ExecTypes
<1>2. Valid'
  BY <1>0, <1>a, PlanFacts DEF ExecInv, EditSource, runnerVars, Ended, Valid
<1>3. OffUntilStarted'
  BY <1>0, <1>a, PlanFacts DEF ExecInv, EditSource, runnerVars, Ended, OffUntilStarted, IsStaged,
     During, Steps
<1>4. Before'
  BY <1>0, <1>a DEF ExecInv, EditSource, runnerVars, Ended, Before
<1>5. During'
  BY <1>0, <1>a, PlanFacts DEF ExecInv, EditSource, runnerVars, Ended, During, Before, InStep,
     ExecTypes, Steps
<1>6. After'
  BY <1>0, <1>a, PlanFacts DEF ExecInv, EditSource, runnerVars, Ended, After, During, InStep,
     ExecTypes, Steps
<1>7. Planned'
  BY <1>0, <1>a DEF ExecInv, EditSource, runnerVars, Ended, Planned, ExecTypes, ResultSet,
     StepStatuses
<1>8. StatusHolds'
  BY <1>0, <1>a, PlanFacts DEF ExecInv, EditSource, runnerVars, Ended, StatusHolds, Before, During,
     InStep, Collected, ExecTypes, ResultSet, Steps, Outputs, Planned
<1>9. ExitObserved'
  BY <1>0, <1>a DEF ExecInv, EditSource, runnerVars, Ended, ExitObserved, Before, ExecTypes,
     ResultSet, IsStaged
<1>10. Names'
  BY <1>0, <1>a, PlanFacts DEF ExecInv, EditSource, runnerVars, Ended, Names, Before, During,
     InStep, ExecTypes, ResultSet, Planned, Steps, DockerCommand
<1>11. Versions'
  BY <1>0, <1>a DEF ExecInv, EditSource, runnerVars, Ended, Versions, ExecTypes, IsStaged, Planned
<1>12. Quiet'
  BY <1>0, <1>a DEF ExecInv, EditSource, runnerVars, Ended, Quiet
<1>13. Collected'
  BY <1>0, <1>a, PlanFacts DEF ExecInv, EditSource, runnerVars, Ended, Collected, During, InStep,
     ExecTypes, ResultSet, ArtifactSet, Steps, Outputs
<1>14. KeptBefore'
  BY <1>0, <1>a, PlanFacts DEF ExecInv, EditSource, runnerVars, Ended, KeptBefore, Holds, Before,
     ExecTypes
<1>15. KeptNow'
  BY <1>0, <1>a, PlanFacts DEF ExecInv, EditSource, runnerVars, Ended, KeptNow, Holds, Collected,
     Before, During, InStep, Fresh, Hashed, ExecTypes, Quiet, Outputs
<1> QED BY <1>1, <1>2, <1>3, <1>4, <1>5, <1>6, <1>7, <1>8, <1>9, <1>10, <1>11, <1>12, <1>13, <1>14,
           <1>15 DEF ExecInv

LEMMA LoadPlanSafe ==
  ASSUME RunnerInv, ExecInv, LoadPlan
  PROVE  ExecInv'
<1>0. PICK P : plan = P
  OBVIOUS
<1>a. plan' = plan
  BY DEF LoadPlan
<1>1. ExecTypes'
  BY <1>a, PlanKept DEF ExecInv, LoadPlan, runnerVars, ExecTypes
<1>2. Valid'
  BY <1>0, <1>a, PlanFacts DEF ExecInv, LoadPlan, runnerVars, Valid
<1>3. OffUntilStarted'
  BY <1>0, <1>a, PlanFacts DEF ExecInv, LoadPlan, runnerVars, OffUntilStarted, IsStaged, During,
     Steps
<1>4. Before'
  BY <1>0, <1>a DEF ExecInv, LoadPlan, runnerVars, Before
<1>5. During'
  BY <1>0, <1>a, PlanFacts DEF ExecInv, LoadPlan, runnerVars, During, Before, InStep, ExecTypes,
     Steps
<1>6. After'
  BY <1>0, <1>a, PlanFacts DEF ExecInv, LoadPlan, runnerVars, After, During, InStep, ExecTypes,
     Steps
<1>7. Planned'
  BY <1>0, <1>a DEF ExecInv, LoadPlan, runnerVars, Planned, ExecTypes, ResultSet, StepStatuses
<1>8. StatusHolds'
  BY <1>0, <1>a, PlanFacts DEF ExecInv, LoadPlan, runnerVars, StatusHolds, Before, During, InStep,
     Collected, ExecTypes, ResultSet, Steps, Outputs, Planned
<1>9. ExitObserved'
  BY <1>0, <1>a DEF ExecInv, LoadPlan, runnerVars, ExitObserved, Before, ExecTypes, ResultSet,
     IsStaged
<1>10. Names'
  BY <1>0, <1>a, PlanFacts DEF ExecInv, LoadPlan, runnerVars, Names, Before, During, InStep,
     ExecTypes, ResultSet, Planned, Steps, DockerCommand
<1>11. Versions'
  BY <1>0, <1>a DEF ExecInv, LoadPlan, runnerVars, Versions, ExecTypes, IsStaged, Planned
<1>12. Quiet'
  BY <1>0, <1>a DEF ExecInv, LoadPlan, runnerVars, Quiet
<1>13. Collected'
  BY <1>0, <1>a, PlanFacts DEF ExecInv, LoadPlan, runnerVars, Collected, During, InStep, ExecTypes,
     ResultSet, ArtifactSet, Steps, Outputs
<1>14. KeptBefore'
  BY <1>0, <1>a, PlanFacts DEF ExecInv, LoadPlan, runnerVars, KeptBefore, Holds, Before, ExecTypes
<1>15. KeptNow'
  BY <1>0, <1>a, PlanFacts DEF ExecInv, LoadPlan, runnerVars, KeptNow, Holds, Collected, Before,
     During, InStep, Fresh, Hashed, ExecTypes, Quiet, Outputs
<1> QED BY <1>1, <1>2, <1>3, <1>4, <1>5, <1>6, <1>7, <1>8, <1>9, <1>10, <1>11, <1>12, <1>13, <1>14,
           <1>15 DEF ExecInv

LEMMA StageWorkspaceSafe ==
  ASSUME RunnerInv, ExecInv, StageWorkspace
  PROVE  ExecInv'
<1>0. PICK P : plan = P
  OBVIOUS
<1>a. plan' = plan
  BY DEF StageWorkspace
<1>1. ExecTypes'
  BY <1>a, PlanKept DEF ExecInv, StageWorkspace, runnerVars, ExecTypes
<1>2. Valid'
  BY <1>0, <1>a, PlanFacts DEF ExecInv, StageWorkspace, runnerVars, Valid
<1>3. OffUntilStarted'
  BY <1>0, <1>a, PlanFacts DEF ExecInv, StageWorkspace, runnerVars, OffUntilStarted, IsStaged,
     During, Steps
<1>4. Before'
  BY <1>0, <1>a DEF ExecInv, StageWorkspace, runnerVars, Before
<1>5. During'
  BY <1>0, <1>a, PlanFacts DEF ExecInv, StageWorkspace, runnerVars, During, Before, InStep,
     ExecTypes, Steps
<1>6. After'
  BY <1>0, <1>a, PlanFacts DEF ExecInv, StageWorkspace, runnerVars, After, During, InStep,
     ExecTypes, Steps
<1>7. Planned'
  BY <1>0, <1>a DEF ExecInv, StageWorkspace, runnerVars, Planned, ExecTypes, ResultSet, StepStatuses
<1>8. StatusHolds'
  BY <1>0, <1>a, PlanFacts DEF ExecInv, StageWorkspace, runnerVars, StatusHolds, Before, During,
     InStep, Collected, ExecTypes, ResultSet, Steps, Outputs, Planned
<1>9. ExitObserved'
  BY <1>0, <1>a DEF ExecInv, StageWorkspace, runnerVars, ExitObserved, Before, ExecTypes,
     ResultSet, IsStaged
<1>10. Names'
  BY <1>0, <1>a, PlanFacts DEF ExecInv, StageWorkspace, runnerVars, Names, Before, During, InStep,
     ExecTypes, ResultSet, Planned, Steps, DockerCommand
<1>11. Versions'
  BY <1>0, <1>a DEF ExecInv, StageWorkspace, runnerVars, Versions, ExecTypes, IsStaged, Planned
<1>12. Quiet'
  BY <1>0, <1>a DEF ExecInv, StageWorkspace, runnerVars, Quiet
<1>13. Collected'
  BY <1>0, <1>a, PlanFacts DEF ExecInv, StageWorkspace, runnerVars, Collected, During, InStep,
     ExecTypes, ResultSet, ArtifactSet, Steps, Outputs
<1>14. KeptBefore'
  BY <1>0, <1>a, PlanFacts DEF ExecInv, StageWorkspace, runnerVars, KeptBefore, Holds, Before,
     ExecTypes
<1>15. KeptNow'
  BY <1>0, <1>a, PlanFacts DEF ExecInv, StageWorkspace, runnerVars, KeptNow, Holds, Collected,
     Before, During, InStep, Fresh, Hashed, ExecTypes, Quiet, Outputs
<1> QED BY <1>1, <1>2, <1>3, <1>4, <1>5, <1>6, <1>7, <1>8, <1>9, <1>10, <1>11, <1>12, <1>13, <1>14,
           <1>15 DEF ExecInv

LEMMA RefuseWorkspaceSafe ==
  ASSUME RunnerInv, ExecInv, RefuseWorkspace
  PROVE  ExecInv'
<1>0. PICK P : plan = P
  OBVIOUS
<1>a. plan' = plan
  BY DEF RefuseWorkspace
<1>1. ExecTypes'
  BY <1>a, PlanKept DEF ExecInv, RefuseWorkspace, runnerVars, WorkspaceReady, ExecTypes
<1>2. Valid'
  BY <1>0, <1>a, PlanFacts DEF ExecInv, RefuseWorkspace, runnerVars, WorkspaceReady, Valid
<1>3. OffUntilStarted'
  BY <1>0, <1>a, PlanFacts DEF ExecInv, RefuseWorkspace, runnerVars, WorkspaceReady,
     OffUntilStarted, IsStaged, During, Steps
<1>4. Before'
  BY <1>0, <1>a DEF ExecInv, RefuseWorkspace, runnerVars, WorkspaceReady, Before
<1>5. During'
  BY <1>0, <1>a, PlanFacts DEF ExecInv, RefuseWorkspace, runnerVars, WorkspaceReady, During,
     Before, InStep, ExecTypes, Steps
<1>6. After'
  BY <1>0, <1>a, PlanFacts DEF ExecInv, RefuseWorkspace, runnerVars, WorkspaceReady, After, During,
     InStep, ExecTypes, Steps
<1>7. Planned'
  BY <1>0, <1>a DEF ExecInv, RefuseWorkspace, runnerVars, WorkspaceReady, Planned, ExecTypes,
     ResultSet, StepStatuses
<1>8. StatusHolds'
  BY <1>0, <1>a, PlanFacts DEF ExecInv, RefuseWorkspace, runnerVars, WorkspaceReady, StatusHolds,
     Before, During, InStep, Collected, ExecTypes, ResultSet, Steps, Outputs, Planned
<1>9. ExitObserved'
  BY <1>0, <1>a DEF ExecInv, RefuseWorkspace, runnerVars, WorkspaceReady, ExitObserved, Before,
     ExecTypes, ResultSet, IsStaged
<1>10. Names'
  BY <1>0, <1>a, PlanFacts DEF ExecInv, RefuseWorkspace, runnerVars, WorkspaceReady, Names, Before,
     During, InStep, ExecTypes, ResultSet, Planned, Steps, DockerCommand
<1>11. Versions'
  BY <1>0, <1>a DEF ExecInv, RefuseWorkspace, runnerVars, WorkspaceReady, Versions, ExecTypes,
     IsStaged, Planned
<1>12. Quiet'
  BY <1>0, <1>a DEF ExecInv, RefuseWorkspace, runnerVars, WorkspaceReady, Quiet
<1>13. Collected'
  BY <1>0, <1>a, PlanFacts DEF ExecInv, RefuseWorkspace, runnerVars, WorkspaceReady, Collected,
     During, InStep, ExecTypes, ResultSet, ArtifactSet, Steps, Outputs
<1>14. KeptBefore'
  BY <1>0, <1>a, PlanFacts DEF ExecInv, RefuseWorkspace, runnerVars, WorkspaceReady, KeptBefore,
     Holds, Before, ExecTypes
<1>15. KeptNow'
  BY <1>0, <1>a, PlanFacts DEF ExecInv, RefuseWorkspace, runnerVars, WorkspaceReady, KeptNow,
     Holds, Collected, Before, During, InStep, Fresh, Hashed, ExecTypes, Quiet, Outputs
<1> QED BY <1>1, <1>2, <1>3, <1>4, <1>5, <1>6, <1>7, <1>8, <1>9, <1>10, <1>11, <1>12, <1>13, <1>14,
           <1>15 DEF ExecInv

LEMMA DescribePlanSafe ==
  ASSUME RunnerInv, ExecInv, DescribePlan
  PROVE  ExecInv'
<1>0. PICK P : plan = P
  OBVIOUS
<1>a. plan' = plan
  BY DEF DescribePlan
<1>1. ExecTypes'
  <2>1. commands' \in Seq(CommandSet)
    <3>1. Steps = 1 .. Len(plan.steps) /\ Len(plan.steps) \in Nat
      BY PlanFacts DEF Steps
    <3>2. ASSUME NEW k \in Steps PROVE DockerCommand(k, 0) \in CommandSet
      <4>1. plan.steps[k] \in StepSet
        BY PlanFacts DEF Steps
      <4> QED BY <4>1 DEF DockerCommand, CommandSet, StepSet
    <3> QED BY <3>1, <3>2 DEF DescribePlan
  <2>2. digest' \in Nat
    BY DEF DescribePlan, Workspace, ExecInv, ExecTypes
  <2> QED BY <1>a, <2>1, <2>2, PlanKept DEF DescribePlan, ExecInv, ExecTypes
<1>2. Valid'
  BY <1>0, <1>a, PlanFacts DEF ExecInv, DescribePlan, runnerVars, WorkspaceReady, Workspace, Valid
<1>3. OffUntilStarted'
  BY <1>0, <1>a, PlanFacts DEF ExecInv, DescribePlan, runnerVars, WorkspaceReady, Workspace,
     OffUntilStarted, IsStaged, During, Steps
<1>4. Before'
  BY <1>0, <1>a DEF ExecInv, DescribePlan, runnerVars, WorkspaceReady, Workspace, Before
<1>5. During'
  BY <1>0, <1>a, PlanFacts DEF ExecInv, DescribePlan, runnerVars, WorkspaceReady, Workspace,
     During, Before, InStep, ExecTypes, Steps
<1>6. After'
  BY <1>0, <1>a, PlanFacts DEF ExecInv, DescribePlan, runnerVars, WorkspaceReady, Workspace, After,
     During, InStep, ExecTypes, Steps
<1>7. Planned'
  BY <1>0, <1>a DEF ExecInv, DescribePlan, runnerVars, WorkspaceReady, Workspace, Planned,
     ExecTypes, ResultSet, StepStatuses
<1>8. StatusHolds'
  BY <1>0, <1>a, PlanFacts DEF ExecInv, DescribePlan, runnerVars, WorkspaceReady, Workspace,
     StatusHolds, Before, During, InStep, Collected, ExecTypes, ResultSet, Steps, Outputs, Planned
<1>9. ExitObserved'
  BY <1>0, <1>a DEF ExecInv, DescribePlan, runnerVars, WorkspaceReady, Workspace, ExitObserved,
     Before, ExecTypes, ResultSet, IsStaged
<1>10. Names'
  BY <1>0, <1>a, PlanFacts DEF ExecInv, DescribePlan, runnerVars, WorkspaceReady, Workspace, Names,
     Before, During, InStep, ExecTypes, ResultSet, Planned, Steps, DockerCommand
<1>11. Versions'
  BY <1>0, <1>a DEF ExecInv, DescribePlan, runnerVars, WorkspaceReady, Workspace, Versions,
     ExecTypes, IsStaged, Planned
<1>12. Quiet'
  BY <1>0, <1>a DEF ExecInv, DescribePlan, runnerVars, WorkspaceReady, Workspace, Quiet
<1>13. Collected'
  BY <1>0, <1>a, PlanFacts DEF ExecInv, DescribePlan, runnerVars, WorkspaceReady, Workspace,
     Collected, During, InStep, ExecTypes, ResultSet, ArtifactSet, Steps, Outputs
<1>14. KeptBefore'
  BY <1>0, <1>a, PlanFacts DEF ExecInv, DescribePlan, runnerVars, WorkspaceReady, Workspace,
     KeptBefore, Holds, Before, ExecTypes
<1>15. KeptNow'
  BY <1>0, <1>a, PlanFacts DEF ExecInv, DescribePlan, runnerVars, WorkspaceReady, Workspace,
     KeptNow, Holds, Collected, Before, During, InStep, Fresh, Hashed, ExecTypes, Quiet, Outputs
<1> QED BY <1>1, <1>2, <1>3, <1>4, <1>5, <1>6, <1>7, <1>8, <1>9, <1>10, <1>11, <1>12, <1>13, <1>14,
           <1>15 DEF ExecInv

LEMMA DigestWorkspaceSafe ==
  ASSUME RunnerInv, ExecInv, DigestWorkspace
  PROVE  ExecInv'
<1>0. PICK P : plan = P
  OBVIOUS
<1>a. plan' = plan
  BY DEF DigestWorkspace
<1>1. ExecTypes'
  BY <1>a, PlanKept DEF ExecInv, DigestWorkspace, runnerVars, WorkspaceReady, Workspace, ExecTypes
<1>2. Valid'
  BY <1>0, <1>a, PlanFacts DEF ExecInv, DigestWorkspace, runnerVars, WorkspaceReady, Workspace,
     Valid
<1>3. OffUntilStarted'
  BY <1>0, <1>a, PlanFacts DEF ExecInv, DigestWorkspace, runnerVars, WorkspaceReady, Workspace,
     OffUntilStarted, IsStaged, During, Steps
<1>4. Before'
  BY <1>0, <1>a DEF ExecInv, DigestWorkspace, runnerVars, WorkspaceReady, Workspace, Before
<1>5. During'
  BY <1>0, <1>a, PlanFacts DEF ExecInv, DigestWorkspace, runnerVars, WorkspaceReady, Workspace,
     During, Before, InStep, ExecTypes, Steps
<1>6. After'
  BY <1>0, <1>a, PlanFacts DEF ExecInv, DigestWorkspace, runnerVars, WorkspaceReady, Workspace,
     After, During, InStep, ExecTypes, Steps
<1>7. Planned'
  BY <1>0, <1>a DEF ExecInv, DigestWorkspace, runnerVars, WorkspaceReady, Workspace, Planned,
     ExecTypes, ResultSet, StepStatuses
<1>8. StatusHolds'
  BY <1>0, <1>a, PlanFacts DEF ExecInv, DigestWorkspace, runnerVars, WorkspaceReady, Workspace,
     StatusHolds, Before, During, InStep, Collected, ExecTypes, ResultSet, Steps, Outputs, Planned
<1>9. ExitObserved'
  BY <1>0, <1>a DEF ExecInv, DigestWorkspace, runnerVars, WorkspaceReady, Workspace, ExitObserved,
     Before, ExecTypes, ResultSet, IsStaged
<1>10. Names'
  BY <1>0, <1>a, PlanFacts DEF ExecInv, DigestWorkspace, runnerVars, WorkspaceReady, Workspace,
     Names, Before, During, InStep, ExecTypes, ResultSet, Planned, Steps, DockerCommand
<1>11. Versions'
  BY <1>0, <1>a DEF ExecInv, DigestWorkspace, runnerVars, WorkspaceReady, Workspace, Versions,
     ExecTypes, IsStaged, Planned
<1>12. Quiet'
  BY <1>0, <1>a DEF ExecInv, DigestWorkspace, runnerVars, WorkspaceReady, Workspace, Quiet
<1>13. Collected'
  BY <1>0, <1>a, PlanFacts DEF ExecInv, DigestWorkspace, runnerVars, WorkspaceReady, Workspace,
     Collected, During, InStep, ExecTypes, ResultSet, ArtifactSet, Steps, Outputs
<1>14. KeptBefore'
  BY <1>0, <1>a, PlanFacts DEF ExecInv, DigestWorkspace, runnerVars, WorkspaceReady, Workspace,
     KeptBefore, Holds, Before, ExecTypes
<1>15. KeptNow'
  BY <1>0, <1>a, PlanFacts DEF ExecInv, DigestWorkspace, runnerVars, WorkspaceReady, Workspace,
     KeptNow, Holds, Collected, Before, During, InStep, Fresh, Hashed, ExecTypes, Quiet, Outputs
<1> QED BY <1>1, <1>2, <1>3, <1>4, <1>5, <1>6, <1>7, <1>8, <1>9, <1>10, <1>11, <1>12, <1>13, <1>14,
           <1>15 DEF ExecInv

LEMMA CopyWorkspaceSafe ==
  ASSUME RunnerInv, ExecInv, CopyWorkspace
  PROVE  ExecInv'
<1>0. PICK P : plan = P
  OBVIOUS
<1>a. plan' = plan
  BY DEF CopyWorkspace
<1>1. ExecTypes'
  BY <1>a, PlanKept DEF ExecInv, CopyWorkspace, runnerVars, ExecTypes
<1>2. Valid'
  BY <1>0, <1>a, PlanFacts DEF ExecInv, CopyWorkspace, runnerVars, Valid
<1>3. OffUntilStarted'
  BY <1>0, <1>a, PlanFacts DEF ExecInv, CopyWorkspace, runnerVars, OffUntilStarted, IsStaged,
     During, Steps
<1>4. Before'
  BY <1>0, <1>a DEF ExecInv, CopyWorkspace, runnerVars, Before
<1>5. During'
  BY <1>0, <1>a, PlanFacts DEF ExecInv, CopyWorkspace, runnerVars, During, Before, InStep,
     ExecTypes, Steps
<1>6. After'
  BY <1>0, <1>a, PlanFacts DEF ExecInv, CopyWorkspace, runnerVars, After, During, InStep,
     ExecTypes, Steps
<1>7. Planned'
  BY <1>0, <1>a DEF ExecInv, CopyWorkspace, runnerVars, Planned, ExecTypes, ResultSet, StepStatuses
<1>8. StatusHolds'
  BY <1>0, <1>a, PlanFacts DEF ExecInv, CopyWorkspace, runnerVars, StatusHolds, Before, During,
     InStep, Collected, ExecTypes, ResultSet, Steps, Outputs, Planned
<1>9. ExitObserved'
  BY <1>0, <1>a DEF ExecInv, CopyWorkspace, runnerVars, ExitObserved, Before, ExecTypes, ResultSet,
     IsStaged
<1>10. Names'
  BY <1>0, <1>a, PlanFacts DEF ExecInv, CopyWorkspace, runnerVars, Names, Before, During, InStep,
     ExecTypes, ResultSet, Planned, Steps, DockerCommand
<1>11. Versions'
  BY <1>0, <1>a DEF ExecInv, CopyWorkspace, runnerVars, Versions, ExecTypes, IsStaged, Planned
<1>12. Quiet'
  BY <1>0, <1>a DEF ExecInv, CopyWorkspace, runnerVars, Quiet
<1>13. Collected'
  BY <1>0, <1>a, PlanFacts DEF ExecInv, CopyWorkspace, runnerVars, Collected, During, InStep,
     ExecTypes, ResultSet, ArtifactSet, Steps, Outputs
<1>14. KeptBefore'
  BY <1>0, <1>a, PlanFacts DEF ExecInv, CopyWorkspace, runnerVars, KeptBefore, Holds, Before,
     ExecTypes
<1>15. KeptNow'
  BY <1>0, <1>a, PlanFacts DEF ExecInv, CopyWorkspace, runnerVars, KeptNow, Holds, Collected,
     Before, During, InStep, Fresh, Hashed, ExecTypes, Quiet, Outputs
<1> QED BY <1>1, <1>2, <1>3, <1>4, <1>5, <1>6, <1>7, <1>8, <1>9, <1>10, <1>11, <1>12, <1>13, <1>14,
           <1>15 DEF ExecInv

LEMMA StartStepSafe ==
  ASSUME RunnerInv, ExecInv, StartStep
  PROVE  ExecInv'
<1>0. PICK P : plan = P
  OBVIOUS
<1>a. plan' = plan
  BY DEF StartStep
<1>b. step \in Steps
  BY DEF ExecInv, During, InStep, StartStep
<1>1. ExecTypes'
  <2>1. commands' \in Seq(CommandSet)
    BY <1>b, StepFacts DEF Command, StartStep, ExecInv, ExecTypes
  <2> QED BY <1>a, <2>1, PlanKept DEF StartStep, ExecInv, ExecTypes
<1>2. Valid'
  BY <1>0, <1>a, PlanFacts DEF ExecInv, StartStep, runnerVars, Command, Valid
<1>3. OffUntilStarted'
  BY <1>0, <1>a, PlanFacts DEF ExecInv, StartStep, runnerVars, Command, OffUntilStarted, IsStaged,
     During, Steps
<1>4. Before'
  BY <1>0, <1>a DEF ExecInv, StartStep, runnerVars, Command, Before
<1>5. During'
  BY <1>0, <1>a, PlanFacts DEF ExecInv, StartStep, runnerVars, Command, During, Before, InStep,
     ExecTypes, Steps
<1>6. After'
  BY <1>0, <1>a, PlanFacts DEF ExecInv, StartStep, runnerVars, Command, After, During, InStep,
     ExecTypes, Steps
<1>7. Planned'
  BY <1>0, <1>a DEF ExecInv, StartStep, runnerVars, Command, Planned, ExecTypes, ResultSet,
     StepStatuses
<1>8. StatusHolds'
  BY <1>0, <1>a, PlanFacts DEF ExecInv, StartStep, runnerVars, Command, StatusHolds, Before,
     During, InStep, Collected, ExecTypes, ResultSet, Steps, Outputs, Planned
<1>9. ExitObserved'
  BY <1>0, <1>a DEF ExecInv, StartStep, runnerVars, Command, ExitObserved, Before, ExecTypes,
     ResultSet, IsStaged
<1>10. Names'
  BY <1>0, <1>a, PlanFacts DEF ExecInv, StartStep, runnerVars, Command, Names, Before, During,
     InStep, ExecTypes, ResultSet, Planned, Steps, DockerCommand
<1>11. Versions'
  BY <1>0, <1>a DEF ExecInv, StartStep, runnerVars, Command, Versions, ExecTypes, IsStaged, Planned
<1>12. Quiet'
  BY <1>0, <1>a DEF ExecInv, StartStep, runnerVars, Command, Quiet
<1>13. Collected'
  BY <1>0, <1>a, PlanFacts DEF ExecInv, StartStep, runnerVars, Command, Collected, During, InStep,
     ExecTypes, ResultSet, ArtifactSet, Steps, Outputs
<1>14. KeptBefore'
  BY <1>0, <1>a, PlanFacts DEF ExecInv, StartStep, runnerVars, Command, KeptBefore, Holds, Before,
     ExecTypes
<1>15. KeptNow'
  BY <1>0, <1>a, PlanFacts DEF ExecInv, StartStep, runnerVars, Command, KeptNow, Holds, Collected,
     Before, During, InStep, Fresh, Hashed, ExecTypes, Quiet, Outputs
<1> QED BY <1>1, <1>2, <1>3, <1>4, <1>5, <1>6, <1>7, <1>8, <1>9, <1>10, <1>11, <1>12, <1>13, <1>14,
           <1>15 DEF ExecInv

LEMMA StartFailsSafe ==
  ASSUME RunnerInv, ExecInv, StartFails
  PROVE  ExecInv'
<1>0. PICK P : plan = P
  OBVIOUS
<1>a. plan' = plan
  BY DEF StartFails
<1>b. step \in Steps
  BY DEF ExecInv, During, InStep, StartFails
<1>c. \E s \in StepStatuses : result' = Result(s)
  BY DEF StartFails, StepStatuses
<1>d. result' \in ResultSet /\ result'.artifacts = <<>> /\ DOMAIN result'.artifacts = {}
  BY <1>b, <1>c, StepFacts
<1>1. ExecTypes'
  <2>1. commands' \in Seq(CommandSet)
    BY <1>b, StepFacts DEF Command, StartFails, ExecInv, ExecTypes
  <2> QED BY <1>a, <1>d, <2>1, PlanKept DEF StartFails, ExecInv, ExecTypes
<1>2. Valid'
  BY <1>0, <1>a, PlanFacts DEF ExecInv, StartFails, runnerVars, Command, Result, Valid
<1>3. OffUntilStarted'
  BY <1>0, <1>a, PlanFacts DEF ExecInv, StartFails, runnerVars, Command, Result, OffUntilStarted,
     IsStaged, During, Steps
<1>4. Before'
  BY <1>0, <1>a DEF ExecInv, StartFails, runnerVars, Command, Result, Before
<1>5. During'
  BY <1>0, <1>a, PlanFacts DEF ExecInv, StartFails, runnerVars, Command, Result, During, Before,
     InStep, ExecTypes, Steps
<1>6. After'
  BY <1>0, <1>a, PlanFacts DEF ExecInv, StartFails, runnerVars, Command, Result, After, During,
     InStep, ExecTypes, Steps
<1>7. Planned'
  BY <1>0, <1>a DEF ExecInv, StartFails, runnerVars, Command, Result, Planned, ExecTypes,
     ResultSet, StepStatuses
<1>8. StatusHolds'
  BY <1>0, <1>a, PlanFacts DEF ExecInv, StartFails, runnerVars, Command, Result, StatusHolds,
     Before, During, InStep, Collected, ExecTypes, ResultSet, Steps, Outputs, Planned
<1>9. ExitObserved'
  BY <1>0, <1>a DEF ExecInv, StartFails, runnerVars, Command, Result, ExitObserved, Before,
     ExecTypes, ResultSet, IsStaged
<1>10. Names'
  <2>0. /\ report' = report /\ isolated' = isolated /\ results' = results /\ step' = step
        /\ commands' = Append(commands, DockerCommand(step, isolated))
        /\ result'.id = plan.steps[step].id /\ phase = "steps"
    BY DEF StartFails, Command, Result
  <2>1. commands \in Seq(CommandSet) /\ Len(commands) + 1 = step /\ report # "planned"
    BY <2>0 DEF ExecInv, ExecTypes, During, InStep, Planned
  <2>2. \A k \in DOMAIN commands : commands[k] = DockerCommand(k, isolated)
    BY <2>1 DEF ExecInv, Names
  <2>3. \A k : DockerCommand(k, isolated)' = DockerCommand(k, isolated)
    BY <1>a, <2>0 DEF DockerCommand
  <2>4. \A k \in DOMAIN commands' : commands'[k] = DockerCommand(k, isolated)
    BY <2>0, <2>1, <2>2
  <2>5. \A k \in DOMAIN results : results[k].id = plan.steps[k].id
    BY DEF ExecInv, Names
  <2> QED BY <1>a, <2>0, <2>3, <2>4, <2>5 DEF Names
<1>11. Versions'
  BY <1>0, <1>a DEF ExecInv, StartFails, runnerVars, Command, Result, Versions, ExecTypes,
     IsStaged, Planned
<1>12. Quiet'
  BY <1>0, <1>a DEF ExecInv, StartFails, runnerVars, Command, Result, Quiet
<1>13. Collected'
  BY <1>0, <1>a, PlanFacts DEF ExecInv, StartFails, runnerVars, Command, Result, Collected, During,
     InStep, ExecTypes, ResultSet, ArtifactSet, Steps, Outputs
<1>14. KeptBefore'
  BY <1>0, <1>a, PlanFacts DEF ExecInv, StartFails, runnerVars, Command, Result, KeptBefore, Holds,
     Before, ExecTypes
<1>15. KeptNow'
  BY <1>d DEF KeptNow
<1> QED BY <1>1, <1>2, <1>3, <1>4, <1>5, <1>6, <1>7, <1>8, <1>9, <1>10, <1>11, <1>12, <1>13, <1>14,
           <1>15 DEF ExecInv

LEMMA StepExitsSafe ==
  ASSUME RunnerInv, ExecInv, NEW status \in {"exited0", "exited1"}, StepExits(status)
  PROVE  ExecInv'
<1>0. PICK P : plan = P
  OBVIOUS
<1>a. plan' = plan
  BY DEF StepExits
<1>b. step \in Steps
  BY DEF ExecInv, During, InStep, StepExits
<1>c. \E s \in StepStatuses : result' = Result(s)
  BY DEF StepExits, StepStatuses
<1>d. result' \in ResultSet /\ result'.artifacts = <<>> /\ DOMAIN result'.artifacts = {}
  BY <1>b, <1>c, StepFacts
<1>1. ExecTypes'
  BY <1>a, <1>d, PlanKept DEF StepExits, ExecInv, ExecTypes
<1>2. Valid'
  BY <1>0, <1>a, PlanFacts DEF ExecInv, StepExits, runnerVars, Result, Valid
<1>3. OffUntilStarted'
  BY <1>0, <1>a, PlanFacts DEF ExecInv, StepExits, runnerVars, Result, OffUntilStarted, IsStaged,
     During, Steps
<1>4. Before'
  BY <1>0, <1>a DEF ExecInv, StepExits, runnerVars, Result, Before
<1>5. During'
  BY <1>0, <1>a, PlanFacts DEF ExecInv, StepExits, runnerVars, Result, During, Before, InStep,
     ExecTypes, Steps
<1>6. After'
  BY <1>0, <1>a, PlanFacts DEF ExecInv, StepExits, runnerVars, Result, After, During, InStep,
     ExecTypes, Steps
<1>7. Planned'
  BY <1>0, <1>a DEF ExecInv, StepExits, runnerVars, Result, Planned, ExecTypes, ResultSet,
     StepStatuses
<1>8. StatusHolds'
  BY <1>0, <1>a, PlanFacts DEF ExecInv, StepExits, runnerVars, Result, StatusHolds, Before, During,
     InStep, Collected, ExecTypes, ResultSet, Steps, Outputs, Planned
<1>9. ExitObserved'
  BY <1>0, <1>a DEF ExecInv, StepExits, runnerVars, Result, ExitObserved, Before, ExecTypes,
     ResultSet, IsStaged
<1>10. Names'
  BY <1>0, <1>a, PlanFacts DEF ExecInv, StepExits, runnerVars, Result, Names, Before, During,
     InStep, ExecTypes, ResultSet, Planned, Steps, DockerCommand
<1>11. Versions'
  BY <1>0, <1>a DEF ExecInv, StepExits, runnerVars, Result, Versions, ExecTypes, IsStaged, Planned
<1>12. Quiet'
  BY <1>0, <1>a DEF ExecInv, StepExits, runnerVars, Result, Quiet
<1>13. Collected'
  BY <1>0, <1>a, PlanFacts DEF ExecInv, StepExits, runnerVars, Result, Collected, During, InStep,
     ExecTypes, ResultSet, ArtifactSet, Steps, Outputs
<1>14. KeptBefore'
  BY <1>0, <1>a, PlanFacts DEF ExecInv, StepExits, runnerVars, Result, KeptBefore, Holds, Before,
     ExecTypes
<1>15. KeptNow'
  BY <1>d DEF KeptNow
<1> QED BY <1>1, <1>2, <1>3, <1>4, <1>5, <1>6, <1>7, <1>8, <1>9, <1>10, <1>11, <1>12, <1>13, <1>14,
           <1>15 DEF ExecInv

LEMMA StepTimesOutSafe ==
  ASSUME RunnerInv, ExecInv, NEW removed \in BOOLEAN, StepTimesOut(removed)
  PROVE  ExecInv'
<1>0. PICK P : plan = P
  OBVIOUS
<1>a. plan' = plan
  BY DEF StepTimesOut
<1>b. step \in Steps
  BY DEF ExecInv, During, InStep, StepTimesOut
<1>c. \E s \in StepStatuses : result' = Result(s)
  BY DEF StepTimesOut, StepStatuses
<1>d. result' \in ResultSet /\ result'.artifacts = <<>> /\ DOMAIN result'.artifacts = {}
  BY <1>b, <1>c, StepFacts
<1>1. ExecTypes'
  BY <1>a, <1>d, PlanKept DEF StepTimesOut, ExecInv, ExecTypes
<1>2. Valid'
  BY <1>0, <1>a, PlanFacts DEF ExecInv, StepTimesOut, runnerVars, Result, Valid
<1>3. OffUntilStarted'
  BY <1>0, <1>a, PlanFacts DEF ExecInv, StepTimesOut, runnerVars, Result, OffUntilStarted,
     IsStaged, During, Steps
<1>4. Before'
  BY <1>0, <1>a DEF ExecInv, StepTimesOut, runnerVars, Result, Before
<1>5. During'
  BY <1>0, <1>a, PlanFacts DEF ExecInv, StepTimesOut, runnerVars, Result, During, Before, InStep,
     ExecTypes, Steps
<1>6. After'
  BY <1>0, <1>a, PlanFacts DEF ExecInv, StepTimesOut, runnerVars, Result, After, During, InStep,
     ExecTypes, Steps
<1>7. Planned'
  BY <1>0, <1>a DEF ExecInv, StepTimesOut, runnerVars, Result, Planned, ExecTypes, ResultSet,
     StepStatuses
<1>8. StatusHolds'
  BY <1>0, <1>a, PlanFacts DEF ExecInv, StepTimesOut, runnerVars, Result, StatusHolds, Before,
     During, InStep, Collected, ExecTypes, ResultSet, Steps, Outputs, Planned
<1>9. ExitObserved'
  BY <1>0, <1>a DEF ExecInv, StepTimesOut, runnerVars, Result, ExitObserved, Before, ExecTypes,
     ResultSet, IsStaged
<1>10. Names'
  BY <1>0, <1>a, PlanFacts DEF ExecInv, StepTimesOut, runnerVars, Result, Names, Before, During,
     InStep, ExecTypes, ResultSet, Planned, Steps, DockerCommand
<1>11. Versions'
  BY <1>0, <1>a DEF ExecInv, StepTimesOut, runnerVars, Result, Versions, ExecTypes, IsStaged,
     Planned
<1>12. Quiet'
  BY <1>0, <1>a DEF ExecInv, StepTimesOut, runnerVars, Result, Quiet
<1>13. Collected'
  BY <1>0, <1>a, PlanFacts DEF ExecInv, StepTimesOut, runnerVars, Result, Collected, During,
     InStep, ExecTypes, ResultSet, ArtifactSet, Steps, Outputs
<1>14. KeptBefore'
  BY <1>0, <1>a, PlanFacts DEF ExecInv, StepTimesOut, runnerVars, Result, KeptBefore, Holds,
     Before, ExecTypes
<1>15. KeptNow'
  BY <1>d DEF KeptNow
<1> QED BY <1>1, <1>2, <1>3, <1>4, <1>5, <1>6, <1>7, <1>8, <1>9, <1>10, <1>11, <1>12, <1>13, <1>14,
           <1>15 DEF ExecInv

LEMMA KillFailsSafe ==
  ASSUME RunnerInv, ExecInv, KillFails
  PROVE  ExecInv'
<1>0. PICK P : plan = P
  OBVIOUS
<1>a. plan' = plan
  BY DEF KillFails
<1>1. ExecTypes'
  BY <1>a, PlanKept DEF ExecInv, KillFails, runnerVars, ExecTypes
<1>2. Valid'
  BY <1>0, <1>a, PlanFacts DEF ExecInv, KillFails, runnerVars, Valid
<1>3. OffUntilStarted'
  BY <1>0, <1>a, PlanFacts DEF ExecInv, KillFails, runnerVars, OffUntilStarted, IsStaged, During,
     Steps
<1>4. Before'
  BY <1>0, <1>a DEF ExecInv, KillFails, runnerVars, Before
<1>5. During'
  BY <1>0, <1>a, PlanFacts DEF ExecInv, KillFails, runnerVars, During, Before, InStep, ExecTypes,
     Steps
<1>6. After'
  BY <1>0, <1>a, PlanFacts DEF ExecInv, KillFails, runnerVars, After, During, InStep, ExecTypes,
     Steps
<1>7. Planned'
  BY <1>0, <1>a DEF ExecInv, KillFails, runnerVars, Planned, ExecTypes, ResultSet, StepStatuses
<1>8. StatusHolds'
  BY <1>0, <1>a, PlanFacts DEF ExecInv, KillFails, runnerVars, StatusHolds, Before, During, InStep,
     Collected, ExecTypes, ResultSet, Steps, Outputs, Planned
<1>9. ExitObserved'
  BY <1>0, <1>a DEF ExecInv, KillFails, runnerVars, ExitObserved, Before, ExecTypes, ResultSet,
     IsStaged
<1>10. Names'
  BY <1>0, <1>a, PlanFacts DEF ExecInv, KillFails, runnerVars, Names, Before, During, InStep,
     ExecTypes, ResultSet, Planned, Steps, DockerCommand
<1>11. Versions'
  BY <1>0, <1>a DEF ExecInv, KillFails, runnerVars, Versions, ExecTypes, IsStaged, Planned
<1>12. Quiet'
  BY <1>0, <1>a DEF ExecInv, KillFails, runnerVars, Quiet
<1>13. Collected'
  BY <1>0, <1>a, PlanFacts DEF ExecInv, KillFails, runnerVars, Collected, During, InStep,
     ExecTypes, ResultSet, ArtifactSet, Steps, Outputs
<1>14. KeptBefore'
  BY <1>0, <1>a, PlanFacts DEF ExecInv, KillFails, runnerVars, KeptBefore, Holds, Before, ExecTypes
<1>15. KeptNow'
  BY <1>0, <1>a, PlanFacts DEF ExecInv, KillFails, runnerVars, KeptNow, Holds, Collected, Before,
     During, InStep, Fresh, Hashed, ExecTypes, Quiet, Outputs
<1> QED BY <1>1, <1>2, <1>3, <1>4, <1>5, <1>6, <1>7, <1>8, <1>9, <1>10, <1>11, <1>12, <1>13, <1>14,
           <1>15 DEF ExecInv

LEMMA DirectoryEscapedSafe ==
  ASSUME RunnerInv, ExecInv, DirectoryEscaped
  PROVE  ExecInv'
<1>0. PICK P : plan = P
  OBVIOUS
<1>a. plan' = plan
  BY DEF DirectoryEscaped
<1>b. /\ result' \in ResultSet /\ result'.status # "passed"
      /\ result'.id = result.id /\ result'.artifacts = result.artifacts
  BY StoppedFacts DEF DirectoryEscaped
<1>1. ExecTypes'
  BY <1>a, <1>b, PlanKept DEF DirectoryEscaped, ExecInv, ExecTypes
<1>2. Valid'
  BY <1>0, <1>a, PlanFacts DEF ExecInv, DirectoryEscaped, runnerVars, StopCollecting, Valid
<1>3. OffUntilStarted'
  BY <1>0, <1>a, PlanFacts DEF ExecInv, DirectoryEscaped, runnerVars, StopCollecting,
     OffUntilStarted, IsStaged, During, Steps
<1>4. Before'
  BY <1>0, <1>a DEF ExecInv, DirectoryEscaped, runnerVars, StopCollecting, Before
<1>5. During'
  BY <1>0, <1>a, PlanFacts DEF ExecInv, DirectoryEscaped, runnerVars, StopCollecting, During,
     Before, InStep, ExecTypes, Steps
<1>6. After'
  BY <1>0, <1>a, PlanFacts DEF ExecInv, DirectoryEscaped, runnerVars, StopCollecting, After,
     During, InStep, ExecTypes, Steps
<1>7. Planned'
  BY <1>0, <1>a DEF ExecInv, DirectoryEscaped, runnerVars, StopCollecting, Planned, ExecTypes,
     ResultSet, StepStatuses
<1>8. StatusHolds'
  BY <1>0, <1>a, PlanFacts DEF ExecInv, DirectoryEscaped, runnerVars, StopCollecting, StatusHolds,
     Before, During, InStep, Collected, ExecTypes, ResultSet, Steps, Outputs, Planned
<1>9. ExitObserved'
  BY <1>0, <1>a DEF ExecInv, DirectoryEscaped, runnerVars, StopCollecting, ExitObserved, Before,
     ExecTypes, ResultSet, IsStaged
<1>10. Names'
  BY <1>0, <1>a, PlanFacts DEF ExecInv, DirectoryEscaped, runnerVars, StopCollecting, Names,
     Before, During, InStep, ExecTypes, ResultSet, Planned, Steps, DockerCommand
<1>11. Versions'
  BY <1>0, <1>a DEF ExecInv, DirectoryEscaped, runnerVars, StopCollecting, Versions, ExecTypes,
     IsStaged, Planned
<1>12. Quiet'
  BY <1>0, <1>a DEF ExecInv, DirectoryEscaped, runnerVars, StopCollecting, Quiet
<1>13. Collected'
  BY <1>0, <1>a, PlanFacts DEF ExecInv, DirectoryEscaped, runnerVars, StopCollecting, Collected,
     During, InStep, ExecTypes, ResultSet, ArtifactSet, Steps, Outputs
<1>14. KeptBefore'
  BY <1>0, <1>a, PlanFacts DEF ExecInv, DirectoryEscaped, runnerVars, StopCollecting, KeptBefore,
     Holds, Before, ExecTypes
<1>15. KeptNow'
  BY <1>b DEF ExecInv, DirectoryEscaped, Collecting, StopCollecting, KeptNow, Holds, Fresh, InStep
<1> QED BY <1>1, <1>2, <1>3, <1>4, <1>5, <1>6, <1>7, <1>8, <1>9, <1>10, <1>11, <1>12, <1>13, <1>14,
           <1>15 DEF ExecInv

LEMMA OutputMissingSafe ==
  ASSUME RunnerInv, ExecInv, OutputMissing
  PROVE  ExecInv'
<1>0. PICK P : plan = P
  OBVIOUS
<1>a. plan' = plan
  BY DEF OutputMissing
<1>b. /\ result' \in ResultSet /\ result'.status # "passed"
      /\ result'.id = result.id /\ result'.artifacts = result.artifacts
  BY StoppedFacts DEF OutputMissing
<1>1. ExecTypes'
  BY <1>a, <1>b, PlanKept DEF OutputMissing, ExecInv, ExecTypes
<1>2. Valid'
  BY <1>0, <1>a, PlanFacts DEF ExecInv, OutputMissing, runnerVars, Collecting, StopCollecting, Valid
<1>3. OffUntilStarted'
  BY <1>0, <1>a, PlanFacts DEF ExecInv, OutputMissing, runnerVars, Collecting, StopCollecting,
     OffUntilStarted, IsStaged, During, Steps
<1>4. Before'
  BY <1>0, <1>a DEF ExecInv, OutputMissing, runnerVars, Collecting, StopCollecting, Before
<1>5. During'
  BY <1>0, <1>a, PlanFacts DEF ExecInv, OutputMissing, runnerVars, Collecting, StopCollecting,
     During, Before, InStep, ExecTypes, Steps
<1>6. After'
  BY <1>0, <1>a, PlanFacts DEF ExecInv, OutputMissing, runnerVars, Collecting, StopCollecting,
     After, During, InStep, ExecTypes, Steps
<1>7. Planned'
  BY <1>0, <1>a DEF ExecInv, OutputMissing, runnerVars, Collecting, StopCollecting, Planned,
     ExecTypes, ResultSet, StepStatuses
<1>8. StatusHolds'
  BY <1>0, <1>a, PlanFacts DEF ExecInv, OutputMissing, runnerVars, Collecting, StopCollecting,
     StatusHolds, Before, During, InStep, Collected, ExecTypes, ResultSet, Steps, Outputs, Planned
<1>9. ExitObserved'
  BY <1>0, <1>a DEF ExecInv, OutputMissing, runnerVars, Collecting, StopCollecting, ExitObserved,
     Before, ExecTypes, ResultSet, IsStaged
<1>10. Names'
  BY <1>0, <1>a, PlanFacts DEF ExecInv, OutputMissing, runnerVars, Collecting, StopCollecting,
     Names, Before, During, InStep, ExecTypes, ResultSet, Planned, Steps, DockerCommand
<1>11. Versions'
  BY <1>0, <1>a DEF ExecInv, OutputMissing, runnerVars, Collecting, StopCollecting, Versions,
     ExecTypes, IsStaged, Planned
<1>12. Quiet'
  BY <1>0, <1>a DEF ExecInv, OutputMissing, runnerVars, Collecting, StopCollecting, Quiet
<1>13. Collected'
  BY <1>0, <1>a, PlanFacts DEF ExecInv, OutputMissing, runnerVars, Collecting, StopCollecting,
     Collected, During, InStep, ExecTypes, ResultSet, ArtifactSet, Steps, Outputs
<1>14. KeptBefore'
  BY <1>0, <1>a, PlanFacts DEF ExecInv, OutputMissing, runnerVars, Collecting, StopCollecting,
     KeptBefore, Holds, Before, ExecTypes
<1>15. KeptNow'
  BY <1>b DEF ExecInv, OutputMissing, Collecting, StopCollecting, KeptNow, Holds, Fresh, InStep
<1> QED BY <1>1, <1>2, <1>3, <1>4, <1>5, <1>6, <1>7, <1>8, <1>9, <1>10, <1>11, <1>12, <1>13, <1>14,
           <1>15 DEF ExecInv

LEMMA OutputRefusedSafe ==
  ASSUME RunnerInv, ExecInv, OutputRefused
  PROVE  ExecInv'
<1>0. PICK P : plan = P
  OBVIOUS
<1>a. plan' = plan
  BY DEF OutputRefused
<1>b. /\ result' \in ResultSet /\ result'.status # "passed"
      /\ result'.id = result.id /\ result'.artifacts = result.artifacts
  BY StoppedFacts DEF OutputRefused
<1>1. ExecTypes'
  BY <1>a, <1>b, PlanKept DEF OutputRefused, ExecInv, ExecTypes
<1>2. Valid'
  BY <1>0, <1>a, PlanFacts DEF ExecInv, OutputRefused, runnerVars, Collecting, StopCollecting, Valid
<1>3. OffUntilStarted'
  BY <1>0, <1>a, PlanFacts DEF ExecInv, OutputRefused, runnerVars, Collecting, StopCollecting,
     OffUntilStarted, IsStaged, During, Steps
<1>4. Before'
  BY <1>0, <1>a DEF ExecInv, OutputRefused, runnerVars, Collecting, StopCollecting, Before
<1>5. During'
  BY <1>0, <1>a, PlanFacts DEF ExecInv, OutputRefused, runnerVars, Collecting, StopCollecting,
     During, Before, InStep, ExecTypes, Steps
<1>6. After'
  BY <1>0, <1>a, PlanFacts DEF ExecInv, OutputRefused, runnerVars, Collecting, StopCollecting,
     After, During, InStep, ExecTypes, Steps
<1>7. Planned'
  BY <1>0, <1>a DEF ExecInv, OutputRefused, runnerVars, Collecting, StopCollecting, Planned,
     ExecTypes, ResultSet, StepStatuses
<1>8. StatusHolds'
  BY <1>0, <1>a, PlanFacts DEF ExecInv, OutputRefused, runnerVars, Collecting, StopCollecting,
     StatusHolds, Before, During, InStep, Collected, ExecTypes, ResultSet, Steps, Outputs, Planned
<1>9. ExitObserved'
  BY <1>0, <1>a DEF ExecInv, OutputRefused, runnerVars, Collecting, StopCollecting, ExitObserved,
     Before, ExecTypes, ResultSet, IsStaged
<1>10. Names'
  BY <1>0, <1>a, PlanFacts DEF ExecInv, OutputRefused, runnerVars, Collecting, StopCollecting,
     Names, Before, During, InStep, ExecTypes, ResultSet, Planned, Steps, DockerCommand
<1>11. Versions'
  BY <1>0, <1>a DEF ExecInv, OutputRefused, runnerVars, Collecting, StopCollecting, Versions,
     ExecTypes, IsStaged, Planned
<1>12. Quiet'
  BY <1>0, <1>a DEF ExecInv, OutputRefused, runnerVars, Collecting, StopCollecting, Quiet
<1>13. Collected'
  BY <1>0, <1>a, PlanFacts DEF ExecInv, OutputRefused, runnerVars, Collecting, StopCollecting,
     Collected, During, InStep, ExecTypes, ResultSet, ArtifactSet, Steps, Outputs
<1>14. KeptBefore'
  BY <1>0, <1>a, PlanFacts DEF ExecInv, OutputRefused, runnerVars, Collecting, StopCollecting,
     KeptBefore, Holds, Before, ExecTypes
<1>15. KeptNow'
  BY <1>b DEF ExecInv, OutputRefused, Collecting, StopCollecting, KeptNow, Holds, Fresh, InStep
<1> QED BY <1>1, <1>2, <1>3, <1>4, <1>5, <1>6, <1>7, <1>8, <1>9, <1>10, <1>11, <1>12, <1>13, <1>14,
           <1>15 DEF ExecInv

LEMMA HashOutputSafe ==
  ASSUME RunnerInv, ExecInv, HashOutput
  PROVE  ExecInv'
<1>0. PICK P : plan = P
  OBVIOUS
<1>a. plan' = plan
  BY DEF HashOutput
<1>b. step \in Steps
  BY DEF ExecInv, During, InStep, HashOutput, Collecting
<1>c. /\ Output \in STRING /\ files[Output] \in Nat
      /\ Len(result.artifacts) \in Nat /\ Len(result.artifacts) + 1 \in DOMAIN Outputs(step)
      /\ result \in ResultSet /\ result.artifacts \in Seq(ArtifactSet)
  <2>1. result \in ResultSet /\ files \in [Paths -> Nat]
    BY DEF ExecInv, ExecTypes
  <2>2. result.artifacts \in Seq(ArtifactSet) /\ Len(result.artifacts) \in Nat
    BY <2>1 DEF ResultSet
  <2>3. Outputs(step) \in Seq(STRING) /\ Len(result.artifacts) < Len(Outputs(step))
    BY <1>b, StepFacts DEF HashOutput, Collecting
  <2>4. Len(result.artifacts) + 1 \in DOMAIN Outputs(step)
    BY <2>2, <2>3
  <2>5. Output \in STRING /\ Output \in Paths
    BY <1>b, <2>3, <2>4 DEF Output, Paths
  <2> QED BY <2>1, <2>2, <2>4, <2>5
<1>d. /\ result' \in ResultSet
      /\ result'.id = result.id /\ result'.status = result.status
      /\ result'.artifacts = Append(result.artifacts, Artifact(Output, files[Output]))
  <2>1. Artifact(Output, files[Output]) \in ArtifactSet
    BY <1>c DEF Artifact, ArtifactSet
  <2>2. Append(result.artifacts, Artifact(Output, files[Output])) \in Seq(ArtifactSet)
    BY <1>c, <2>1
  <2> QED BY <1>c, <2>2 DEF HashOutput, ResultSet
<1>e. /\ Len(result'.artifacts) = Len(result.artifacts) + 1
      /\ \A a \in DOMAIN result.artifacts : result'.artifacts[a] = result.artifacts[a]
      /\ result'.artifacts[Len(result.artifacts) + 1] = Artifact(Output, files[Output])
      /\ DOMAIN result'.artifacts = DOMAIN result.artifacts \cup {Len(result.artifacts) + 1}
  BY <1>c, <1>d
<1>f. UNCHANGED <<files, retained, step, survivors>> /\ phase = "collect" /\ phase' = "retain"
      /\ Outputs(step)' = Outputs(step)
  BY <1>a DEF HashOutput, Collecting, Outputs
<1>1. ExecTypes'
  BY <1>a, <1>d, PlanKept DEF HashOutput, ExecInv, ExecTypes
<1>2. Valid'
  BY <1>0, <1>a, PlanFacts DEF ExecInv, HashOutput, runnerVars, Collecting, Output, Artifact, Valid
<1>3. OffUntilStarted'
  BY <1>0, <1>a, PlanFacts DEF ExecInv, HashOutput, runnerVars, Collecting, Output, Artifact,
     OffUntilStarted, IsStaged, During, Steps
<1>4. Before'
  BY <1>0, <1>a DEF ExecInv, HashOutput, runnerVars, Collecting, Output, Artifact, Before
<1>5. During'
  BY <1>0, <1>a, PlanFacts DEF ExecInv, HashOutput, runnerVars, Collecting, Output, Artifact,
     During, Before, InStep, ExecTypes, Steps
<1>6. After'
  BY <1>0, <1>a, PlanFacts DEF ExecInv, HashOutput, runnerVars, Collecting, Output, Artifact,
     After, During, InStep, ExecTypes, Steps
<1>7. Planned'
  BY <1>0, <1>a DEF ExecInv, HashOutput, runnerVars, Collecting, Output, Artifact, Planned,
     ExecTypes, ResultSet, StepStatuses
<1>8. StatusHolds'
  BY <1>0, <1>a, PlanFacts DEF ExecInv, HashOutput, runnerVars, Collecting, Output, Artifact,
     StatusHolds, Before, During, InStep, Collected, ExecTypes, ResultSet, Steps, Outputs, Planned
<1>9. ExitObserved'
  BY <1>0, <1>a DEF ExecInv, HashOutput, runnerVars, Collecting, Output, Artifact, ExitObserved,
     Before, ExecTypes, ResultSet, IsStaged
<1>10. Names'
  BY <1>0, <1>a, PlanFacts DEF ExecInv, HashOutput, runnerVars, Collecting, Output, Artifact,
     Names, Before, During, InStep, ExecTypes, ResultSet, Planned, Steps, DockerCommand
<1>11. Versions'
  BY <1>0, <1>a DEF ExecInv, HashOutput, runnerVars, Collecting, Output, Artifact, Versions,
     ExecTypes, IsStaged, Planned
<1>12. Quiet'
  BY <1>0, <1>a DEF ExecInv, HashOutput, runnerVars, Collecting, Output, Artifact, Quiet
<1>13. Collected'
  <2>1. Len(result'.artifacts) <= Len(Outputs(step))
    BY <1>b, <1>c, <1>e, StepFacts
  <2>2. \A a \in DOMAIN result.artifacts : result.artifacts[a].path = Outputs(step)[a]
    BY <1>f DEF ExecInv, Collected, InStep
  <2>3. Artifact(Output, files[Output]).path = Outputs(step)[Len(result.artifacts) + 1]
    BY DEF Artifact, Output
  <2>4. result'.artifacts # <<>>
    BY <1>c, <1>e
  <2> QED BY <1>e, <1>f, <2>1, <2>2, <2>3, <2>4 DEF Collected
<1>14. KeptBefore'
  BY <1>0, <1>a, PlanFacts DEF ExecInv, HashOutput, runnerVars, Collecting, Output, Artifact,
     KeptBefore, Holds, Before, ExecTypes
<1>15. KeptNow'
  <2> SUFFICES ASSUME survivors = {}, plan.keeps, NEW a \in DOMAIN result'.artifacts
               PROVE  IF a = Len(result'.artifacts) THEN result'.artifacts[a].hash = files[Hashed']
                      ELSE Holds(<<result.id, result'.artifacts[a].path>>,
                                 result'.artifacts[a].hash)
    BY <1>a, <1>d, <1>f DEF KeptNow, Fresh, Holds
  <2>1. CASE a = Len(result'.artifacts)
    <3>1. Hashed' = Output
      BY <1>e, <1>f DEF Hashed, Output
    <3> QED BY <1>e, <2>1, <3>1 DEF Artifact
  <2>2. CASE a # Len(result'.artifacts)
    <3>1. a \in DOMAIN result.artifacts
      BY <1>e, <2>2
    <3>2. Holds(<<result.id, result.artifacts[a].path>>, result.artifacts[a].hash)
      BY <1>f, <3>1 DEF ExecInv, KeptNow, Fresh, InStep
    <3> QED BY <1>e, <2>2, <3>1, <3>2
  <2> QED BY <2>1, <2>2
<1> QED BY <1>1, <1>2, <1>3, <1>4, <1>5, <1>6, <1>7, <1>8, <1>9, <1>10, <1>11, <1>12, <1>13, <1>14,
           <1>15 DEF ExecInv

LEMMA RetainOutputSafe ==
  ASSUME RunnerInv, ExecInv, RetainOutput
  PROVE  ExecInv'
<1>0. PICK P : plan = P
  OBVIOUS
<1>a. plan' = plan
  BY DEF RetainOutput
<1>b. step \in Steps
  BY DEF ExecInv, During, InStep, RetainOutput
<1>c. /\ result \in ResultSet /\ result.artifacts \in Seq(ArtifactSet)
      /\ Len(result.artifacts) \in DOMAIN result.artifacts
      /\ Len(result.artifacts) \in DOMAIN Outputs(step)
  <2>1. result \in ResultSet
    BY DEF ExecInv, ExecTypes
  <2>2. result.artifacts \in Seq(ArtifactSet)
    BY <2>1 DEF ResultSet
  <2>3. result.artifacts # <<>> /\ Len(result.artifacts) <= Len(Outputs(step))
    BY DEF RetainOutput, ExecInv, Collected, InStep
  <2> QED BY <1>b, <2>1, <2>2, <2>3, StepFacts
<1>d. /\ retained' \in [Slots -> Nat]
      /\ plan.keeps => retained' = [retained EXCEPT ![<<plan.steps[step].id, Hashed>>] = files[Hashed]]
  <2>1. Hashed \in Paths
    BY <1>b, <1>c DEF Hashed, Paths
  <2>2. files[Hashed] \in Nat
    BY <2>1 DEF ExecInv, ExecTypes
  <2> QED BY <2>2 DEF RetainOutput, ExecInv, ExecTypes
<1>e. /\ <<plan.steps[step].id, Hashed>> \in Slots
      /\ retained \in [Slots -> Nat]
  BY <1>b, <1>c DEF Hashed, Slots, ExecInv, ExecTypes
<1>f. /\ UNCHANGED <<files, step, survivors, result, results>> /\ phase = "retain" /\ phase' = "collect"
      /\ result.id = plan.steps[step].id
  BY DEF RetainOutput, ExecInv, Names, InStep
<1>1. ExecTypes'
  BY <1>a, <1>d, PlanKept DEF RetainOutput, ExecInv, ExecTypes
<1>2. Valid'
  BY <1>0, <1>a, PlanFacts DEF ExecInv, RetainOutput, runnerVars, Valid
<1>3. OffUntilStarted'
  BY <1>0, <1>a, PlanFacts DEF ExecInv, RetainOutput, runnerVars, OffUntilStarted, IsStaged,
     During, Steps
<1>4. Before'
  BY <1>0, <1>a DEF ExecInv, RetainOutput, runnerVars, Before
<1>5. During'
  BY <1>0, <1>a, PlanFacts DEF ExecInv, RetainOutput, runnerVars, During, Before, InStep,
     ExecTypes, Steps
<1>6. After'
  BY <1>0, <1>a, PlanFacts DEF ExecInv, RetainOutput, runnerVars, After, During, InStep, ExecTypes,
     Steps
<1>7. Planned'
  BY <1>0, <1>a DEF ExecInv, RetainOutput, runnerVars, Planned, ExecTypes, ResultSet, StepStatuses
<1>8. StatusHolds'
  BY <1>0, <1>a, PlanFacts DEF ExecInv, RetainOutput, runnerVars, StatusHolds, Before, During,
     InStep, Collected, ExecTypes, ResultSet, Steps, Outputs, Planned
<1>9. ExitObserved'
  BY <1>0, <1>a DEF ExecInv, RetainOutput, runnerVars, ExitObserved, Before, ExecTypes, ResultSet,
     IsStaged
<1>10. Names'
  BY <1>0, <1>a, PlanFacts DEF ExecInv, RetainOutput, runnerVars, Names, Before, During, InStep,
     ExecTypes, ResultSet, Planned, Steps, DockerCommand
<1>11. Versions'
  BY <1>0, <1>a DEF ExecInv, RetainOutput, runnerVars, Versions, ExecTypes, IsStaged, Planned
<1>12. Quiet'
  BY <1>0, <1>a DEF ExecInv, RetainOutput, runnerVars, Quiet
<1>13. Collected'
  BY <1>0, <1>a, PlanFacts DEF ExecInv, RetainOutput, runnerVars, Collected, During, InStep,
     ExecTypes, ResultSet, ArtifactSet, Steps, Outputs
<1>14. KeptBefore'
  <2> SUFFICES ASSUME survivors = {}, plan.keeps,
                      NEW k \in DOMAIN results, NEW a \in DOMAIN results[k].artifacts
               PROVE  Holds(<<results[k].id, results[k].artifacts[a].path>>,
                            results[k].artifacts[a].hash)'
    BY <1>a, <1>f DEF KeptBefore, Holds
  <2>1. Holds(<<results[k].id, results[k].artifacts[a].path>>, results[k].artifacts[a].hash)
    BY DEF ExecInv, KeptBefore
  <2>2. results[k].id # plan.steps[step].id
    <3>1. k # step /\ k \in Steps
      BY <1>b, <1>f, PlanFacts DEF ExecInv, During, InStep, ExecTypes, Steps
    <3>2. results[k].id = plan.steps[k].id
      BY DEF ExecInv, Names
    <3>3. DistinctIds(plan.steps)
      BY <1>f, PlanFacts
    <3> QED BY <1>b, <3>1, <3>2, <3>3 DEF DistinctIds, Steps
  <2>3. <<results[k].id, results[k].artifacts[a].path>> # <<plan.steps[step].id, Hashed>>
    BY <2>2
  <2> QED BY <1>d, <1>e, <1>f, <2>1, <2>3 DEF Holds
<1>15. KeptNow'
  <2> SUFFICES ASSUME survivors = {}, plan.keeps, NEW a \in DOMAIN result.artifacts
               PROVE  Holds(<<result.id, result.artifacts[a].path>>, result.artifacts[a].hash)'
    BY <1>a, <1>f DEF KeptNow, Fresh, Holds
  <2>0. result.artifacts[a].path = Outputs(step)[a] /\ a \in DOMAIN Outputs(step)
    BY <1>b, <1>c, <1>f, StepFacts DEF ExecInv, Collected, InStep
  <2>1. CASE a = Len(result.artifacts)
    <3>1. result.artifacts[a].hash = files[Hashed]
      BY <1>f, <2>1 DEF ExecInv, KeptNow, Fresh, InStep
    <3>2. result.artifacts[a].path = Hashed
      BY <2>0, <2>1 DEF Hashed
    <3> QED BY <1>d, <1>e, <1>f, <3>1, <3>2 DEF Holds
  <2>2. CASE a # Len(result.artifacts)
    <3>1. Holds(<<result.id, result.artifacts[a].path>>, result.artifacts[a].hash)
      BY <1>f, <2>2 DEF ExecInv, KeptNow, Fresh, InStep
    <3>2. Distinct(Outputs(step))
      BY <1>b, <1>f, PlanFacts
    <3>3. result.artifacts[a].path # Hashed
      <4>1. Outputs(step)[a] # Outputs(step)[Len(result.artifacts)]
        BY <1>c, <2>0, <2>2, <3>2 DEF Distinct
      <4> QED BY <2>0, <4>1 DEF Hashed
    <3>4. <<result.id, result.artifacts[a].path>> # <<plan.steps[step].id, Hashed>>
      BY <3>3
    <3> QED BY <1>d, <1>e, <1>f, <3>1, <3>4 DEF Holds
  <2> QED BY <2>1, <2>2
<1> QED BY <1>1, <1>2, <1>3, <1>4, <1>5, <1>6, <1>7, <1>8, <1>9, <1>10, <1>11, <1>12, <1>13, <1>14,
           <1>15 DEF ExecInv

LEMMA CollectFailsSafe ==
  ASSUME RunnerInv, ExecInv, CollectFails
  PROVE  ExecInv'
<1>0. PICK P : plan = P
  OBVIOUS
<1>a. plan' = plan
  BY DEF CollectFails
<1>1. ExecTypes'
  BY <1>a, PlanKept DEF ExecInv, CollectFails, runnerVars, ExecTypes
<1>2. Valid'
  BY <1>0, <1>a, PlanFacts DEF ExecInv, CollectFails, runnerVars, Valid
<1>3. OffUntilStarted'
  BY <1>0, <1>a, PlanFacts DEF ExecInv, CollectFails, runnerVars, OffUntilStarted, IsStaged,
     During, Steps
<1>4. Before'
  BY <1>0, <1>a DEF ExecInv, CollectFails, runnerVars, Before
<1>5. During'
  BY <1>0, <1>a, PlanFacts DEF ExecInv, CollectFails, runnerVars, During, Before, InStep,
     ExecTypes, Steps
<1>6. After'
  BY <1>0, <1>a, PlanFacts DEF ExecInv, CollectFails, runnerVars, After, During, InStep, ExecTypes,
     Steps
<1>7. Planned'
  BY <1>0, <1>a DEF ExecInv, CollectFails, runnerVars, Planned, ExecTypes, ResultSet, StepStatuses
<1>8. StatusHolds'
  BY <1>0, <1>a, PlanFacts DEF ExecInv, CollectFails, runnerVars, StatusHolds, Before, During,
     InStep, Collected, ExecTypes, ResultSet, Steps, Outputs, Planned
<1>9. ExitObserved'
  BY <1>0, <1>a DEF ExecInv, CollectFails, runnerVars, ExitObserved, Before, ExecTypes, ResultSet,
     IsStaged
<1>10. Names'
  BY <1>0, <1>a, PlanFacts DEF ExecInv, CollectFails, runnerVars, Names, Before, During, InStep,
     ExecTypes, ResultSet, Planned, Steps, DockerCommand
<1>11. Versions'
  BY <1>0, <1>a DEF ExecInv, CollectFails, runnerVars, Versions, ExecTypes, IsStaged, Planned
<1>12. Quiet'
  BY <1>0, <1>a DEF ExecInv, CollectFails, runnerVars, Quiet
<1>13. Collected'
  BY <1>0, <1>a, PlanFacts DEF ExecInv, CollectFails, runnerVars, Collected, During, InStep,
     ExecTypes, ResultSet, ArtifactSet, Steps, Outputs
<1>14. KeptBefore'
  BY <1>0, <1>a, PlanFacts DEF ExecInv, CollectFails, runnerVars, KeptBefore, Holds, Before,
     ExecTypes
<1>15. KeptNow'
  BY <1>0, <1>a, PlanFacts DEF ExecInv, CollectFails, runnerVars, KeptNow, Holds, Collected,
     Before, During, InStep, Fresh, Hashed, ExecTypes, Quiet, Outputs
<1> QED BY <1>1, <1>2, <1>3, <1>4, <1>5, <1>6, <1>7, <1>8, <1>9, <1>10, <1>11, <1>12, <1>13, <1>14,
           <1>15 DEF ExecInv

LEMMA AllCollectedSafe ==
  ASSUME RunnerInv, ExecInv, AllCollected
  PROVE  ExecInv'
<1>0. PICK P : plan = P
  OBVIOUS
<1>a. plan' = plan
  BY DEF AllCollected
<1>1. ExecTypes'
  BY <1>a, PlanKept DEF ExecInv, AllCollected, runnerVars, ExecTypes
<1>2. Valid'
  BY <1>0, <1>a, PlanFacts DEF ExecInv, AllCollected, runnerVars, Valid
<1>3. OffUntilStarted'
  BY <1>0, <1>a, PlanFacts DEF ExecInv, AllCollected, runnerVars, OffUntilStarted, IsStaged,
     During, Steps
<1>4. Before'
  BY <1>0, <1>a DEF ExecInv, AllCollected, runnerVars, Before
<1>5. During'
  BY <1>0, <1>a, PlanFacts DEF ExecInv, AllCollected, runnerVars, During, Before, InStep,
     ExecTypes, Steps
<1>6. After'
  BY <1>0, <1>a, PlanFacts DEF ExecInv, AllCollected, runnerVars, After, During, InStep, ExecTypes,
     Steps
<1>7. Planned'
  BY <1>0, <1>a DEF ExecInv, AllCollected, runnerVars, Planned, ExecTypes, ResultSet, StepStatuses
<1>8. StatusHolds'
  BY <1>0, <1>a, PlanFacts DEF ExecInv, AllCollected, runnerVars, StatusHolds, Before, During,
     InStep, Collected, ExecTypes, ResultSet, Steps, Outputs, Planned
<1>9. ExitObserved'
  BY <1>0, <1>a DEF ExecInv, AllCollected, runnerVars, ExitObserved, Before, ExecTypes, ResultSet,
     IsStaged
<1>10. Names'
  BY <1>0, <1>a, PlanFacts DEF ExecInv, AllCollected, runnerVars, Names, Before, During, InStep,
     ExecTypes, ResultSet, Planned, Steps, DockerCommand
<1>11. Versions'
  BY <1>0, <1>a DEF ExecInv, AllCollected, runnerVars, Versions, ExecTypes, IsStaged, Planned
<1>12. Quiet'
  BY <1>0, <1>a DEF ExecInv, AllCollected, runnerVars, Quiet
<1>13. Collected'
  BY <1>0, <1>a, PlanFacts DEF ExecInv, AllCollected, runnerVars, Collected, During, InStep,
     ExecTypes, ResultSet, ArtifactSet, Steps, Outputs
<1>14. KeptBefore'
  BY <1>0, <1>a, PlanFacts DEF ExecInv, AllCollected, runnerVars, KeptBefore, Holds, Before,
     ExecTypes
<1>15. KeptNow'
  BY <1>0, <1>a, PlanFacts DEF ExecInv, AllCollected, runnerVars, KeptNow, Holds, Collected,
     Before, During, InStep, Fresh, Hashed, ExecTypes, Quiet, Outputs
<1> QED BY <1>1, <1>2, <1>3, <1>4, <1>5, <1>6, <1>7, <1>8, <1>9, <1>10, <1>11, <1>12, <1>13, <1>14,
           <1>15 DEF ExecInv

LEMMA EndStepSafe ==
  ASSUME RunnerInv, ExecInv, EndStep
  PROVE  ExecInv'
<1>0. PICK P : plan = P
  OBVIOUS
<1>a. plan' = plan
  BY DEF EndStep
<1>b. step \in Steps
  BY DEF ExecInv, During, InStep, EndStep
<1>c. /\ results \in Seq(ResultSet) /\ result \in ResultSet /\ step \in Nat
      /\ Len(results) = step - 1 /\ Len(commands) = step
      /\ result.id = plan.steps[step].id
      /\ plan.steps \in Seq(StepSet)
  BY PlanFacts DEF EndStep, ExecInv, ExecTypes, During, InStep, Names
<1>d. /\ results' \in Seq(ResultSet) /\ Len(results') = step
      /\ DOMAIN results' = DOMAIN results \cup {step} /\ results'[step] = result
      /\ \A k \in DOMAIN results : results'[k] = results[k]
  BY <1>c DEF EndStep
<1>e. /\ result' \in ResultSet /\ result'.status = "pending"
      /\ report' = IF result.status = "passed" THEN report ELSE result.status
      /\ result.status \in StepStatuses
      /\ \/ phase' = "steps" /\ step' = step + 1 /\ step < Len(plan.steps)
         \/ phase' = "done" /\ step' = step /\ (result.status = "passed" => step = Len(plan.steps))
      /\ phase = "record"
      /\ UNCHANGED <<runner, exit, container, commands, survivors, retained, source, staged, digest, isolated>>
  <2>1. step <= Len(plan.steps)
    BY <1>b, <1>c DEF Steps
  <2> QED BY <1>b, <1>c, <2>1, StepFacts DEF EndStep, Goes, ReportAfter, ResultSet, runnerVars
<1>1. ExecTypes'
  BY <1>a, <1>b, <1>c, <1>d, <1>e, PlanKept DEF EndStep, ExecInv, ExecTypes
<1>2. Valid'
  BY <1>0, <1>a, PlanFacts DEF ExecInv, EndStep, runnerVars, Goes, ReportAfter, Pending, Valid
<1>3. OffUntilStarted'
  <2>1. IsStaged => phase' = "done"
    <3>1. IsStaged => step = 1 /\ Len(plan.steps) = 1
      BY <1>b, <1>c, PlanFacts DEF Steps
    <3>2. IsStaged => Len(plan.steps) = step
      BY <3>1
    <3> QED BY <1>c, <1>e, <3>2
  <2>2. ~IsStaged => runner = "off"
    BY DEF ExecInv, OffUntilStarted
  <2> QED BY <1>a, <1>e, <2>1, <2>2, PlanKept DEF OffUntilStarted
<1>4. Before'
  BY <1>0, <1>a DEF ExecInv, EndStep, runnerVars, Goes, ReportAfter, Pending, Before
<1>5. During'
  BY <1>a, <1>b, <1>c, <1>d, <1>e, PlanKept DEF During, InStep, Steps
<1>6. After'
  BY <1>a, <1>b, <1>c, <1>d, <1>e, PlanKept DEF After, ExecInv, StepStatuses
<1>7. Planned'
  BY <1>0, <1>a DEF ExecInv, EndStep, runnerVars, Goes, ReportAfter, Pending, Planned, ExecTypes,
     ResultSet, StepStatuses
<1>8. StatusHolds'
  <2>1. \A k \in DOMAIN results' : results'[k].status = "passed" =>
          Len(results'[k].artifacts) = Len(Outputs(k)')
    BY <1>a, <1>d, <1>e DEF ExecInv, StatusHolds, Outputs
  <2>2. report' = "passed" => \A k \in DOMAIN results' : results'[k].status = "passed"
    BY <1>d, <1>e DEF ExecInv, StatusHolds
  <2> QED BY <1>e, <2>1, <2>2 DEF StatusHolds
<1>9. ExitObserved'
  BY <1>a, <1>d, <1>e, PlanKept DEF ExecInv, ExitObserved
<1>10. Names'
  <2>1. report # "planned" /\ \A k \in DOMAIN commands : commands[k] = DockerCommand(k, isolated)
    BY <1>e DEF ExecInv, Planned, Names
  <2>2. \A k \in DOMAIN results' : results'[k].id = plan.steps[k].id
    BY <1>c, <1>d DEF ExecInv, Names
  <2> QED BY <1>a, <1>e, <2>1, <2>2 DEF Names, InStep, DockerCommand
<1>11. Versions'
  BY <1>0, <1>a DEF ExecInv, EndStep, runnerVars, Goes, ReportAfter, Pending, Versions, ExecTypes,
     IsStaged, Planned
<1>12. Quiet'
  BY <1>0, <1>a DEF ExecInv, EndStep, runnerVars, Goes, ReportAfter, Pending, Quiet
<1>13. Collected'
  BY <1>0, <1>a, PlanFacts DEF ExecInv, EndStep, runnerVars, Goes, ReportAfter, Pending, Collected,
     During, InStep, ExecTypes, ResultSet, ArtifactSet, Steps, Outputs
<1>14. KeptBefore'
  <2>1. survivors = {} /\ plan.keeps => \A a \in DOMAIN result.artifacts :
          Holds(<<result.id, result.artifacts[a].path>>, result.artifacts[a].hash)
    BY <1>e DEF ExecInv, KeptNow, Fresh, InStep
  <2> SUFFICES ASSUME survivors = {}, plan.keeps, NEW k \in DOMAIN results'
               PROVE  \A a \in DOMAIN results'[k].artifacts :
                        Holds(<<results'[k].id, results'[k].artifacts[a].path>>,
                              results'[k].artifacts[a].hash)
    BY <1>a, <1>e DEF KeptBefore, Holds
  <2>2. CASE k \in DOMAIN results
    <3>1. results'[k] = results[k]
      BY <1>d, <2>2
    <3> QED BY <2>2, <3>1 DEF ExecInv, KeptBefore
  <2>3. CASE k = step
    <3>1. results'[k] = result
      BY <1>d, <2>3
    <3> QED BY <2>1, <3>1
  <2> QED BY <1>d, <2>2, <2>3
<1>15. KeptNow'
  BY <1>0, <1>a, PlanFacts DEF ExecInv, EndStep, runnerVars, Goes, ReportAfter, Pending, KeptNow,
     Holds, Collected, Before, During, InStep, Fresh, Hashed, ExecTypes, Quiet, Outputs
<1> QED BY <1>1, <1>2, <1>3, <1>4, <1>5, <1>6, <1>7, <1>8, <1>9, <1>10, <1>11, <1>12, <1>13, <1>14,
           <1>15 DEF ExecInv

LEMMA CommandWritesSafe ==
  ASSUME RunnerInv, ExecInv, NEW s \in Running, CommandWrites(s)
  PROVE  ExecInv'
<1>0. PICK P : plan = P
  OBVIOUS
<1>a. plan' = plan
  BY DEF CommandWrites
<1>1. ExecTypes'
  <2>0. writes + 1 \in Nat /\ files \in [Paths -> Nat]
    BY DEF ExecInv, ExecTypes
  <2>1. files' \in [Paths -> Nat] /\ writes' \in Nat
    BY <2>0 DEF CommandWrites
  <2> QED BY <1>a, <2>1, PlanKept DEF CommandWrites, runnerVars, ExecInv, ExecTypes
<1>2. Valid'
  BY <1>0, <1>a, PlanFacts DEF ExecInv, CommandWrites, runnerVars, Running, Ended, Valid
<1>3. OffUntilStarted'
  BY <1>0, <1>a, PlanFacts DEF ExecInv, CommandWrites, runnerVars, Running, Ended, OffUntilStarted,
     IsStaged, During, Steps
<1>4. Before'
  BY <1>0, <1>a DEF ExecInv, CommandWrites, runnerVars, Running, Ended, Before
<1>5. During'
  BY <1>0, <1>a, PlanFacts DEF ExecInv, CommandWrites, runnerVars, Running, Ended, During, Before,
     InStep, ExecTypes, Steps
<1>6. After'
  BY <1>0, <1>a, PlanFacts DEF ExecInv, CommandWrites, runnerVars, Running, Ended, After, During,
     InStep, ExecTypes, Steps
<1>7. Planned'
  BY <1>0, <1>a DEF ExecInv, CommandWrites, runnerVars, Running, Ended, Planned, ExecTypes,
     ResultSet, StepStatuses
<1>8. StatusHolds'
  BY <1>0, <1>a, PlanFacts DEF ExecInv, CommandWrites, runnerVars, Running, Ended, StatusHolds,
     Before, During, InStep, Collected, ExecTypes, ResultSet, Steps, Outputs, Planned
<1>9. ExitObserved'
  BY <1>0, <1>a DEF ExecInv, CommandWrites, runnerVars, Running, Ended, ExitObserved, Before,
     ExecTypes, ResultSet, IsStaged
<1>10. Names'
  BY <1>0, <1>a, PlanFacts DEF ExecInv, CommandWrites, runnerVars, Running, Ended, Names, Before,
     During, InStep, ExecTypes, ResultSet, Planned, Steps, DockerCommand
<1>11. Versions'
  BY <1>0, <1>a DEF ExecInv, CommandWrites, runnerVars, Running, Ended, Versions, ExecTypes,
     IsStaged, Planned
<1>12. Quiet'
  BY <1>0, <1>a DEF ExecInv, CommandWrites, runnerVars, Running, Ended, Quiet
<1>13. Collected'
  BY <1>0, <1>a, PlanFacts DEF ExecInv, CommandWrites, runnerVars, Running, Ended, Collected,
     During, InStep, ExecTypes, ResultSet, ArtifactSet, Steps, Outputs
<1>14. KeptBefore'
  <2>1. UNCHANGED <<plan, survivors, results, retained>>
    BY DEF CommandWrites
  <2> QED BY <1>0, <2>1 DEF ExecInv, KeptBefore, Holds
<1>15. KeptNow'
  <2>1. CASE phase = "wait"
    BY <2>1 DEF CommandWrites, KeptNow
  <2>2. CASE phase # "wait"
    <3>1. container = "none"
      BY <2>2 DEF ExecInv, Quiet
    <3>2. survivors # {} /\ survivors' = survivors
      BY <3>1 DEF CommandWrites, Running
    <3> QED BY <3>2 DEF KeptNow
  <2> QED BY <2>1, <2>2
<1> QED BY <1>1, <1>2, <1>3, <1>4, <1>5, <1>6, <1>7, <1>8, <1>9, <1>10, <1>11, <1>12, <1>13, <1>14,
           <1>15 DEF ExecInv

LEMMA CommandExitsSafe ==
  ASSUME RunnerInv, ExecInv, NEW code \in 0 .. 1, CommandExits(code)
  PROVE  ExecInv'
<1>0. PICK P : plan = P
  OBVIOUS
<1>a. plan' = plan
  BY DEF CommandExits
<1>1. ExecTypes'
  BY <1>a, PlanKept DEF ExecInv, CommandExits, runnerVars, ExecTypes
<1>2. Valid'
  BY <1>0, <1>a, PlanFacts DEF ExecInv, CommandExits, runnerVars, Valid
<1>3. OffUntilStarted'
  BY <1>0, <1>a, PlanFacts DEF ExecInv, CommandExits, runnerVars, OffUntilStarted, IsStaged,
     During, Steps
<1>4. Before'
  BY <1>0, <1>a DEF ExecInv, CommandExits, runnerVars, Before
<1>5. During'
  BY <1>0, <1>a, PlanFacts DEF ExecInv, CommandExits, runnerVars, During, Before, InStep,
     ExecTypes, Steps
<1>6. After'
  BY <1>0, <1>a, PlanFacts DEF ExecInv, CommandExits, runnerVars, After, During, InStep, ExecTypes,
     Steps
<1>7. Planned'
  BY <1>0, <1>a DEF ExecInv, CommandExits, runnerVars, Planned, ExecTypes, ResultSet, StepStatuses
<1>8. StatusHolds'
  BY <1>0, <1>a, PlanFacts DEF ExecInv, CommandExits, runnerVars, StatusHolds, Before, During,
     InStep, Collected, ExecTypes, ResultSet, Steps, Outputs, Planned
<1>9. ExitObserved'
  BY <1>0, <1>a DEF ExecInv, CommandExits, runnerVars, ExitObserved, Before, ExecTypes, ResultSet,
     IsStaged
<1>10. Names'
  BY <1>0, <1>a, PlanFacts DEF ExecInv, CommandExits, runnerVars, Names, Before, During, InStep,
     ExecTypes, ResultSet, Planned, Steps, DockerCommand
<1>11. Versions'
  BY <1>0, <1>a DEF ExecInv, CommandExits, runnerVars, Versions, ExecTypes, IsStaged, Planned
<1>12. Quiet'
  BY <1>0, <1>a DEF ExecInv, CommandExits, runnerVars, Quiet
<1>13. Collected'
  BY <1>0, <1>a, PlanFacts DEF ExecInv, CommandExits, runnerVars, Collected, During, InStep,
     ExecTypes, ResultSet, ArtifactSet, Steps, Outputs
<1>14. KeptBefore'
  BY <1>0, <1>a, PlanFacts DEF ExecInv, CommandExits, runnerVars, KeptBefore, Holds, Before,
     ExecTypes
<1>15. KeptNow'
  BY <1>0, <1>a, PlanFacts DEF ExecInv, CommandExits, runnerVars, KeptNow, Holds, Collected,
     Before, During, InStep, Fresh, Hashed, ExecTypes, Quiet, Outputs
<1> QED BY <1>1, <1>2, <1>3, <1>4, <1>5, <1>6, <1>7, <1>8, <1>9, <1>10, <1>11, <1>12, <1>13, <1>14,
           <1>15 DEF ExecInv

LEMMA DriverRunsSafe ==
  ASSUME RunnerInv, ExecInv, DriverRuns
  PROVE  ExecInv'
<1>0. PICK P : plan = P
  OBVIOUS
<1>a. plan' = plan
  BY DEF DriverRuns
<1>1. ExecTypes'
  BY <1>a, PlanKept DEF ExecInv, DriverRuns, runnerVars, Running, Ended, ContainerOf, ExecTypes
<1>2. Valid'
  BY <1>0, <1>a, PlanFacts DEF ExecInv, DriverRuns, runnerVars, Running, Ended, ContainerOf, Valid
<1>3. OffUntilStarted'
  BY <1>0, <1>a, PlanFacts, StepsAlive DEF ExecInv, DriverRuns, runnerVars, Running, Ended,
     ContainerOf, OffUntilStarted, IsStaged, During, Steps, RunnerInv, ExitHolds, Alive
<1>4. Before'
  BY <1>0, <1>a DEF ExecInv, DriverRuns, runnerVars, Running, Ended, ContainerOf, Before
<1>5. During'
  BY <1>0, <1>a, PlanFacts DEF ExecInv, DriverRuns, runnerVars, Running, Ended, ContainerOf,
     During, Before, InStep, ExecTypes, Steps
<1>6. After'
  BY <1>0, <1>a, PlanFacts DEF ExecInv, DriverRuns, runnerVars, Running, Ended, ContainerOf, After,
     During, InStep, ExecTypes, Steps
<1>7. Planned'
  BY <1>0, <1>a DEF ExecInv, DriverRuns, runnerVars, Running, Ended, ContainerOf, Planned,
     ExecTypes, ResultSet, StepStatuses
<1>8. StatusHolds'
  BY <1>0, <1>a, PlanFacts DEF ExecInv, DriverRuns, runnerVars, Running, Ended, ContainerOf,
     StatusHolds, Before, During, InStep, Collected, ExecTypes, ResultSet, Steps, Outputs, Planned
<1>9. ExitObserved'
  BY <1>0, <1>a, StepsAlive DEF ExecInv, DriverRuns, runnerVars, Running, Ended, ContainerOf,
     ExitObserved, Before, ExecTypes, ResultSet, IsStaged, RunnerInv, ExitHolds, Alive
<1>10. Names'
  BY <1>0, <1>a, PlanFacts DEF ExecInv, DriverRuns, runnerVars, Running, Ended, ContainerOf, Names,
     Before, During, InStep, ExecTypes, ResultSet, Planned, Steps, DockerCommand
<1>11. Versions'
  BY <1>0, <1>a DEF ExecInv, DriverRuns, runnerVars, Running, Ended, ContainerOf, Versions,
     ExecTypes, IsStaged, Planned
<1>12. Quiet'
  BY <1>0, <1>a DEF ExecInv, DriverRuns, runnerVars, Running, Ended, ContainerOf, Quiet
<1>13. Collected'
  BY <1>0, <1>a, PlanFacts DEF ExecInv, DriverRuns, runnerVars, Running, Ended, ContainerOf,
     Collected, During, InStep, ExecTypes, ResultSet, ArtifactSet, Steps, Outputs
<1>14. KeptBefore'
  BY <1>0, <1>a, PlanFacts DEF ExecInv, DriverRuns, runnerVars, Running, Ended, ContainerOf,
     KeptBefore, Holds, Before, ExecTypes
<1>15. KeptNow'
  BY <1>0, <1>a, PlanFacts DEF ExecInv, DriverRuns, runnerVars, Running, Ended, ContainerOf,
     KeptNow, Holds, Collected, Before, During, InStep, Fresh, Hashed, ExecTypes, Quiet, Outputs
<1> QED BY <1>1, <1>2, <1>3, <1>4, <1>5, <1>6, <1>7, <1>8, <1>9, <1>10, <1>11, <1>12, <1>13, <1>14,
           <1>15 DEF ExecInv

LEMMA DriverEndsSafe ==
  ASSUME RunnerInv, ExecInv, DriverEnds
  PROVE  ExecInv'
<1>0. PICK P : plan = P
  OBVIOUS
<1>a. plan' = plan
  BY DEF DriverEnds
<1>1. ExecTypes'
  <2>0. writes + 1 \in Nat /\ files \in [Paths -> Nat]
    BY DEF ExecInv, ExecTypes
  <2>1. files' \in [Paths -> Nat] /\ writes' \in Nat
    BY <2>0 DEF DriverEnds
  <2> QED BY <1>a, <2>1, PlanKept DEF DriverEnds, ExecInv, ExecTypes
<1>2. Valid'
  BY <1>0, <1>a, PlanFacts DEF ExecInv, DriverEnds, runnerVars, Running, Ended, ContainerOf,
     WriteEvidence, Valid
<1>3. OffUntilStarted'
  BY <1>0, <1>a, PlanFacts, StepsAlive DEF ExecInv, DriverEnds, runnerVars, Running, Ended,
     ContainerOf, WriteEvidence, OffUntilStarted, IsStaged, During, Steps, RunnerInv, ExitHolds,
     Alive
<1>4. Before'
  BY <1>0, <1>a DEF ExecInv, DriverEnds, runnerVars, Running, Ended, ContainerOf, WriteEvidence,
     Before
<1>5. During'
  BY <1>0, <1>a, PlanFacts DEF ExecInv, DriverEnds, runnerVars, Running, Ended, ContainerOf,
     WriteEvidence, During, Before, InStep, ExecTypes, Steps
<1>6. After'
  BY <1>0, <1>a, PlanFacts DEF ExecInv, DriverEnds, runnerVars, Running, Ended, ContainerOf,
     WriteEvidence, After, During, InStep, ExecTypes, Steps
<1>7. Planned'
  BY <1>0, <1>a DEF ExecInv, DriverEnds, runnerVars, Running, Ended, ContainerOf, WriteEvidence,
     Planned, ExecTypes, ResultSet, StepStatuses
<1>8. StatusHolds'
  BY <1>0, <1>a, PlanFacts DEF ExecInv, DriverEnds, runnerVars, Running, Ended, ContainerOf,
     WriteEvidence, StatusHolds, Before, During, InStep, Collected, ExecTypes, ResultSet, Steps,
     Outputs, Planned
<1>9. ExitObserved'
  BY <1>0, <1>a, StepsAlive DEF ExecInv, DriverEnds, runnerVars, Running, Ended, ContainerOf,
     WriteEvidence, ExitObserved, Before, ExecTypes, ResultSet, IsStaged, RunnerInv, ExitHolds,
     Alive
<1>10. Names'
  BY <1>0, <1>a, PlanFacts DEF ExecInv, DriverEnds, runnerVars, Running, Ended, ContainerOf,
     WriteEvidence, Names, Before, During, InStep, ExecTypes, ResultSet, Planned, Steps,
     DockerCommand
<1>11. Versions'
  BY <1>0, <1>a DEF ExecInv, DriverEnds, runnerVars, Running, Ended, ContainerOf, WriteEvidence,
     Versions, ExecTypes, IsStaged, Planned
<1>12. Quiet'
  BY <1>0, <1>a DEF ExecInv, DriverEnds, runnerVars, Running, Ended, ContainerOf, WriteEvidence,
     Quiet
<1>13. Collected'
  BY <1>0, <1>a, PlanFacts DEF ExecInv, DriverEnds, runnerVars, Running, Ended, ContainerOf,
     WriteEvidence, Collected, During, InStep, ExecTypes, ResultSet, ArtifactSet, Steps, Outputs
<1>14. KeptBefore'
  BY <1>0, <1>a, PlanFacts DEF ExecInv, DriverEnds, runnerVars, Running, Ended, ContainerOf,
     WriteEvidence, KeptBefore, Holds, Before, ExecTypes
<1>15. KeptNow'
  BY <1>0, <1>a, PlanFacts DEF ExecInv, DriverEnds, runnerVars, Running, Ended, ContainerOf,
     WriteEvidence, KeptNow, Holds, Collected, Before, During, InStep, Fresh, Hashed, ExecTypes,
     Quiet, Outputs
<1> QED BY <1>1, <1>2, <1>3, <1>4, <1>5, <1>6, <1>7, <1>8, <1>9, <1>10, <1>11, <1>12, <1>13, <1>14,
           <1>15 DEF ExecInv

(***************************************************************************)
(* The two invariants together                                             *)
(***************************************************************************)

LEMMA RunnerUntouched ==
  ASSUME RunnerInv, UNCHANGED <<plan, runnerVars>>
  PROVE  RunnerInv'
BY DEF runnerVars, RunnerInv, RunnerTypes, OtherDriver, Sent, DraftsHold, RecordsHold, RowsGrow,
       RowsComplete, RowsHold, ExitHolds, Cases, Ids, Id, Expects

\* The driver starts with its container, and dies with it.
LEMMA RunnerPlaced ==
  ASSUME RunnerInv, runner' \in {"starting", "crashed"}, runner' = "starting" => exit = -1,
         UNCHANGED <<plan, case, client, handler, draft, records, served, observed, runError,
                     rows, exit>>
  PROVE  RunnerInv'
BY DEF RunnerInv, RunnerTypes, OtherDriver, Sent, DraftsHold, RecordsHold, RowsGrow,
       RowsComplete, RowsHold, ExitHolds, Cases, Ids, Id, Expects

LEMMA StartStepPlaces ==
  ASSUME RunnerInv, ExecInv, StartStep
  PROVE  RunnerInv'
<1>1. CASE IsStaged
  <2>1. runner = "off"
    BY <1>1 DEF ExecInv, OffUntilStarted, StartStep
  <2>2. exit = -1
    BY <2>1 DEF RunnerInv, ExitHolds
  <2> QED BY <1>1, <2>2, RunnerPlaced DEF StartStep
<1>2. CASE ~IsStaged
  BY <1>2, RunnerUntouched DEF StartStep, runnerVars
<1> QED BY <1>1, <1>2

LEMMA StepTimesOutPlaces ==
  ASSUME RunnerInv, ExecInv, NEW removed \in BOOLEAN, StepTimesOut(removed)
  PROVE  RunnerInv'
<1>1. CASE IsStaged /\ removed
  BY <1>1, RunnerPlaced DEF StepTimesOut
<1>2. CASE ~(IsStaged /\ removed)
  BY <1>2, RunnerUntouched DEF StepTimesOut, runnerVars
<1> QED BY <1>1, <1>2

LEMMA DriverKnowsCases ==
  ASSUME ExecInv, IsStaged, Running # {}, ~Ended
  PROVE  CasesKnown
<1>1. phase \notin {"load", "aborted"}
  BY DEF Running, Ended, ExecInv, Before, Quiet
<1> QED BY <1>1, PlanFacts

LEMMA DriverStepKeeps ==
  ASSUME RunnerInv, ExecInv, DriverRuns \/ DriverEnds
  PROVE  RunnerInv'
<1>1. /\ IsStaged /\ Running # {} /\ ~Ended /\ plan' = plan
      /\ RunnerStep \/ WriteEvidence
  BY DEF DriverRuns, DriverEnds
<1>2. CasesKnown
  BY <1>1, DriverKnowsCases
<1> QED BY <1>1, <1>2, RunnerKeeps

LEMMA VerificationStarts ==
  ASSUME VerificationInit
  PROVE  RunnerInv /\ ExecInv
<1>1. PICK P \in PlanFiles : plan = P
  BY DEF VerificationInit
<1>2. plan.cases \in Seq(CaseSet)
  BY <1>1, VerificationAssumption DEF IsPlanFile
<1>3. RunnerInv
  <2>1. RunnerTypes
    <3>1. Unanswered \in RecordSet
      BY DEF RecordSet, Unanswered, Record
    <3>2. NoRecord \in RecordSet
      BY DEF RecordSet, NoRecord, Record
    <3>3. case = 1 /\ (runError) = FALSE /\ exit = -1 /\ rows = <<>>
      BY DEF VerificationInit, RunnerOff
    <3>4. case \in Nat /\ exit \in Int /\ rows \in Seq(RecordSet)
      BY <3>3
    <3>5. runError \in BOOLEAN
      BY <3>3
    <3> QED BY <3>1, <3>2, <3>4, <3>5 DEF VerificationInit, RunnerOff, RunnerTypes
  <2>2. OtherDriver /\ Sent /\ DraftsHold /\ RecordsHold
    BY DEF VerificationInit, RunnerOff, OtherDriver, Sent, DraftsHold, RecordsHold, Unanswered,
           NoRecord, Record, Ids
  <2>3. RowsGrow /\ RowsComplete /\ RowsHold /\ ExitHolds
    <3>1. Len(plan.cases) \in Nat /\ Len(rows) = 0 /\ DOMAIN rows = {}
      BY <1>2 DEF VerificationInit, RunnerOff
    <3>2. runner = "off" /\ exit = -1 /\ rows = <<>> /\ case = 1
      BY DEF VerificationInit, RunnerOff
    <3> QED BY <3>1, <3>2 DEF RowsGrow, RowsComplete, RowsHold, ExitHolds
  <2> QED BY <2>1, <2>2, <2>3 DEF RunnerInv
<1>4. ExecInv
  <2>1. /\ phase = "load" /\ source = 1 /\ staged = 0 /\ digest = 0 /\ isolated = 0
        /\ step = 1 /\ writes = 1 /\ runner = "off" /\ container = "none" /\ survivors = {}
        /\ commands = <<>> /\ results = <<>> /\ report = "none" /\ result = Pending
        /\ files \in [Paths -> Nat] /\ retained \in [Slots -> Nat]
    BY DEF VerificationInit, RunnerOff
  <2>2. DOMAIN results = {} /\ DOMAIN commands = {}
    BY <2>1
  <2>3. Pending \in ResultSet /\ Pending.status = "pending"
    <3>1. <<>> \in Seq(ArtifactSet)
      OBVIOUS
    <3> QED BY <3>1 DEF Pending, ResultSet, StepStatuses
  <2>4. <<>> \in Seq(ResultSet) /\ <<>> \in Seq(CommandSet)
    OBVIOUS
  <2>5. ExecTypes
    BY <1>1, <2>1, <2>3, <2>4 DEF ExecTypes
  <2>6. Valid /\ OffUntilStarted /\ Before /\ During /\ After /\ Planned
    BY <2>1 DEF Valid, OffUntilStarted, Before, During, After, Planned, InStep
  <2>7. StatusHolds /\ ExitObserved /\ Names /\ Versions /\ Quiet
    BY <2>1, <2>2, <2>3 DEF StatusHolds, ExitObserved, Names, Versions, Quiet, InStep
  <2>8. Collected /\ KeptBefore /\ KeptNow
    BY <2>1, <2>2 DEF Collected, KeptBefore, KeptNow, InStep
  <2> QED BY <2>5, <2>6, <2>7, <2>8 DEF ExecInv
<1> QED BY <1>3, <1>4

VerificationInv == RunnerInv /\ ExecInv

LEMMA VerificationUntouched ==
  ASSUME VerificationInv, UNCHANGED verificationVars
  PROVE  VerificationInv'
<1>1. UNCHANGED <<plan, runnerVars>>
  BY DEF verificationVars
<1>2. RunnerInv'
  BY <1>1, RunnerUntouched DEF VerificationInv
<1>3. /\ UNCHANGED <<plan, runner, exit, phase, source, staged, digest, isolated, files, step>>
      /\ UNCHANGED <<commands, container, survivors, result, results, retained, report, writes>>
  BY DEF verificationVars, execVars, runnerVars
<1>4. Paths' = Paths /\ Slots' = Slots /\ Steps' = Steps /\ (IsStaged' <=> IsStaged)
  BY <1>3, PlanKept
<1>5. ExecTypes' /\ Valid' /\ OffUntilStarted' /\ Before' /\ During' /\ After' /\ Planned'
  BY <1>3, <1>4 DEF VerificationInv, ExecInv, ExecTypes, Valid, OffUntilStarted, Before, During,
     After, Planned
<1>6. StatusHolds' /\ ExitObserved' /\ Names' /\ Versions' /\ Quiet'
  BY <1>3, <1>4 DEF VerificationInv, ExecInv, StatusHolds, ExitObserved, Names, Versions, Quiet,
     Outputs, DockerCommand
<1>7. Collected' /\ KeptBefore' /\ KeptNow'
  BY <1>3, <1>4 DEF VerificationInv, ExecInv, Collected, KeptBefore, KeptNow, Outputs, Holds,
     Fresh, Hashed
<1> QED BY <1>2, <1>5, <1>6, <1>7 DEF VerificationInv, ExecInv

\* Every step of the verification, one action at a time.
LEMMA VerificationStep ==
  ASSUME VerificationInv, [VerificationNext]_verificationVars
  PROVE  VerificationInv'
<1> USE DEF VerificationInv
<1>1. CASE EditSource
  BY <1>1, EditSourceSafe, RunnerUntouched DEF EditSource
<1>2. CASE ExecutorStep
  <2>1. CASE LoadPlan \/ StageWorkspace \/ RefuseWorkspace \/ DescribePlan
    BY <2>1, LoadPlanSafe, StageWorkspaceSafe, RefuseWorkspaceSafe, DescribePlanSafe,
       RunnerUntouched DEF LoadPlan, StageWorkspace, RefuseWorkspace, DescribePlan
  <2>2. CASE DigestWorkspace \/ CopyWorkspace \/ StartFails
    BY <2>2, DigestWorkspaceSafe, CopyWorkspaceSafe, StartFailsSafe, RunnerUntouched
       DEF DigestWorkspace, CopyWorkspace, StartFails
  <2>3. CASE StartStep
    BY <2>3, StartStepSafe, StartStepPlaces
  <2>4. CASE \E status \in {"exited0", "exited1"} : StepExits(status)
    BY <2>4, StepExitsSafe, RunnerUntouched DEF StepExits
  <2>5. CASE DirectoryEscaped \/ OutputMissing \/ OutputRefused \/ HashOutput
    BY <2>5, DirectoryEscapedSafe, OutputMissingSafe, OutputRefusedSafe, HashOutputSafe,
       RunnerUntouched DEF DirectoryEscaped, OutputMissing, OutputRefused, HashOutput
  <2>6. CASE RetainOutput \/ CollectFails \/ AllCollected \/ EndStep
    BY <2>6, RetainOutputSafe, CollectFailsSafe, AllCollectedSafe, EndStepSafe, RunnerUntouched
       DEF RetainOutput, CollectFails, AllCollected, EndStep
  <2> QED BY <1>2, <2>1, <2>2, <2>3, <2>4, <2>5, <2>6 DEF ExecutorStep
<1>3. CASE Timeout
  <2>1. CASE KillFails
    BY <2>1, KillFailsSafe, RunnerUntouched DEF KillFails
  <2>2. CASE \E removed \in BOOLEAN : StepTimesOut(removed)
    BY <2>2, StepTimesOutSafe, StepTimesOutPlaces
  <2> QED BY <1>3, <2>1, <2>2 DEF Timeout
<1>4. CASE ContainerStep
  <2>1. CASE \E s \in Running : CommandWrites(s)
    BY <2>1, CommandWritesSafe, RunnerUntouched DEF CommandWrites
  <2>2. CASE \E code \in 0 .. 1 : CommandExits(code)
    BY <2>2, CommandExitsSafe, RunnerUntouched DEF CommandExits
  <2>3. CASE DriverRuns \/ DriverEnds
    BY <2>3, DriverRunsSafe, DriverEndsSafe, DriverStepKeeps
  <2> QED BY <1>4, <2>1, <2>2, <2>3 DEF ContainerStep
<1>5. CASE UNCHANGED verificationVars
  BY <1>5, VerificationUntouched
<1> QED BY <1>1, <1>2, <1>3, <1>4, <1>5 DEF VerificationNext

(* The inductive invariant of a verification, for every set of plan files, answers of the
   service, edits and writes: driver, executor and containers agree in every state. *)
THEOREM VerificationAgrees == VerificationSpec => []VerificationInv
<1>1. VerificationInit => VerificationInv
  BY VerificationStarts DEF VerificationInv
<1>2. VerificationInv /\ [VerificationNext]_verificationVars => VerificationInv'
  BY VerificationStep
<1> QED BY <1>1, <1>2, PTL DEF VerificationSpec

(* A report of a passed verification tells the truth for every plan file: every step was run
   and passed with all its outputs, and the service answered every case as expected. *)
THEOREM PassedIsVerified == VerificationSpec => []PassedMeansVerified
<1>1. VerificationInv => PassedMeansVerified
  <2> SUFFICES ASSUME VerificationInv, Reported, report = "passed"
               PROVE  /\ Len(results) = Len(plan.steps)
                      /\ \A k \in DOMAIN results :
                           /\ results[k].status = "passed"
                           /\ Len(results[k].artifacts) = Len(Outputs(k))
                      /\ IsStaged => /\ exit = 0
                                     /\ plan.kind # "browser" =>
                                          \A c \in Cases : served[c] \in Expects(c)
    BY DEF PassedMeansVerified
  <2>1. step \in Steps /\ Len(results) = step /\ step = Len(plan.steps)
    BY DEF VerificationInv, ExecInv, After, Reported
  <2>2. \A k \in DOMAIN results : /\ results[k].status = "passed"
                                  /\ Len(results[k].artifacts) = Len(Outputs(k))
    BY DEF VerificationInv, ExecInv, StatusHolds
  <2>3. ASSUME IsStaged PROVE exit = 0
    <3>1. step \in DOMAIN results
      BY <2>1 DEF VerificationInv, ExecInv, ExecTypes, Steps
    <3> QED BY <2>2, <2>3, <3>1 DEF VerificationInv, ExecInv, ExitObserved
  <2>4. exit = 0 /\ plan.kind # "browser" => \A c \in Cases : served[c] \in Expects(c)
    BY DEF VerificationInv, RunnerInv, ExitHolds
  <2> QED BY <2>1, <2>2, <2>3, <2>4
<1> QED BY <1>1, VerificationAgrees, PTL

(* The report of an executed plan names what was executed and kept: the version in the copy,
   the commands run over it, and files the artifact directory holds with the digests given. *)
THEOREM ReportIsFaithful == VerificationSpec => []EvidenceIsFaithful
<1>1. VerificationInv => EvidenceIsFaithful
  <2> SUFFICES ASSUME VerificationInv, Reported, report # "planned"
               PROVE  EvidenceIsFaithful
    BY DEF EvidenceIsFaithful
  <2>1. (IsStaged \/ source = 1) => digest = isolated
    BY DEF VerificationInv, ExecInv, Versions, Reported
  <2>2. Len(commands) = step /\ Len(results) = step
    BY DEF VerificationInv, ExecInv, After, Reported
  <2>3. \A k \in DOMAIN results : results[k].id = plan.steps[k].id
    BY DEF VerificationInv, ExecInv, Names
  <2>4. \A k \in DOMAIN results : commands[k] = DockerCommand(k, isolated)
    <3>1. DOMAIN results = DOMAIN commands
      <4>1. results \in Seq(ResultSet) /\ commands \in Seq(CommandSet)
        BY DEF VerificationInv, ExecInv, ExecTypes
      <4> QED BY <2>2, <4>1
    <3> QED BY <3>1 DEF VerificationInv, ExecInv, Names
  <2>5. (survivors = {} /\ plan.keeps) =>
          \A k \in DOMAIN results : \A a \in DOMAIN results[k].artifacts :
            retained[<<results[k].id, results[k].artifacts[a].path>>] = results[k].artifacts[a].hash
    BY DEF VerificationInv, ExecInv, KeptBefore, Holds
  <2> QED BY <2>1, <2>2, <2>3, <2>4, <2>5 DEF EvidenceIsFaithful
<1> QED BY <1>1, VerificationAgrees, PTL

(***************************************************************************)
(* The rows of an agent run                                                *)
(***************************************************************************)

USE AgentRunsAssumption

LEMMA WithType ==
  ASSUME TypeOK, NEW r \in Runs, NEW p \in Plans,
         NEW s \in {"absent", "pending", "approved", "rejected", "consumed",
                    "expired"}
  PROVE  /\ With(r, p, s) \in [Plans -> {"absent", "pending", "approved",
                                         "rejected", "consumed", "expired"}]
         /\ \A q \in Plans : With(r, p, s)[q] = IF q = p THEN s ELSE approval[r][q]
  BY DEF TypeOK, With

\* Closing a run, or not, touches its own status and stage only.
LEMMA FinalizeType ==
  ASSUME TypeOK, NEW r \in Runs, NEW a, NEW e, Finalize(r, a, e)
  PROVE  /\ run' \in [Runs -> {"absent"} \cup Open \cup Closed]
         /\ stage' \in [Runs -> {"absent", "waiting_approval", "completed",
                                 "partial", "failed"}]
         /\ \A q \in Runs \ {r} : run'[q] = run[q] /\ stage'[q] = stage[q]
         /\ Waiting(a) => run'[r] = run[r] /\ stage'[r] = stage[r]
         /\ ~Waiting(a) => /\ run'[r] = FinalStatus(a, e)
                           /\ stage'[r] \in {"completed", "partial"}
  BY DEF TypeOK, Finalize, FinalStatus, Open, Closed

LEMMA TypeStep == ASSUME TypeOK, [Next]_vars PROVE TypeOK'
<1> USE DEF TypeOK
<1>1. ASSUME NEW r \in Runs, NEW plans \in SUBSET Plans,
             NEW w \in Workspaces \cup {NoSnapshot}, Create(r, plans, w)
      PROVE  TypeOK'
  BY <1>1 DEF Create, Open, Closed
<1>2. ASSUME NEW r \in Runs, NEW p \in Plans, TimePasses(r, p)
      PROVE  TypeOK'
  BY <1>2 DEF TimePasses
<1>3. ASSUME NEW r \in Runs, NEW p \in Plans, Approve(r, p)
      PROVE  TypeOK'
  BY <1>3, WithType DEF Approve, Open
<1>4. ASSUME NEW r \in Runs, NEW p \in Plans, Reject(r, p)
      PROVE  TypeOK'
  BY <1>4, WithType, FinalizeType DEF Reject
<1>5. ASSUME NEW r \in Runs, NEW p \in Plans, NEW e \in Evidence, Ingest(r, p, e)
      PROVE  TypeOK'
  BY <1>5, WithType, FinalizeType DEF Ingest
<1>6. CASE Restore
  BY <1>6 DEF Restore, Closed
<1>7. CASE UNCHANGED vars
  BY <1>7 DEF vars
<1> QED BY <1>1, <1>2, <1>3, <1>4, <1>5, <1>6, <1>7 DEF Next

(***************************************************************************)
(* What one operation leaves of the runs it is not about                   *)
(***************************************************************************)

\* The rows of run q are what they were.
Untouched(q) == /\ run'[q] = run[q] /\ stage'[q] = stage[q]
                /\ snapshot'[q] = snapshot[q]
                /\ approval'[q] = approval[q] /\ evidence'[q] = evidence[q]

LEMMA UntouchedAgrees ==
  ASSUME NEW q \in Runs, Agrees(q), Untouched(q)
  PROVE  Agrees(q)'
<1>1. FollowsApprovals(q)'
  BY DEF Agrees, Untouched, FollowsApprovals, Waiting
<1>2. CompletedMeansProven(q)'
  BY DEF Agrees, Untouched, CompletedMeansProven, Failures
<1>3. EvidenceAnswersApproval(q)'
  BY DEF Agrees, Untouched, EvidenceAnswersApproval, Matches
<1> QED BY <1>1, <1>2, <1>3 DEF Agrees

(***************************************************************************)
(* The invariant, operation by operation                                   *)
(***************************************************************************)

LEMMA CreateAgrees ==
  ASSUME TypeOK, NEW r \in Runs, Agrees(r), NEW plans \in SUBSET Plans,
         NEW w \in Workspaces \cup {NoSnapshot}, Create(r, plans, w)
  PROVE  Agrees(r)'
<1>1. /\ run'[r] = IF plans = {} THEN "completed" ELSE "awaiting_approval"
      /\ stage'[r] = IF plans = {} THEN "completed" ELSE "waiting_approval"
      /\ approval'[r] = [p \in Plans |-> IF p \in plans THEN "pending" ELSE "absent"]
      /\ evidence' = evidence
  BY DEF Create, TypeOK
<1>2. \A p \in Plans : approval[r][p] = "absent" /\ evidence[r][p] = <<>>
  <2>1. \A p \in Plans : approval[r][p] = "absent"
    BY DEF Create, Agrees, FollowsApprovals
  <2>2. \A p \in Plans : Len(evidence[r][p]) = 0 /\ evidence[r][p] \in Seq(Evidence)
    BY <2>1 DEF TypeOK, Agrees, EvidenceAnswersApproval
  <2> QED BY <2>1, <2>2
<1>3. FollowsApprovals(r)'
  BY <1>1 DEF FollowsApprovals, Waiting, Open, Closed
<1>4. CompletedMeansProven(r)'
  BY <1>1, <1>2 DEF CompletedMeansProven, Failures
<1>5. EvidenceAnswersApproval(r)'
  BY <1>1, <1>2 DEF EvidenceAnswersApproval
<1> QED BY <1>3, <1>4, <1>5 DEF Agrees

LEMMA ApproveAgrees ==
  ASSUME TypeOK, NEW r \in Runs, Agrees(r), NEW p \in Plans, Approve(r, p)
  PROVE  Agrees(r)'
<1>1. /\ run'[r] = "awaiting_evidence" /\ approval[r][p] = "pending"
      /\ evidence' = evidence /\ snapshot' = snapshot
      /\ approval'[r] = With(r, p, "approved")
  BY DEF Approve, Decidable, TypeOK
<1>2. \A q \in Plans : approval'[r][q] = IF q = p THEN "approved" ELSE approval[r][q]
  BY <1>1, WithType
<1>3. FollowsApprovals(r)'
  BY <1>1 DEF FollowsApprovals, Open, Closed
<1>4. CompletedMeansProven(r)'
  BY <1>1, <1>2 DEF CompletedMeansProven
<1>5. EvidenceAnswersApproval(r)'
  BY <1>1, <1>2 DEF Agrees, EvidenceAnswersApproval, Matches
<1> QED BY <1>3, <1>4, <1>5 DEF Agrees

LEMMA RejectAgrees ==
  ASSUME TypeOK, NEW r \in Runs, Agrees(r), NEW p \in Plans, Reject(r, p)
  PROVE  Agrees(r)'
<1> DEFINE a == With(r, p, "rejected")
<1>1. /\ approval[r][p] = "pending" /\ approval'[r] = a
      /\ evidence' = evidence /\ snapshot' = snapshot
      /\ Finalize(r, a, evidence[r])
  BY DEF Reject, Decidable, TypeOK
<1>2. \A q \in Plans : a[q] = IF q = p THEN "rejected" ELSE approval[r][q]
  BY WithType
<1>3. /\ Waiting(a) => run'[r] = run[r]
      /\ ~Waiting(a) => run'[r] = "partial" /\ stage'[r] # "waiting_approval"
  <2>1. Refusals(a)
    BY <1>2 DEF Refusals
  <2> QED BY <1>1, <2>1, FinalizeType DEF FinalStatus
<1>4. run[r] \in Open
  BY <1>1 DEF Agrees, FollowsApprovals, Waiting, TypeOK
<1> HIDE DEF a
<1>5. FollowsApprovals(r)'
  BY <1>1, <1>2, <1>3, <1>4 DEF Agrees, FollowsApprovals, Waiting, Open, Closed
<1>6. CompletedMeansProven(r)'
  BY <1>1, <1>2, <1>3, <1>4 DEF CompletedMeansProven, Open
<1>7. EvidenceAnswersApproval(r)'
  BY <1>1, <1>2 DEF Agrees, EvidenceAnswersApproval, Matches
<1> QED BY <1>5, <1>6, <1>7 DEF Agrees

LEMMA IngestAgrees ==
  ASSUME TypeOK, NEW r \in Runs, Agrees(r), NEW p \in Plans,
         NEW e \in Evidence, Ingest(r, p, e)
  PROVE  Agrees(r)'
<1> DEFINE a == With(r, p, "consumed")
           inserted == [evidence[r] EXCEPT ![p] = Append(@, e)]
<1>1. /\ approval[r][p] = "approved" /\ Matches(r, p, e)
      /\ approval'[r] = a /\ evidence'[r] = inserted /\ snapshot' = snapshot
      /\ Finalize(r, a, inserted)
  BY DEF Ingest, TypeOK
<1>2. \A q \in Plans : a[q] = IF q = p THEN "consumed" ELSE approval[r][q]
  BY WithType
<1>3. evidence[r][p] = <<>>
  <2>1. evidence[r][p] \in Seq(Evidence) /\ Len(evidence[r][p]) = 0
    BY <1>1 DEF TypeOK, Agrees, EvidenceAnswersApproval
  <2> QED BY <2>1
<1>4. \A q \in Plans : inserted[q] = IF q = p THEN <<e>> ELSE evidence[r][q]
  BY <1>3 DEF TypeOK
<1>5. /\ Waiting(a) => run'[r] = run[r]
      /\ ~Waiting(a) => /\ run'[r] = FinalStatus(a, inserted)
                        /\ stage'[r] # "waiting_approval"
  BY <1>1, FinalizeType
<1>6. run[r] = "awaiting_evidence"
  BY <1>1 DEF Agrees, FollowsApprovals, Waiting, TypeOK, Open
<1> HIDE DEF a, inserted
<1>7. FollowsApprovals(r)'
  BY <1>1, <1>2, <1>5, <1>6
  DEF FollowsApprovals, Waiting, Open, Closed, FinalStatus
<1>8. CompletedMeansProven(r)'
  <2>1. CASE Waiting(a)
    BY <1>1, <1>5, <1>6, <2>1 DEF CompletedMeansProven, Waiting
  <2>2. CASE ~Waiting(a)
    <3>1. \A q \in Plans : a[q] \in {"absent", "rejected", "consumed", "expired"}
      BY <1>2, <2>2 DEF Waiting, TypeOK
    <3>2. Refusals(a) <=> ~ \A q \in Plans : a[q] \in {"absent", "consumed"}
      BY <3>1 DEF Refusals
    <3> QED BY <1>1, <1>5, <2>2, <3>2 DEF CompletedMeansProven, FinalStatus, Failures
  <2> QED BY <2>1, <2>2
<1>9. EvidenceAnswersApproval(r)'
  <2>1. Len(<<e>>) = 1 /\ DOMAIN <<e>> = {1} /\ <<e>>[1] = e
    OBVIOUS
  <2>2. ASSUME NEW q \in Plans, q # p
        PROVE  /\ Len(evidence'[r][q]) = IF approval'[r][q] = "consumed" THEN 1 ELSE 0
               /\ \A i \in DOMAIN evidence'[r][q] : Matches(r, q, evidence[r][q][i])'
    BY <1>1, <1>2, <1>4, <2>2 DEF Agrees, EvidenceAnswersApproval, Matches
  <2>3. /\ Len(evidence'[r][p]) = IF approval'[r][p] = "consumed" THEN 1 ELSE 0
        /\ \A i \in DOMAIN evidence'[r][p] : Matches(r, p, evidence[r][p][i])'
    BY <1>1, <1>2, <1>4, <2>1 DEF Matches
  <2> QED BY <2>2, <2>3 DEF EvidenceAnswersApproval
<1> QED BY <1>7, <1>8, <1>9 DEF Agrees

LEMMA RestoreAgrees ==
  ASSUME TypeOK, NEW r \in Runs, Agrees(r), Restore
  PROVE  Agrees(r)'
<1>1. /\ run'[r] = IF run[r] \in Interrupts THEN "cancelled" ELSE run[r]
      /\ stage'[r] = IF stage[r] = "waiting_approval" THEN "failed" ELSE stage[r]
      /\ evidence' = evidence /\ snapshot' = snapshot
  BY DEF Restore
<1>2. \A p \in Plans : approval'[r][p] =
        IF approval[r][p] \in {"pending", "approved"} THEN "expired"
        ELSE approval[r][p]
  BY DEF Restore
<1>3. FollowsApprovals(r)'
  BY <1>1, <1>2 DEF Agrees, FollowsApprovals, Waiting, Closed, Interrupts
<1>4. CompletedMeansProven(r)'
  BY <1>1, <1>2 DEF Agrees, FollowsApprovals, CompletedMeansProven, Failures, Interrupts, Waiting,
     Closed
<1>5. EvidenceAnswersApproval(r)'
  BY <1>1, <1>2 DEF Agrees, EvidenceAnswersApproval, Matches
<1> QED BY <1>3, <1>4, <1>5 DEF Agrees

(***************************************************************************)
(* Every step, and the theorems                                            *)
(***************************************************************************)

\* An operation on one run leaves the others alone.
LEMMA OthersUntouched ==
  ASSUME TypeOK, NEW r \in Runs, NEW q \in Runs \ {r},
         \/ \E plans \in SUBSET Plans, w \in Workspaces \cup {NoSnapshot} :
              Create(r, plans, w)
         \/ \E p \in Plans : Approve(r, p) \/ Reject(r, p)
         \/ \E p \in Plans, e \in Evidence : Ingest(r, p, e)
  PROVE  Untouched(q)
<1> USE DEF TypeOK, Untouched
<1>1. ASSUME NEW plans \in SUBSET Plans, NEW w \in Workspaces \cup {NoSnapshot},
             Create(r, plans, w)
      PROVE  Untouched(q)
  BY <1>1 DEF Create
<1>2. ASSUME NEW p \in Plans, Approve(r, p)
      PROVE  Untouched(q)
  BY <1>2 DEF Approve
<1>3. ASSUME NEW p \in Plans, Reject(r, p)
      PROVE  Untouched(q)
  BY <1>3, FinalizeType DEF Reject
<1>4. ASSUME NEW p \in Plans, NEW e \in Evidence, Ingest(r, p, e)
      PROVE  Untouched(q)
  BY <1>4, FinalizeType DEF Ingest
<1> QED BY <1>1, <1>2, <1>3, <1>4

LEMMA AgreesStep ==
  ASSUME RunInvariant, [Next]_vars, NEW q \in Runs
  PROVE  Agrees(q)'
<1>0. TypeOK /\ Agrees(q)
  BY DEF RunInvariant
<1>1. ASSUME NEW r \in Runs, NEW plans \in SUBSET Plans,
             NEW w \in Workspaces \cup {NoSnapshot}, Create(r, plans, w)
      PROVE  Agrees(q)'
  BY <1>0, <1>1, CreateAgrees, OthersUntouched, UntouchedAgrees
<1>2. ASSUME NEW r \in Runs, NEW p \in Plans, TimePasses(r, p)
      PROVE  Agrees(q)'
  BY <1>0, <1>2, UntouchedAgrees DEF TimePasses, Untouched
<1>3. ASSUME NEW r \in Runs, NEW p \in Plans, Approve(r, p)
      PROVE  Agrees(q)'
  BY <1>0, <1>3, ApproveAgrees, OthersUntouched, UntouchedAgrees
<1>4. ASSUME NEW r \in Runs, NEW p \in Plans, Reject(r, p)
      PROVE  Agrees(q)'
  BY <1>0, <1>4, RejectAgrees, OthersUntouched, UntouchedAgrees
<1>5. ASSUME NEW r \in Runs, NEW p \in Plans, NEW e \in Evidence, Ingest(r, p, e)
      PROVE  Agrees(q)'
  BY <1>0, <1>5, IngestAgrees, OthersUntouched, UntouchedAgrees
<1>6. CASE Restore
  BY <1>0, <1>6, RestoreAgrees
<1>7. CASE UNCHANGED vars
  BY <1>0, <1>7, UntouchedAgrees DEF vars, Untouched
<1> QED BY <1>1, <1>2, <1>3, <1>4, <1>5, <1>6, <1>7 DEF Next

LEMMA InitAgrees == Init => RunInvariant
<1> SUFFICES ASSUME Init PROVE RunInvariant
  OBVIOUS
<1>1. TypeOK
  BY DEF Init, TypeOK
<1>2. ASSUME NEW r \in Runs PROVE Agrees(r)
  BY <1>2 DEF Init, Agrees, FollowsApprovals, CompletedMeansProven,
              EvidenceAnswersApproval, Waiting, Closed
<1> QED BY <1>1, <1>2 DEF RunInvariant

\* Whatever the order of decisions, deadlines, evidence and recoveries, the
\* status of every run, its approvals and its evidence agree.
THEOREM RowsAgree == Spec => []RunInvariant
<1>1. RunInvariant /\ [Next]_vars => RunInvariant'
  BY TypeStep, AgreesStep DEF RunInvariant
<1> QED BY InitAgrees, <1>1, PTL DEF Spec

\* A run that is not open has no approval left to act on, and so no operation
\* of a user changes it; a recovery finds nothing to interrupt in it.
LEMMA ClosedStep ==
  ASSUME RunInvariant, [Next]_vars, NEW q \in Runs, run[q] \in Closed
  PROVE  /\ run'[q] = run[q] /\ stage'[q] = stage[q]
         /\ approval'[q] = approval[q] /\ evidence'[q] = evidence[q]
<1> DEFINE Same == /\ run'[q] = run[q] /\ stage'[q] = stage[q]
                   /\ approval'[q] = approval[q] /\ evidence'[q] = evidence[q]
<1>0. /\ TypeOK /\ stage[q] # "waiting_approval"
      /\ \A p \in Plans : approval[q][p] \notin {"pending", "approved"}
  BY DEF RunInvariant, Agrees, FollowsApprovals, Waiting, Open, Closed
<1>1. ASSUME NEW r \in Runs, NEW plans \in SUBSET Plans,
             NEW w \in Workspaces \cup {NoSnapshot}, Create(r, plans, w)
      PROVE  Same
  <2>1. r # q
    BY <1>1 DEF Create, Closed
  <2> QED BY <1>0, <1>1, <2>1, OthersUntouched DEF Untouched
<1>2. ASSUME NEW r \in Runs, NEW p \in Plans, TimePasses(r, p)
      PROVE  Same
  BY <1>2 DEF TimePasses
<1>3. ASSUME NEW r \in Runs, NEW p \in Plans, Approve(r, p) \/ Reject(r, p)
      PROVE  Same
  <2>1. r # q
    BY <1>0, <1>3 DEF Approve, Reject, Decidable
  <2> QED BY <1>0, <1>3, <2>1, OthersUntouched DEF Untouched
<1>4. ASSUME NEW r \in Runs, NEW p \in Plans, NEW e \in Evidence, Ingest(r, p, e)
      PROVE  Same
  <2>1. r # q
    BY <1>0, <1>4 DEF Ingest
  <2> QED BY <1>0, <1>4, <2>1, OthersUntouched DEF Untouched
<1>5. CASE Restore
  <2>1. run'[q] = run[q]
    BY <1>5 DEF Restore, Interrupts, Closed
  <2>2. stage'[q] = stage[q]
    BY <1>0, <1>5 DEF Restore
  <2>3. approval'[q] = approval[q]
    BY <1>0, <1>5 DEF Restore, TypeOK
  <2> QED BY <1>5, <2>1, <2>2, <2>3 DEF Restore
<1>6. CASE UNCHANGED vars
  BY <1>6 DEF vars
<1> QED BY <1>1, <1>2, <1>3, <1>4, <1>5, <1>6 DEF Next

\* No decision, evidence or recovery changes a run once it was closed.
THEOREM ClosedRunsAreFinal == Spec => ClosedIsFinal
<1>1. RunInvariant /\ [Next]_vars =>
        [\A r \in Runs : run[r] \in Closed =>
           /\ run'[r] = run[r] /\ stage'[r] = stage[r]
           /\ approval'[r] = approval[r] /\ evidence'[r] = evidence[r]]_vars
  BY ClosedStep
<1> QED BY RowsAgree, <1>1, PTL DEF Spec, ClosedIsFinal
===============================================================================
