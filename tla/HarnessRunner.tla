--------------------------- MODULE HarnessRunner ---------------------------
(***************************************************************************)
(* The trusted driver that runs inside a verification container            *)
(* (harness/proxy_runner.py, http_runner.py, browser_runner.py): it starts *)
(* the service under test, sends it the cases of its plan, stops the       *)
(* service, writes an evidence file and exits.  The proxy driver is        *)
(* concurrent: a client sends each case through an intercepting proxy      *)
(* whose handler threads change the request, forward it, answer the client *)
(* and only then record the case, while the client records a case it gave  *)
(* up on.                                                                  *)
(*                                                                         *)
(* A case is an id and the statuses it expects; the bytes of requests and  *)
(* answers and their digests are left out.                                 *)
(***************************************************************************)
EXTENDS Integers, Sequences, FiniteSets

CONSTANT Statuses      \* what the service may answer

VARIABLES plan,        \* the plan file: the driver reads its kind and its cases
          runner,      \* "off", "starting", "cases", "stopping", "writing", "exited" or "crashed"
          case,        \* the case (the scenario of a browser plan) the client works on
          client,      \* "idle", "waiting", "answered" or "dropped"
          handler,     \* the handler thread of each case
          draft,       \* the record each handler is filling in
          records,     \* the proxy's table: the record of each case id
          served,      \* what the service really answered in each case
          observed,    \* the browser saw an answer
          runError,    \* the service did not come up, or the cases broke off
          rows,        \* the records for the evidence file
          exit         \* the exit code, -1 before the end

runnerVars == <<runner, case, client, handler, draft, records, served, observed, runError,
                rows, exit>>

Cases == DOMAIN plan.cases
Id(c) == plan.cases[c].id
Ids == {Id(c) : c \in Cases}
Expects(c) == plan.cases[c].expects

NoStatus == "none"
Record(status, passed, error) == [status |-> status, passed |-> passed, error |-> error]
NoRecord == Record("unrecorded", FALSE, FALSE)
Unanswered == Record(NoStatus, FALSE, FALSE)
Failure == Record(NoStatus, FALSE, TRUE)
Judged(c, s) == Record(s, s \in Expects(c), FALSE)

Alive == runner \in {"starting", "cases", "stopping", "writing"}
Crash == runner' = "crashed" /\ exit' = 1

RunnerOff == /\ runner = "off" /\ case = 1 /\ client = "idle"
             /\ handler = [c \in Cases |-> "none"]
             /\ draft = [c \in Cases |-> Unanswered]
             /\ records = [i \in Ids |-> NoRecord]
             /\ served = [c \in Cases |-> NoStatus]
             /\ observed = FALSE /\ runError = FALSE
             /\ rows = <<>> /\ exit = -1

(* ---- the service ------------------------------------------------------- *)

\* The command of the service does not exist: Popen raises outside the try.
ServiceMissing ==
  /\ runner = "starting" /\ Crash
  /\ UNCHANGED <<case, client, handler, draft, records, served, observed, runError, rows>>

ServiceListens ==
  /\ runner = "starting" /\ runner' = "cases"
  /\ UNCHANGED <<case, client, handler, draft, records, served, observed, runError, rows, exit>>

BreakOff == runner' = "stopping" /\ runError' = TRUE

ServiceNeverListens ==
  /\ runner = "starting" /\ BreakOff
  /\ UNCHANGED <<case, client, handler, draft, records, served, observed, rows, exit>>

\* The service is terminated, then killed; waiting for the killed process can
\* time out as well.
StopService(stopped) ==
  /\ runner = "stopping"
  /\ IF stopped THEN runner' = "writing" /\ UNCHANGED exit ELSE Crash
  /\ UNCHANGED <<case, client, handler, draft, records, served, observed, runError, rows>>

(* ---- the proxy driver: its client ------------------------------------- *)

Sending == runner = "cases" /\ case \in Cases /\ client = "idle"
NextCase == client' = "idle" /\ case' = case + 1

SendCase ==
  /\ plan.kind = "proxy" /\ Sending
  /\ client' = "waiting"
  /\ handler' = [handler EXCEPT ![case] = "received"]
  /\ UNCHANGED <<runner, case, draft, records, served, observed, runError, rows, exit>>

\* http.client refuses the URL of the case (a space in its path) with an
\* exception nobody catches.
SendMalformedCase ==
  /\ plan.kind \in {"proxy", "http"} /\ Sending /\ Crash
  /\ UNCHANGED <<case, client, handler, draft, records, served, observed, runError, rows>>

ReadAnswer ==
  /\ runner = "cases" /\ client = "answered" /\ NextCase
  /\ UNCHANGED <<runner, handler, draft, records, served, observed, runError, rows, exit>>

\* The client times out, finds its connection closed, or gets none: the proxy
\* could not start a handler thread.
GiveUpCase ==
  /\ plan.kind = "proxy" /\ (Sending \/ (runner = "cases" /\ client \in {"waiting", "dropped"}))
  /\ records' = [records EXCEPT ![Id(case)] = Failure] /\ NextCase
  /\ UNCHANGED <<runner, handler, draft, served, observed, runError, rows, exit>>

(* ---- the proxy driver: a handler thread -------------------------------- *)

Handling(c, phase) == Alive /\ c \in Cases /\ handler[c] = phase
Moves(c, phase) == handler' = [handler EXCEPT ![c] = phase]

\* The case a handler finds under the id of its request: the last with that id.
Found(c) == CHOOSE d \in Cases : /\ Id(d) = Id(c)
                                 /\ \A e \in Cases : Id(e) = Id(c) => e <= d

\* The request left the origin or is too large, or its mutations cannot be
\* applied or leave the loopback-relative path: it is answered with 502.
RefuseCase(c) ==
  /\ Handling(c, "received") /\ Moves(c, "replying")
  /\ draft' = [draft EXCEPT ![c] = Failure]
  /\ UNCHANGED <<runner, case, client, records, served, observed, runError, rows, exit>>

ForwardCase(c) ==
  /\ Handling(c, "received") /\ Moves(c, "forwarded")
  /\ UNCHANGED <<runner, case, client, draft, records, served, observed, runError, rows, exit>>

ServiceAnswers(c, s) ==
  /\ Handling(c, "forwarded") /\ Moves(c, "replying")
  /\ draft' = [draft EXCEPT ![c] = Judged(Found(c), s)]
  /\ served' = [served EXCEPT ![c] = s]
  /\ UNCHANGED <<runner, case, client, records, observed, runError, rows, exit>>

ServiceFails(c) ==
  /\ Handling(c, "forwarded") /\ Moves(c, "replying")
  /\ draft' = [draft EXCEPT ![c] = Failure]
  /\ UNCHANGED <<runner, case, client, records, served, observed, runError, rows, exit>>

\* http.client refuses the mutated request, or the answer is not HTTP: the
\* exception escapes, and the record is made in the finally clause.
ExchangeGarbled(c) ==
  /\ Handling(c, "received") \/ Handling(c, "forwarded")
  /\ Moves(c, "closing")
  /\ UNCHANGED <<runner, case, client, draft, records, served, observed, runError, rows, exit>>

WaitedFor(c) == case = c /\ client = "waiting"

\* A reply the client no longer waits for may fail, which marks the draft and
\* leaves its verdict, or vanish in the buffer of the closed connection.
ReplyToClient(c) ==
  /\ Handling(c, "replying") /\ Moves(c, "recording")
  /\ \/ WaitedFor(c) /\ client' = "answered" /\ UNCHANGED draft
     \/ /\ ~WaitedFor(c) /\ UNCHANGED client
        /\ draft' = [draft EXCEPT ![c].error = TRUE] \/ UNCHANGED draft
  /\ UNCHANGED <<runner, case, records, served, observed, runError, rows, exit>>

RecordCase(c) ==
  /\ Handling(c, "recording") \/ Handling(c, "closing")
  /\ Moves(c, "done")
  /\ records' = [records EXCEPT ![Id(c)] = draft[c]]
  /\ client' = IF WaitedFor(c) THEN "dropped" ELSE client
  /\ UNCHANGED <<runner, case, draft, served, observed, runError, rows, exit>>

\* The table is read once, after the last case; a case its handler has not
\* recorded yet is missing there, and the lookup fails.
Missing == {c \in Cases : records[Id(c)] = NoRecord}

CollectRecords ==
  /\ plan.kind = "proxy" /\ runner = "cases" /\ case > Len(plan.cases)
  /\ IF Missing = {}
     THEN /\ runner' = "stopping" /\ UNCHANGED exit
          /\ rows' = [c \in Cases |-> records[Id(c)]]
     ELSE Crash /\ UNCHANGED rows
  /\ UNCHANGED <<case, client, handler, draft, records, served, observed, runError>>

(* ---- the HTTP and browser drivers -------------------------------------- *)

RequestCase(s) ==
  /\ plan.kind = "http" /\ Sending
  /\ rows' = Append(rows, Judged(case, s))
  /\ served' = [served EXCEPT ![case] = s]
  /\ NextCase
  /\ UNCHANGED <<runner, handler, draft, records, observed, runError, exit>>

RequestFails ==
  /\ plan.kind = "http" /\ Sending
  /\ rows' = Append(rows, Failure) /\ NextCase
  /\ UNCHANGED <<runner, handler, draft, records, served, observed, runError, exit>>

\* Reading the body of an error answer times out, inside the except clause.
RequestBreaksOff ==
  /\ plan.kind = "http" /\ Sending /\ BreakOff
  /\ UNCHANGED <<case, client, handler, draft, records, served, observed, rows, exit>>

\* A page answer of any status is an observation that passed.
ObserveAnswer(s) ==
  /\ plan.kind = "browser" /\ Sending
  /\ observed' = TRUE /\ served' = [served EXCEPT ![case] = s]
  /\ UNCHANGED <<runner, case, client, handler, draft, records, runError, rows, exit>>

PlayScenario(ok) ==
  /\ plan.kind = "browser" /\ Sending
  /\ rows' = Append(rows, Record(NoStatus, ok, ~ok)) /\ NextCase
  /\ UNCHANGED <<runner, handler, draft, records, served, observed, runError, exit>>

\* The browser does not start or close: its exceptions are only caught when
\* they are operating system errors.
BrowserFails ==
  /\ plan.kind = "browser" /\ runner = "cases"
  /\ (BreakOff /\ UNCHANGED exit) \/ (Crash /\ UNCHANGED runError)
  /\ UNCHANGED <<case, client, handler, draft, records, served, observed, rows>>

FinishCases ==
  /\ plan.kind # "proxy" /\ runner = "cases" /\ case > Len(plan.cases)
  /\ runner' = "stopping"
  /\ UNCHANGED <<case, client, handler, draft, records, served, observed, runError, rows, exit>>

(* ---- the end ------------------------------------------------------------ *)

Succeeds == /\ ~runError /\ rows # <<>>
            /\ \A c \in DOMAIN rows : rows[c].passed
            /\ plan.kind = "browser" => observed

WriteEvidence ==
  /\ runner = "writing" /\ runner' = "exited"
  /\ exit' = IF Succeeds THEN 0 ELSE 1
  /\ UNCHANGED <<case, client, handler, draft, records, served, observed, runError, rows>>

\* The container is killed from outside: out of memory.
DriverKilled ==
  /\ Alive /\ Crash
  /\ UNCHANGED <<case, client, handler, draft, records, served, observed, runError, rows>>

HandlerStep(c) ==
  \/ RefuseCase(c) \/ ForwardCase(c) \/ ServiceFails(c) \/ ExchangeGarbled(c)
  \/ ReplyToClient(c) \/ RecordCase(c)
  \/ \E s \in Statuses : ServiceAnswers(c, s)

\* Everything but the end, which the container sees.
RunnerStep ==
  \/ ServiceMissing \/ ServiceListens \/ ServiceNeverListens
  \/ \E stopped \in BOOLEAN : StopService(stopped)
  \/ SendCase \/ SendMalformedCase \/ ReadAnswer \/ GiveUpCase
  \/ \E c \in Cases : HandlerStep(c)
  \/ CollectRecords
  \/ \E s \in Statuses : RequestCase(s) \/ ObserveAnswer(s)
  \/ RequestFails \/ RequestBreaksOff
  \/ \E ok \in BOOLEAN : PlayScenario(ok)
  \/ BrowserFails \/ FinishCases \/ DriverKilled
=============================================================================
