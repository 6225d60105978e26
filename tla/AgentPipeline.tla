---------------------------- MODULE AgentPipeline ----------------------------
(***************************************************************************)
(* The security agents' review of a scan (agents/pipeline.py): the         *)
(* evidence it numbers, the reachability it claims for each finding, the   *)
(* six stages with their status, and the narrative a model adds to each.   *)
(*                                                                         *)
(* A scan is [findings, endpoints, observations]: the findings of          *)
(* PathEvidence with their chain, evidence, rule and impact, its           *)
(* endpoints, and observations [id, method, path]. A model's reply is what *)
(* the second part accepts; where there is no model it is NoReply.         *)
(***************************************************************************)
EXTENDS PathEvidence

LOCAL INSTANCE SequencesExt

CONSTANTS MaxEvidence,   \* the evidence ids a trace may have
          MaxToolCalls,  \* the calls a stage's coordinator makes
          TracedByTools  \* the traces of a stage those calls are about

CONSTANTS OutputLimit,   \* max_output_bytes
          ResponseLimit  \* the bytes read of an OpenAI response

(***************************************************************************)
(* What the agents accept as a model's reply (agents/backends.py): the     *)
(* bounded run of a Codex or Claude Code process, the envelope of an       *)
(* OpenAI response, and the schema of the narrative.                       *)
(*                                                                         *)
(* A text is [json, value]: what it parses to, and as which narrative. A   *)
(* file is [is, size, text]. A reply is [ok, value, code].                 *)
(***************************************************************************)

Accepted(value) == [ok |-> TRUE, value |-> value, code |-> ""]
Refused(code) == [ok |-> FALSE, value |-> "nothing", code |-> code]

\* One object, no duplicate key and no constant that JSON lacks.
JsonObject(text) ==
  IF text.json = "object" THEN Accepted(text.value) ELSE Refused("invalid_response")

\* Every field is present and has its type.
ValidateNarrative(reply) ==
  IF reply.ok /\ reply.value # "narrative" THEN Refused("invalid_response") ELSE reply

(* ---- a process ------------------------------------------------------------------ *)

\* A turn of the select loop sees one of: the process took n bytes of the
\* prompt, closed its input, wrote n bytes (readable as text or not), closed a
\* stream, exited with a code, or put a file in the place of its message; or
\* the deadline passed.
Started(prompt) ==
  [pending |-> prompt, size |-> 0, text |-> TRUE, open |-> {"out", "err"}, exit |-> "running",
   stop |-> ""]

Ended(st) == st.stop # "" \/ (st.pending = 0 /\ st.open = {} /\ st.exit # "running")
Stop(st, code) == [st EXCEPT !.stop = code]

\* The message may only be a regular file within the limit, and only Codex has one.
CheckMessageFile(file) ==
  CASE file.is = "none" -> ""
    [] file.is # "regular" -> "invalid_response"
    [] file.size > OutputLimit -> "response_limit"
    [] OTHER -> ""

Turn(kind, st, e) ==
  CASE Ended(st) -> st
    [] e.is = "late" -> Stop(st, "timeout")
    [] e.is = "file" -> IF kind = "codex" THEN Stop(st, CheckMessageFile(e.file)) ELSE st
    [] e.is = "take" -> [st EXCEPT !.pending = IF e.n < @ THEN @ - e.n ELSE 0]
    [] e.is = "shut" -> IF st.pending > 0 THEN Stop(st, "process_error") ELSE st
    [] e.is = "write" -> IF st.size + e.n > OutputLimit THEN Stop(st, "response_limit")
                         ELSE [st EXCEPT !.size = @ + e.n, !.text = @ /\ e.text]
    [] e.is = "close" -> [st EXCEPT !.open = @ \ {e.stream}]
    [] OTHER -> [st EXCEPT !.exit = e.code]

\* A process that nothing ends is stopped at the deadline, and one that
\* nothing stopped must have exited with 0 and written text.
Run(kind, prompt, events) ==
  LET Outcome(st) ==
        CASE st.stop # "" -> st.stop
          [] ~Ended(st) -> "timeout"
          [] st.exit # "0" -> "process_error"
          [] ~st.text -> "invalid_response"
          [] OTHER -> ""
  IN  Outcome(FoldLeft(LAMBDA st, e : Turn(kind, st, e), Started(prompt), events))

\* After the run the message is opened without following a link and read again.
ReadMessageFile(file) ==
  CASE file.is # "regular" -> Refused("invalid_response")
    [] file.size > OutputLimit -> Refused("response_limit")
    [] OTHER -> JsonObject(file.text)

\* The wrapper Claude Code prints: [success, stop, result].
ReadWrapper(wrapper) ==
  CASE wrapper.json # "object" -> Refused("invalid_response")
    [] ~wrapper.success -> Refused("provider_error")
    [] wrapper.stop = "refusal" -> Refused("refused")
    [] wrapper.stop \notin {"none", "end_turn", "stop_sequence"} -> Refused("incomplete")
    [] wrapper.result.json = "no text" -> Refused("invalid_response")
    [] OTHER -> JsonObject(wrapper.result)

CommandTurn(kind, prompt, events, file, wrapper) ==
  LET Read(stop) == IF stop # "" THEN Refused(stop)
                    ELSE IF kind = "codex" THEN ReadMessageFile(file) ELSE ReadWrapper(wrapper)
  IN  Read(Run(kind, prompt, events))

(* ---- the two services --------------------------------------------------------------- *)

\* The messages of an OpenAI response in their order: anything but a message
\* or reasoning ends the reading, and so does a message that refuses.
OpenAIMessages(output) ==
  LET Bad(item) == item.type \notin {"message", "reasoning"}
      Declined(item) == item.type = "message" /\ "refusal" \in ToSet(item.parts)
      stops == {k \in DOMAIN output : Bad(output[k]) \/ Declined(output[k])}
      Earliest == output[CHOOSE k \in stops : \A j \in stops : k <= j]
  IN  [stop |-> IF stops = {} THEN "" ELSE IF Bad(Earliest) THEN "invalid_response" ELSE "refused",
       messages |-> SelectSeq(output, LAMBDA item : item.type = "message")]

OpenAIObject(envelope) ==
  LET Read(found) ==
        CASE found.stop # "" -> Refused(found.stop)
          [] Len(found.messages) # 1 -> Refused("invalid_response")
          [] ~found.messages[1].completed -> Refused("invalid_response")
          [] found.messages[1].parts # <<"output_text">> -> Refused("invalid_response")
          [] OTHER -> JsonObject(found.messages[1].text)
  IN  CASE envelope.status = "incomplete" -> Refused("incomplete")
        [] envelope.status # "completed" \/ envelope.error -> Refused("provider_error")
        [] envelope.details -> Refused("invalid_response")
        [] OTHER -> Read(OpenAIMessages(envelope.output))

\* A request is answered with a body, or fails; a redirect is a failure.
OpenAITurn(request) ==
  CASE request.is = "timeout" -> Refused("timeout")
    [] request.is # "body" -> Refused("provider_error")
    [] request.size > ResponseLimit -> Refused("response_limit")
    [] request.json # "object" -> Refused("invalid_response")
    [] OTHER -> OpenAIObject(request.envelope)

(***************************************************************************)
(* The stages of a review (agents/pipeline.py)                             *)
(***************************************************************************)

NoReply == [ok |-> FALSE, value |-> "nothing", code |-> "no model"]
Roles == <<"surface", "static", "dynamic", "cve", "synthesis", "steward">>

(* ---- evidence ------------------------------------------------------------------- *)

\* The evidence id of a finding's provenance, where a scan attached one.
FindingId(finding) == IF finding.evidence = <<>> THEN <<"finding", finding.id>> ELSE finding.evidence
SurfaceId(e) == <<"surface", e.repo, e.methods, e.path, e.file>>
RuntimeId(o) == o.id

EvidenceOf(scan) ==
  {[id |-> FindingId(f), observed |-> FALSE] : f \in ToSet(scan.findings)}
    \cup {[id |-> SurfaceId(e), observed |-> e.observed] : e \in ToSet(scan.endpoints)}
    \cup {[id |-> RuntimeId(o), observed |-> TRUE] : o \in ToSet(scan.observations)}

\* _trace: observations are cited by the endpoint's own method and path.
Trace(finding, scan) ==
  LET Cited(e) == {RuntimeId(o) :
                   o \in {o \in ToSet(scan.observations) : e.methods = {o.method} /\ e.path = o.path}}
      Claim(checked, found) ==
        LET observed == found /\ checked.endpoint.observed
        IN  [finding |-> finding, endpoint |-> checked.endpoint, complete |-> checked.gaps = {},
             observed |-> observed, proven |-> finding.proven /\ observed,
             ids |-> {FindingId(finding)} \cup (IF found THEN {SurfaceId(checked.endpoint)} \cup Cited(checked.endpoint)
                                                ELSE {})]
      Checked(checked) == Claim(checked, checked.endpoint # NoEndpoint)
  IN  Checked(InspectCallPath(finding.chain, scan.endpoints, finding))
Traces(scan) == [k \in DOMAIN scan.findings |-> Trace(scan.findings[k], scan)]

(* ---- the stages ------------------------------------------------------------------- *)

Plans(traces) == {t.finding : t \in {t \in ToSet(traces) : t.complete /\ ~t.observed}}
IdsOf(traces) == UNION {t.ids : t \in ToSet(traces)}

\* _cve: what the supplied evidence says of a candidate, and what it lacks.
AssessCve(candidate, observations) ==
  LET bound == candidate.verified /\ candidate.ids \cap observations # {}
  IN  CASE candidate.present = "no" \/ candidate.affected = "no" -> "not_affected"
        [] bound -> "exploitable_in_fixture"
        [] candidate.reachable = "yes" /\ candidate.affected = "yes" -> "reachable"
        [] candidate.present = "yes" /\ candidate.affected = "yes" -> "version_exposed"
        [] OTHER -> "needs_evidence"

\* What is said of a finding, and what the project should improve.
Likelihood(trace) ==
  CASE trace.proven -> "demonstrated_in_fixture"
    [] trace.observed -> "observed_surface"
    [] trace.complete -> "statically_reachable"
    [] OTHER -> "unresolved"
Proposals(scan, traces) ==
  {p \in {"reachability", "dynamic-validation", "evidence-ingestion"} :
     CASE p = "reachability" -> \E t \in ToSet(traces) : ~t.complete
       [] p = "dynamic-validation" -> Plans(traces) # {}
       [] OTHER -> scan.truncated}

\* What the role cites, and whether its own part is whole.
SurfaceCites(scan) == {SurfaceId(e) : e \in ToSet(scan.endpoints)}
StaticStatus(traces) ==
  IF traces = <<>> \/ \E t \in ToSet(traces) : t.complete THEN "completed" ELSE "partial"
DynamicStatus(traces) == IF Plans(traces) = {} THEN "completed" ELSE "waiting_approval"
Stage(role, scan, traces, cves) ==
  LET Status == CASE role = "static" -> StaticStatus(traces)
                  [] role = "dynamic" -> DynamicStatus(traces)
                  [] OTHER -> "completed"
      Cites == CASE role = "surface" -> SurfaceCites(scan)
                 [] role = "dynamic" -> IdsOf(SelectSeq(traces, LAMBDA t : t.observed))
                 [] role = "cve" -> UNION {c.ids : c \in cves}
                 [] role = "steward" -> {}
                 [] OTHER -> IdsOf(traces)
  IN  [role |-> role, status |-> Status, cites |-> Cites, narrated |-> FALSE, error |-> "",
       about |-> IF role \in {"static", "dynamic", "synthesis"} THEN traces ELSE <<>>]

\* collect: the facts of the workspace, then of each trace, as far as the limit.
AllowedTools(role) ==
  CASE role = "surface" -> {"workspace_summary", "attack_surface", "call_path"}
    [] role = "static" -> {"finding_context", "call_path", "attack_surface", "workspace_summary"}
    [] role = "dynamic" -> {"finding_context", "call_path", "harness_plan"}
    [] role = "synthesis" -> {"finding_context", "call_path", "attack_surface"}
    [] role = "cve" -> {"workspace_summary", "call_path", "harness_plan"}
    [] OTHER -> {"workspace_summary"}
Collect(stage) ==
  LET Call(name, id) == <<"tool", stage.role, name, id>>
      Calls(names, id) ==
        FoldLeft(LAMBDA s, n : IF n \in AllowedTools(stage.role) THEN Append(s, Call(n, id))
                               ELSE s, <<>>, names)
      traced == SubSeq(stage.about, 1, IF Len(stage.about) < TracedByTools THEN Len(stage.about)
                                       ELSE TracedByTools)
      all == FoldLeft(LAMBDA s, t : s \o Calls(<<"finding_context", "call_path", "harness_plan">>, t.finding.id),
                      Calls(<<"workspace_summary", "attack_surface">>, 0), traced)
  IN  SubSeq(all, 1, IF Len(all) < MaxToolCalls THEN Len(all) ELSE MaxToolCalls)

\* A failed narrative takes a completed stage back to partial, and leaves one
\* that waits for an approval waiting.
AttachNarrative(stage, reply) ==
  CASE reply = NoReply -> stage
    [] reply.ok -> [stage EXCEPT !.narrated = TRUE]
    [] OTHER -> [[stage EXCEPT !.error = reply.code] EXCEPT !.status = IF @ = "completed" THEN "partial"
                                                                       ELSE @]

(* ---- the run ------------------------------------------------------------------------ *)

RunStatus(stages) ==
  CASE \E s \in ToSet(stages) : s.status = "waiting_approval" -> "awaiting_approval"
    [] \E s \in ToSet(stages) : s.status \in {"partial", "failed"} -> "partial"
    [] OTHER -> "completed"

\* A trace with too many ids is refused by its schema, and the run with it.
RunPipeline(scan, cves, replies) ==
  LET Closed(stages) ==
        [status |-> RunStatus(stages), stages |-> stages, proposals |-> Proposals(scan, Traces(scan)),
         evidence |-> {e.id : e \in EvidenceOf(scan)}
                        \cup UNION {ToSet(Collect(s)) :
                                    s \in {s \in ToSet(stages) : replies[s.role] # NoReply}}]
      Reviewed(traces) ==
        IF \E t \in ToSet(traces) : Cardinality(t.ids) > MaxEvidence
        THEN [status |-> "raised", stages |-> <<>>, proposals |-> {}, evidence |-> {}]
        ELSE Closed([k \in DOMAIN Roles |-> AttachNarrative(Stage(Roles[k], scan, traces, cves), replies[Roles[k]])])
  IN  Reviewed(Traces(scan))

=============================================================================
