----------------------------- MODULE SourceReview -----------------------------
(***************************************************************************)
(* AI review over source evidence.  A catalog is captured from the files a *)
(* scan parsed, while they may change; then either the six agent stages    *)
(* explore it round by round (loop "stages"), or one finding is reviewed   *)
(* (loop "finding").  The model's answers are arbitrary: tool requests,    *)
(* final answers with any citations, errors.                               *)
(***************************************************************************)
EXTENDS SourceTools

CONSTANTS Files,          \* paths, numbered in the order they sort
          Text,           \* Text[f][v]: the lines of version v of file f
          Scans,          \* scans: functions from the analysed files to versions
          Findings,       \* [file, first, last, traced]
          Roles,          \* the stages a run goes through, in order
          Requests,       \* tool requests a model may make: [tool, file, first, last]
          Batches,        \* sequences of requests a model makes in one turn
          Invented,       \* citations a model makes up
          MaxSourceFiles, MaxFileSize, MaxTotalSize,   \* limits of the catalog
          MaxRounds, MaxToolCalls, MaxEvidence,        \* limits of a review
          MaxPrompt,      \* limit of a prompt, less its fixed part
          MaxEdits        \* bound of the exploration

ASSUME ReviewAssumption ==
  /\ {MaxReadLines, MaxReadSize, MaxSearchFiles, MaxSearchSize, MaxMatches, MaxOutput,
      MaxSourceFiles, MaxFileSize, MaxTotalSize, MaxRounds, MaxToolCalls, MaxEvidence,
      MaxPrompt, MaxEdits} \subseteq Nat
  /\ MaxRounds > 0 /\ MaxSearchFiles > 0 /\ MaxMatches > 0 /\ MaxFileSize <= MaxSearchSize
  /\ Files \subseteq Nat /\ IsFiniteSet(Files)
  /\ Text \in [Files -> Seq(Seq({"plain", "match", "long"}))]
  /\ \A s \in Scans : DOMAIN s \subseteq Files /\ \A f \in DOMAIN s : s[f] \in DOMAIN Text[f]
  /\ Requests \subseteq [tool : STRING, file : Nat, first : Nat \ {0}, last : Nat]
  /\ Batches \subseteq Seq(Requests) \ {<< >>}

VARIABLES disk,       \* the version each file holds (0: it cannot be read)
          parsed,     \* the scan whose ASTs the catalog is captured from
          scan,       \* the scan under review
          observed,   \* the findings whose endpoint was seen at run time
          todo,       \* files still to capture
          entries,    \* admitted files
          omissions,  \* gap_counts of the catalog
          edits,
          loop, backend, stage, pc,
          round, modelCalls, toolCalls,
          results,    \* the tool results shown to the model
          cache, issued, evidence, shown, pending,
          gaps, stop, status, cited,
          answer, verdict,
          statuses    \* of the stages that are over

catalog == <<parsed, scan, observed, entries, omissions>>
files == <<disk, edits, todo>>
session == <<round, modelCalls, toolCalls, results, cache, issued, evidence, shown, pending>>
outcome == <<gaps, stop, status, cited, answer, verdict>>
vars == <<catalog, files, loop, backend, stage, pc, session, outcome, statuses>>

(* -------------------------------- catalog ------------------------------ *)

TotalSize(S) ==
  Cardinality(UNION {{e.file} \X (1..FileSize(e)) : e \in S})

Admitted(f) == [file |-> f, digest |-> disk[f], lines |-> Text[f][disk[f]]]

\* Mutant of WhyNotAdmitted: a file is admitted as it is now.
WhyNotAdmittedToday(f) == IF disk[f] = 0 THEN {"source_unavailable_or_linked"} ELSE {}

\* Why capture does not admit a file, in the order it asks; {} when it does.
WhyNotAdmitted(f) ==
  LET room == MaxTotalSize - TotalSize(entries)
      size == FileSize(Admitted(f))
  IN IF Cardinality(entries) >= MaxSourceFiles \/ room <= 0 THEN {"source_catalog_limit"}
     ELSE IF disk[f] = 0 THEN {"source_unavailable_or_linked"}
     ELSE IF size > MaxFileSize \/ size > room THEN {"source_type_or_size_limit"}
     ELSE IF disk[f] # parsed[f] THEN {"source_changed_after_parse"} ELSE {}

\* bind_scan: the entries that hold what the reviewed scan analysed.
Bound(es) == {e \in es : e.file \in DOMAIN scan /\ e.digest = scan[e.file]}

\* The entry of the file a finding lies in, if any.
FindingLocation(x) == {e \in entries : e.file = x.file}

Covers(c, x) == c.file = x.file /\ c.first <= x.first /\ x.last <= c.last

(* --------------------------------- tools ------------------------------- *)

Ordered(es) ==
  [i \in 1..Cardinality(es) |->
     CHOOSE e \in es : Cardinality({d \in es : d.file < e.file}) = i - 1]

\* ToolRegistry.execute.  "context" stands for the tools that return scanner
\* evidence and cite no source; a name that is not registered is refused.
Execute(q) ==
  IF q.tool = "read" /\ \E e \in entries : e.file = q.file
  THEN Read(CHOOSE e \in entries : e.file = q.file, q.first, q.last)
  ELSE IF q.tool = "search" /\ q.file > 0 THEN Search(Ordered(entries), <<q.file, q.first>>)
  ELSE IF q.tool = "context" THEN [ok |-> TRUE, truncated |-> FALSE, cites |-> {}, size |-> 1]
  ELSE Refused

OverLimit == [ok |-> FALSE, truncated |-> TRUE, cites |-> {}, size |-> 1]

Stored(q, r) == [p \in DOMAIN cache \cup {q} |-> IF p = q THEN r ELSE cache[p]]

(* -------------------------------- stages ------------------------------- *)

\* The deterministic status of a stage, from the traces of the findings.
InitialStatus(role) ==
  IF role = "static" /\ Findings # {} /\ \A x \in Findings : ~x.traced THEN "partial"
  ELSE IF role = "dynamic" /\ \E x \in Findings : x.traced /\ x \notin observed
  THEN "waiting_approval" ELSE "completed"

Downgrade(s) == IF s = "completed" THEN "partial" ELSE s

RunStatus ==
  LET held == {statuses[i] : i \in DOMAIN statuses}
  IN IF "waiting_approval" \in held THEN "awaiting_approval"
     ELSE IF "partial" \in held THEN "partial" ELSE "completed"

\* A stage ends: with a stop code, with gaps, or clean.
Close(code, g) ==
  /\ stop' = code /\ gaps' = g
  /\ status' = (IF g = {} THEN status ELSE Downgrade(status))
  /\ pc' = "closed"

NoSession ==
  /\ round' = 1 /\ modelCalls' = 0 /\ toolCalls' = 0 /\ results' = << >>
  /\ cache' = << >> /\ issued' = {} /\ evidence' = 0 /\ shown' = 0 /\ pending' = << >>
  /\ cited' = {}

(* ------------------------------- behaviour ----------------------------- *)

Init ==
  /\ scan \in Scans /\ parsed \in Scans /\ observed \in {{}, Findings}
  /\ disk = [f \in Files |-> IF f \in DOMAIN parsed THEN parsed[f] ELSE 0]
  /\ todo = DOMAIN parsed /\ entries = {} /\ omissions = {} /\ edits = 0
  /\ loop \in {"stages", "finding"} /\ (loop = "finding" => parsed = scan /\ observed = {})
  /\ backend \in {"none", "narrative", "single", "turns"} /\ (loop = "finding" => backend = "turns")
  /\ stage = 1 /\ pc = "capture"
  /\ round = 1 /\ modelCalls = 0 /\ toolCalls = 0 /\ results = << >>
  /\ cache = << >> /\ issued = {} /\ evidence = 0 /\ shown = 0 /\ pending = << >>
  /\ gaps = {} /\ stop = "" /\ status = "" /\ cited = {}
  /\ answer = [verdict |-> "none", cites |-> {}] /\ verdict = "none"
  /\ statuses = << >>

\* Somebody edits or removes a file.
Edit(f, v) ==
  /\ edits < MaxEdits /\ v # disk[f] /\ todo # {}
  /\ disk' = [disk EXCEPT ![f] = v] /\ edits' = edits + 1
  /\ UNCHANGED <<catalog, todo, loop, backend, stage, pc, session, outcome, statuses>>

\* SourceCatalog.capture takes the next parsed file.
Capture ==
  LET f == Least(todo)
  IN /\ pc = "capture" /\ todo # {}
     /\ todo' = todo \ {f}
     /\ entries' = (IF WhyNotAdmitted(f) = {} THEN entries \cup {Admitted(f)} ELSE entries)
     /\ omissions' = omissions \cup WhyNotAdmitted(f)
     /\ UNCHANGED <<disk, edits, parsed, scan, observed, loop, backend, stage, pc, session, outcome,
                    statuses>>

\* The catalog is bound to the reviewed scan (stages), or used as it is.
Bind ==
  LET bound == IF loop = "stages" /\ backend \in {"single", "turns"} THEN Bound(entries)
               ELSE entries
      held == {e.file : e \in bound}
  IN /\ pc = "capture" /\ todo = {}
     /\ entries' = bound
     /\ omissions' = omissions
          \cup (IF bound # entries THEN {"source_scan_binding_mismatch"} ELSE {})
          \cup (IF loop = "stages" /\ DOMAIN scan \ held # {}
                THEN {"source_manifest_files_unavailable"} ELSE {})
          \cup (IF loop = "stages" /\ scan = << >> THEN {"source_manifest_unavailable"} ELSE {})
     /\ pc' = (IF loop = "stages" THEN "stage" ELSE "ask")
     /\ gaps' = (IF loop = "finding" /\ omissions' # {} THEN {"source_omissions"} ELSE {})
     /\ stop' = (IF loop = "finding" THEN "final_review" ELSE "")
     /\ UNCHANGED <<files, parsed, scan, observed, loop, backend, stage, session, status, cited, answer,
                    verdict, statuses>>

(* The agent stages: SecurityAgentPipeline.run and AgentSourceExplorer.    *)

\* A stage starts from the status its deterministic part gave it.
StartStage ==
  /\ pc = "stage" /\ stage <= Len(Roles)
  /\ NoSession
  /\ LET initial == InitialStatus(Roles[stage])
         stopped(code) == /\ stop' = code /\ gaps' = {code} /\ status' = Downgrade(initial)
                          /\ pc' = "closed"
     IN \/ /\ backend = "none" /\ pc' = "closed"
           /\ stop' = "" /\ gaps' = {} /\ status' = initial
        \/ /\ backend = "narrative" /\ pc' = "narrate"
           /\ stop' = "" /\ gaps' = {} /\ status' = initial
        \/ /\ backend \in {"single", "turns"} /\ entries = {} /\ stopped("source_unavailable")
        \/ /\ backend = "single" /\ entries # {} /\ stopped("unsupported_tool_backend")
        \/ /\ backend = "turns" /\ entries # {} /\ pc' = "ask"
           /\ stop' = "" /\ status' = initial
           /\ gaps' = (IF omissions # {} THEN {"source_catalog_gaps"} ELSE {})
  /\ UNCHANGED <<catalog, files, loop, backend, stage, answer, verdict, statuses>>

\* Without source tools a stage asks once for a narrative.
Narrate(ok) ==
  /\ pc = "narrate"
  /\ modelCalls' = 1
  /\ Close("", IF ok THEN {} ELSE {"backend_error"})
  /\ UNCHANGED <<catalog, files, loop, backend, stage, round, toolCalls, results, cache, issued,
                 evidence, shown, pending, cited, answer, verdict, statuses>>

\* A prompt carries every result so far; one that is too large is not sent.
Asks(l) == pc = "ask" /\ loop = l
Sendable == shown <= MaxPrompt

PromptLimit ==
  /\ Asks("stages") /\ ~Sendable
  /\ Close("prompt_limit", gaps \cup {"prompt_limit"})
  /\ UNCHANGED <<catalog, files, loop, backend, stage, session, cited, answer, verdict,
                 statuses>>

\* The call fails, or its answer is not a valid turn.
TurnFails(code) ==
  /\ Asks("stages") /\ Sendable
  /\ modelCalls' = modelCalls + 1
  /\ Close(code, gaps \cup {code})
  /\ UNCHANGED <<catalog, files, loop, backend, stage, round, toolCalls, results, cache, issued,
                 evidence, shown, pending, cited, answer, verdict, statuses>>

CoverageGaps(c) ==
  IF Roles[stage] \in {"static", "synthesis"}
       /\ \E x \in Findings : FindingLocation(x) = {} \/ ~\E y \in c : Covers(y, x)
  THEN {"finding_source_coverage_incomplete"} ELSE {}

TurnFinal(c) ==
  /\ Asks("stages") /\ Sendable
  /\ modelCalls' = modelCalls + 1
  /\ cited' = c \cap issued
  /\ Close("final", gaps \cup CoverageGaps(cited')
       \cup (IF c \subseteq issued THEN {} ELSE {"invalid_source_citations"})
       \cup (IF cited' # {} THEN {} ELSE {"source_citations_required"}))
  /\ UNCHANGED <<catalog, files, loop, backend, stage, round, toolCalls, results, cache, issued,
                 evidence, shown, pending, answer, verdict, statuses>>

\* Tools are requested: not in the last round, and never beyond the limit.
TurnTools(requests) ==
  /\ Asks("stages") /\ Sendable
  /\ modelCalls' = modelCalls + 1
  /\ IF round = MaxRounds
     THEN Close("round_limit", gaps \cup {"round_limit"}) /\ UNCHANGED pending
     ELSE IF Len(results) + Len(requests) > MaxToolCalls
     THEN Close("tool_limit", gaps \cup {"tool_limit"}) /\ UNCHANGED pending
     ELSE pending' = requests /\ pc' = "tools" /\ UNCHANGED <<gaps, stop, status>>
  /\ UNCHANGED <<catalog, files, loop, backend, stage, round, toolCalls, results, cache, issued,
                 evidence, shown, cited, answer, verdict, statuses>>

Shown(q, r) == [request |-> q, ok |-> r.ok, truncated |-> r.truncated, cites |-> r.cites]

\* The next requested tool of a stage.  A result that would exceed the
\* evidence budget is dropped and ends the review.
StageTool ==
  LET q == Head(pending)
      r == IF q \in DOMAIN cache THEN cache[q] ELSE Execute(q)
      over == evidence + r.size > MaxEvidence
      kept == IF over THEN OverLimit ELSE r
      g == gaps \cup (IF over THEN {"evidence_limit"} ELSE {})
             \cup (IF ~kept.ok \/ kept.truncated THEN {"tool_error_or_truncation"} ELSE {})
      usable == ~over /\ r.ok /\ ~r.truncated
  IN /\ pc = "tools" /\ loop = "stages"
     /\ toolCalls' = (IF q \in DOMAIN cache THEN toolCalls ELSE toolCalls + 1)
     /\ results' = Append(results, Shown(q, kept))
     /\ shown' = shown + kept.size
     /\ evidence' = (IF over THEN evidence ELSE evidence + r.size)
     /\ cache' = (IF usable THEN Stored(q, r) ELSE cache)
     /\ issued' = (IF usable
                   THEN issued \cup {c \in r.cites : ValidCitation(entries, c)} ELSE issued)
     /\ pending' = Tail(pending)
     /\ IF over THEN Close("evidence_limit", g \cup {"evidence_limit"}) /\ UNCHANGED round
        ELSE /\ gaps' = g /\ UNCHANGED <<stop, status>>
             /\ IF Len(pending) = 1 THEN pc' = "ask" /\ round' = round + 1
                ELSE UNCHANGED <<pc, round>>
     /\ UNCHANGED <<catalog, files, loop, backend, stage, modelCalls, cited, answer, verdict,
                    statuses>>

NextStage ==
  /\ pc = "closed"
  /\ statuses' = Append(statuses, status)
  /\ stage' = stage + 1 /\ pc' = "stage"
  /\ NoSession
  /\ gaps' = {} /\ stop' = "" /\ status' = ""
  /\ UNCHANGED <<catalog, files, loop, backend, answer, verdict>>

FinishRun ==
  /\ pc = "stage" /\ stage > Len(Roles)
  /\ status' = RunStatus /\ pc' = "done"
  /\ UNCHANGED <<catalog, files, loop, backend, stage, session, gaps, stop, cited, answer,
                 verdict, statuses>>

(* The review of one finding: AISTASTOrchestrator.                         *)

Stops == {"model_error", "prompt_limit", "invalid_response"}

FindingKeeps ==
  /\ UNCHANGED <<catalog, files, loop, backend, stage, status, statuses, cited, verdict>>

\* The loop is left: with one more call, unless it could not be used.
Leave(code) == stop' = code /\ pc' = (IF code \in Stops THEN "decide" ELSE "last")

AskPromptLimit ==
  /\ pc \in {"ask", "last"} /\ loop = "finding" /\ ~Sendable
  /\ Leave("prompt_limit") /\ gaps' = gaps \cup {"prompt_limit"}
  /\ UNCHANGED <<session, answer>> /\ FindingKeeps

AskFails(code) ==
  /\ pc \in {"ask", "last"} /\ loop = "finding" /\ Sendable
  /\ code = "invalid_response" => pc = "ask"
  /\ modelCalls' = modelCalls + 1
  /\ Leave(code) /\ gaps' = gaps \cup {code}
  /\ UNCHANGED <<round, toolCalls, results, cache, issued, evidence, shown, pending, answer>>
  /\ FindingKeeps

\* An answer without requests: a verdict, or nothing (then it is asked again).
AskAnswers(v, c) ==
  /\ Asks("finding") /\ Sendable
  /\ modelCalls' = modelCalls + 1
  /\ pc' = (IF v = "none" THEN "last" ELSE "decide")
  /\ answer' = (IF v = "none" THEN answer ELSE [verdict |-> v, cites |-> c])
  /\ UNCHANGED <<round, toolCalls, results, cache, issued, evidence, shown, pending, gaps, stop>>
  /\ FindingKeeps

\* Mutant of AskTools: the budget is compared once per turn.
AskToolsUncut(requests) ==
  /\ Asks("finding") /\ Sendable /\ toolCalls < MaxToolCalls
  /\ modelCalls' = modelCalls + 1
  /\ pending' = requests /\ pc' = "tools"
  /\ UNCHANGED <<round, toolCalls, results, cache, issued, evidence, shown, answer, gaps, stop>>
  /\ FindingKeeps

\* Requests beyond the budget are cut, and the review can no longer decide.
AskTools(requests) ==
  LET remaining == MaxToolCalls - toolCalls
      cut == Len(requests) > remaining
  IN /\ Asks("finding") /\ Sendable
     /\ modelCalls' = modelCalls + 1
     /\ pending' = (IF cut THEN SubSeq(requests, 1, remaining) ELSE requests)
     /\ stop' = (IF cut THEN "tool_limit" ELSE stop)
     /\ gaps' = (IF cut THEN gaps \cup {"tool_limit"} ELSE gaps)
     /\ pc' = "tools"
     /\ UNCHANGED <<round, toolCalls, results, cache, issued, evidence, shown, answer>>
     /\ FindingKeeps

\* The next requested tool of a finding.  Every result is cached, and the
\* remaining requests run even when the evidence budget is reached.
FindingTool ==
  LET q == Head(pending)
      r == IF q \in DOMAIN cache THEN cache[q] ELSE Execute(q)
      over == evidence + r.size > MaxEvidence
      kept == IF over THEN OverLimit ELSE r
  IN /\ pc = "tools" /\ loop = "finding" /\ pending # << >>
     /\ toolCalls' = toolCalls + 1 /\ pending' = Tail(pending)
     /\ IF q.tool = "malformed"
        THEN /\ stop' = "invalid_response" /\ gaps' = gaps \cup {"invalid_request"}
             /\ UNCHANGED <<results, shown, evidence, cache, issued>>
        ELSE /\ results' = Append(results, Shown(q, kept))
             /\ shown' = shown + kept.size
             /\ evidence' = (IF over THEN evidence ELSE evidence + r.size)
             /\ cache' = Stored(q, kept)
             /\ issued' = (IF kept.ok
                           THEN issued \cup {c \in kept.cites : ValidCitation(entries, c)}
                           ELSE issued)
             /\ stop' = (IF over THEN "evidence_limit" ELSE stop)
             /\ gaps' = (IF kept.ok /\ ~kept.truncated THEN gaps
                         ELSE gaps \cup {"tool_error_or_truncation"})
     /\ UNCHANGED <<pc, round, modelCalls, answer>> /\ FindingKeeps

\* The requests of a round are done.
RoundEnds ==
  /\ pc = "tools" /\ loop = "finding" /\ pending = << >>
  /\ IF stop # "final_review" THEN Leave(stop) /\ UNCHANGED <<gaps, round>>
     ELSE IF round = MaxRounds
     THEN Leave("round_limit") /\ gaps' = gaps \cup {"round_limit"} /\ UNCHANGED round
     ELSE IF toolCalls >= MaxToolCalls THEN Leave(stop) /\ UNCHANGED <<gaps, round>>
     ELSE pc' = "ask" /\ round' = round + 1 /\ UNCHANGED <<gaps, stop>>
  /\ UNCHANGED <<modelCalls, toolCalls, results, cache, issued, evidence, shown, pending, answer>>
  /\ FindingKeeps

\* The last call: no more tools.
LastAnswer(v, c, more) ==
  /\ pc = "last" /\ loop = "finding" /\ Sendable
  /\ modelCalls' = modelCalls + 1
  /\ answer' = [verdict |-> v, cites |-> c]
  /\ stop' = (IF more THEN "tool_limit" ELSE stop)
  /\ gaps' = (IF more THEN gaps \cup {"tool_limit"} ELSE gaps)
  /\ pc' = "decide"
  /\ UNCHANGED <<round, toolCalls, results, cache, issued, evidence, shown, pending>>
  /\ FindingKeeps

\* Mutant of Supported: any citation will do.
SupportedBySomething(x, c) == c # {}

\* What a verdict other than "needs_review" rests on.
Supported(x, c) ==
  /\ \E i \in DOMAIN results : results[i].ok /\ ~results[i].truncated
  /\ \E e \in FindingLocation(x), y \in c : y.file = e.file /\ Covers(y, x)

\* The verdict on finding x.
Decide(x) ==
  LET valid == answer.cites \cap issued
      reason == IF answer.cites \subseteq issued THEN stop ELSE "invalid_citation"
      decided == answer.verdict \in {"positive", "negative"}
  IN /\ pc = "decide"
     /\ cited' = valid /\ stop' = reason
     /\ gaps' = gaps \cup (IF reason = "invalid_citation" THEN {"invalid_citation"} ELSE {})
                     \cup (IF decided /\ ~Supported(x, valid) THEN {"unsupported"} ELSE {})
     /\ verdict' = (IF decided /\ Supported(x, valid) /\ reason = "final_review"
                    THEN answer.verdict ELSE "needs_review")
     /\ pc' = "done"
     /\ UNCHANGED <<catalog, files, loop, backend, stage, session, status, answer, statuses>>

Done == pc = "done" /\ UNCHANGED vars

Cites == {c \in SUBSET (issued \cup Invented) : Cardinality(c) <= 2}

ReviewStep ==
  \/ Capture \/ Bind
  \/ StartStage \/ (\E ok \in BOOLEAN : Narrate(ok)) \/ PromptLimit
  \/ TurnFails("invalid_response")
  \/ (\E c \in Cites : TurnFinal(c)) \/ (\E b \in Batches : TurnTools(b))
  \/ StageTool \/ NextStage \/ FinishRun
  \/ AskPromptLimit \/ (\E code \in {"model_error", "invalid_response"} : AskFails(code))
  \/ (\E v \in {"positive", "none"}, c \in Cites : AskAnswers(v, c))
  \/ (\E b \in Batches : AskTools(b)) \/ FindingTool \/ RoundEnds
  \/ (\E v \in {"positive", "none"}, c \in Cites, more \in BOOLEAN : LastAnswer(v, c, more))
  \/ (\E x \in Findings : Decide(x))

Next == ReviewStep \/ (\E f \in Files : \E v \in DOMAIN Text[f] \cup {0} : Edit(f, v)) \/ Done

Spec == Init /\ [][Next]_vars

(* ------------------------------ properties ----------------------------- *)

\* The budgets of a review: model calls, tool requests and evidence bytes hold
\* their limits in every order of answers, refusals, cached results and cut
\* requests, and so every review ends; what the executor issued names admitted
\* text.
ReviewInvariant ==
  /\ DOMAIN cache \subseteq Requests
  /\ modelCalls <= round + (IF loop = "finding" THEN 1 ELSE 0) /\ round <= MaxRounds
  /\ toolCalls <= MaxToolCalls /\ Len(results) + Len(pending) <= MaxToolCalls
  /\ evidence <= MaxEvidence
  /\ \A c \in issued : ValidCitation(entries, c)
  /\ Cardinality(entries) <= MaxSourceFiles

\* A citation kept in a review is one that a successful tool of that review
\* returned, of the very version the reviewed scan analysed, even when files
\* were edited before or while they were captured.
CitationsAreGrounded ==
  \A c \in cited :
    /\ c.file \in DOMAIN scan /\ c.digest = scan[c.file]
    /\ c.last <= Len(Text[c.file][scan[c.file]])
    /\ \E i \in DOMAIN results : results[i].ok /\ c \in results[i].cites

\* Review is never reported as finished when it was not: a completed stage
\* cited what it was asked to cover, from complete evidence; a run is completed
\* only when its stages are; a verdict on a finding cites its whole range and
\* was reached within the limits.
CompleteReviewsCover ==
  /\ pc = "closed" /\ status = "completed" /\ backend = "turns" =>
       /\ stop = "final" /\ omissions = {} /\ cited # {}
       /\ \A i \in DOMAIN results : results[i].ok /\ ~results[i].truncated
       /\ Roles[stage] \in {"static", "synthesis"} =>
            \A x \in Findings : \E c \in cited : Covers(c, x) /\ c.digest = scan[c.file]
  /\ pc = "done" /\ loop = "stages" /\ status = "completed" =>
       \A i \in DOMAIN statuses : statuses[i] = "completed"
  /\ verdict = "positive" =>
       /\ "tool_limit" \notin gaps /\ "round_limit" \notin gaps /\ "invalid_request" \notin gaps
       /\ Len(results) > 0 /\ toolCalls <= MaxToolCalls
       /\ \E x \in Findings, c \in cited : Covers(c, x) /\ c.digest = scan[c.file]

\* A model that follows next_cursor from wherever a search started sees every
\* matching line of the admitted files, or is told that one was too long.
SearchMissesNothing ==
  pc \in {"stage", "ask"} /\ modelCalls = 0 =>
    \A i \in DOMAIN Ordered(entries), n \in 1..4 : PagesLeaveNothingOut(Ordered(entries), <<i, n>>)
=============================================================================
