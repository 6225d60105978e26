------------------------------ MODULE ScanEngine ------------------------------
(***************************************************************************)
(* One scan of the Python engine: the selection of source files, the AST   *)
(* cache kept between scans, the rule, filter and enrichment phases, the   *)
(* health of the result, the review of its findings by a model, and the    *)
(* exit code the command line derives from it.  Files are edited, and the  *)
(* scanner upgraded, around it.                                            *)
(*                                                                         *)
(* A content is what a path can hold: its kind ("text", "link", "large",   *)
(* "unreadable" or "absent"), whether the parser recovers from errors in   *)
(* it, whether its SQL exceeds the expression budget, and the findings the *)
(* rules raise in it.  SHA-256 is injective, so a digest is the content.   *)
(***************************************************************************)
EXTENDS Integers, FiniteSets

CONSTANTS Files,          \* paths, numbered in the order they sort
          Contents,       \* contents (records, see above)
          Trees,          \* the source trees a run starts from: functions Files -> Contents
          PathKind,       \* Files -> "source", "unlisted", "unsupported" or "excluded"
          Generated,      \* the paths that match _GENERATED_FILE_PATTERNS
          Imports,        \* <<f, g>>: f imports the module of g
          Modes,          \* the ways of scanning a run explores
          Rules,          \* rule numbers
          Threshold,      \* severity threshold: 0 critical .. 4 info
          MinConfidence,  \* min_confidence, in ten-thousandths
          MaxPerRule, MaxPerFile, MaxRelated,   \* output limits
          External,       \* findings an analysis artifact of a workspace carries
          Assisted,       \* the modes run with --llm and a model key
          VerifyThreshold,\* verify_threshold, in ten-thousandths
          BatchSize,      \* batch_size: findings per model request
          Answers,        \* what a model may answer: sequences of [idx, verdict, fix]
          MaxEdits, MaxScans, MaxVersion        \* bounds of the exploration

ASSUME EngineAssumption ==
  /\ Files \subseteq Nat /\ IsFiniteSet(Files)
  /\ Trees \subseteq [Files -> Contents]
  /\ Modes \subseteq {"repository", "file", "workspace", "pr", "snapshot"}
  /\ Assisted \subseteq {"repository", "file", "pr"}
  /\ MaxEdits \in Nat /\ MaxScans \in Nat /\ MaxVersion \in Nat
  /\ \A answer \in Answers : \A i \in DOMAIN answer :
       answer[i].idx \in Nat /\ answer[i].fix \in BOOLEAN

\* Confidence is counted in ten-thousandths.
FullConfidence == 10000

\* A finding carries the severity its rule defines, and a confidence from 0 to 1.
ASSUME HitAssumption ==
  \A c \in Contents : \A h \in c.hits :
    /\ h.order \in Nat /\ h.confidence \in 0..FullConfidence /\ h.blocking \in BOOLEAN
    /\ \A k \in c.hits : k.rule = h.rule => k.severity = h.severity

VARIABLES disk,       \* what each path holds
          version,    \* the installed parser, as its fingerprint
          index,      \* the stored AST index of the project
          pc, mode, ver, selected, todo, queue, cache, asts,
          gaps, status, snapshot, findings, exit, delivered,
          waiting,    \* the findings a model is still to be asked about
          reviews,    \* what it said of the others
          during,     \* history: what each path has held since the scan began
          unhealthy,  \* history: the steps of this scan that failed or were cut short
          edits, scans

inputs == <<disk, version, edits, scans>>
parsing == <<mode, ver, selected, todo, queue, cache, asts, delivered>>
report == <<gaps, status, snapshot, findings, exit, unhealthy>>
advice == <<waiting, reviews>>
vars == <<inputs, index, pc, parsing, report, during, advice>>

NoIndex == [version |-> 0, asts |-> << >>]
NoExit == -1
None == [f \in {} |-> 0]

(* ------------------------------- parsing ------------------------------- *)

Readable(c) == c.kind \notin {"absent", "unreadable"}

\* The AST parser v extracts from c, with the digest of the bytes it read.
ParsedBy(v, c) == [source |-> c, parser |-> v, digest |-> c]

Collected == {f \in Files : disk[f].kind # "absent" /\ PathKind[f] # "excluded"}

SelectParseFiles(fs) ==
  {f \in fs : PathKind[f] = "source" /\ disk[f].kind \in {"text", "unreadable"}}

SelectionGaps(fs) ==
  LET sources == {f \in fs : PathKind[f] = "source"}
      held(k) == \E f \in sources : disk[f].kind = k
  IN {"unsupported_language" : f \in {g \in fs : PathKind[g] = "unsupported"}}
     \cup (IF held("link") THEN {"symlink_source"} ELSE {})
     \cup (IF held("large") THEN {"source_size_limit"} ELSE {})
     \cup (IF held("absent") THEN {"unreadable_source"} ELSE {})

ParseGaps(parsed) ==
  LET broken == \E f \in DOMAIN parsed : parsed[f].source.broken
      limited == \E f \in DOMAIN parsed : parsed[f].source.queryLimit
  IN (IF selected \subseteq DOMAIN parsed THEN {} ELSE {"unreadable_source"})
     \cup (IF broken THEN {"syntax_recovery"} ELSE {})
     \cup (IF limited THEN {"sql_expression_limit"} ELSE {})

\* Mutant of LoadIndex: the parser fingerprint is not compared.
LoadIndexOfAny(m) == IF m = "repository" THEN index.asts ELSE None

\* The payloads of the stored index this scanner may look at.
LoadIndex(m) ==
  IF m = "repository" /\ index.version = version THEN index.asts ELSE None

\* Mutant of Reusable: a path in the index is enough.
ReusableByPath(f) == f \in DOMAIN cache

Reusable(f) == f \in DOMAIN cache /\ cache[f].digest = disk[f]

(* -------------------------- a pull-request scan ------------------------ *)

\* git diff, or the explicit list; a git command that fails yields no path.
GetChangedFiles(diff) ==
  {f \in diff : disk[f].kind # "absent" /\ PathKind[f] = "source"}

FindRelatedFiles(changed, parsed) ==
  LET neighbours == {f \in parsed \ changed :
                       \E g \in changed : <<f, g>> \in Imports \/ <<g, f>> \in Imports}
  IN {f \in neighbours : Cardinality({g \in neighbours : g < f}) < MaxRelated}

(* ------------------------------- findings ------------------------------ *)
(* A finding is a hit of a rule in a file, with a confidence that later    *)
(* phases lower: [file, confidence, hit], the hit being                    *)
(* [rule, order, line, severity, confidence, blocking, taint, defenses,    *)
(* sourceless]; order is its place among the hits of the file.             *)

RawFindings(parsed, r) ==
  UNION {{[file |-> f, confidence |-> h.confidence, hit |-> h] :
            h \in {x \in parsed[f].source.hits : x.rule = r}} : f \in DOMAIN parsed}

\* Lexicographic order of two tuples of the same length.
Before(a, b) ==
  \E i \in DOMAIN a : a[i] < b[i] /\ \A j \in 1..(i - 1) : a[j] = b[j]

FindingPriority(x) ==
  <<IF x.hit.blocking THEN 0 ELSE 1, x.hit.severity, -x.confidence,
    x.file, x.hit.line, x.hit.rule, x.hit.order>>

\* The first n findings of S in priority order (0 is no limit).
First(S, n) ==
  {x \in S : n = 0 \/ Cardinality({y \in S : Before(FindingPriority(y), FindingPriority(x))}) < n}

CapPerRule(parsed, r) == First(RawFindings(parsed, r), MaxPerRule)

Passes(x) ==
  /\ x.hit.severity <= Threshold
  /\ x.confidence >= MinConfidence
  /\ x.file \notin Generated
  /\ ~x.hit.sourceless

SameOccurrence(x, y) ==
  x.hit.rule = y.hit.rule /\ x.file = y.file /\ x.hit.line = y.hit.line

\* Mutant of Rank: the most confident duplicate wins.
RankByConfidence(x) == <<x.confidence, -x.hit.order>>

Rank(x) == <<IF x.hit.blocking THEN 1 ELSE 0, x.confidence, -x.hit.order>>

\* The finding of the highest rank of each occurrence, the first of equals.
Deduplicated(S) ==
  {x \in S : \A y \in S : SameOccurrence(x, y) => ~Before(Rank(x), Rank(y))}

CapPerFile(S) == UNION {First({x \in S : x.file = f}, MaxPerFile) : f \in Files}

FilterFindings(S) == CapPerFile(Deduplicated({x \in S : Passes(x)}))

FilterGaps(S) ==
  IF FilterFindings(S) = Deduplicated({x \in S : Passes(x)}) THEN {}
  ELSE {"file_finding_limit"}

\* The confidence that remains once the defences on a flow are found.
Enrich(x) ==
  LET on(d) == x.hit.taint /\ d \in x.hit.defenses
      c1 == IF on("auth") THEN x.confidence \div 2 ELSE x.confidence
      c2 == IF on("sanitizer") THEN (c1 * 3) \div 10 ELSE c1
      c3 == IF on("parameterized") THEN c2 \div 10 ELSE c2
  IN [x EXCEPT !.confidence = c3]

Evaluated(parsed) == UNION {CapPerRule(parsed, r) : r \in Rules}

RuleGaps(parsed) ==
  IF \E r \in Rules : CapPerRule(parsed, r) # RawFindings(parsed, r)
  THEN {"rule_finding_limit"} ELSE {}

\* add_gap: a result with a gap is partial, unless it already failed.
WithGaps(s, g) == IF g = {} \/ s = "failed" THEN s ELSE "partial"

HasBlockingHighFindings(S) == \E x \in S : x.hit.blocking /\ x.hit.severity <= 1

ScanExitCode(s, g, S) ==
  IF s = "partial" \/ (s = "completed" /\ g # {}) THEN 3
  ELSE IF s # "completed" THEN 2
  ELSE IF HasBlockingHighFindings(S) THEN 1 ELSE 0

(* ------------------------------- behaviour ----------------------------- *)

Init ==
  /\ disk \in Trees
  /\ version = 1 /\ index = NoIndex
  /\ pc = "idle" /\ mode = "none" /\ ver = 1
  /\ selected = {} /\ todo = {} /\ queue = {} /\ cache = None /\ asts = None
  /\ gaps = {} /\ status = "none" /\ snapshot = None /\ findings = {} /\ exit = NoExit
  /\ delivered = None /\ during = [f \in Files |-> {}] /\ unhealthy = {}
  /\ waiting = {} /\ reviews = None
  /\ edits = 0 /\ scans = 0

Idle == pc \in {"idle", "done"}

\* Somebody edits, creates or removes a file.
Edit(f, c) ==
  /\ edits < MaxEdits /\ c # disk[f]
  /\ disk' = [disk EXCEPT ![f] = c]
  /\ during' = (IF Idle THEN during ELSE [during EXCEPT ![f] = @ \cup {c}])
  /\ edits' = edits + 1
  /\ UNCHANGED <<version, scans, index, pc, parsing, report, advice>>

\* Another scanner is installed between two scans.
Upgrade ==
  /\ Idle /\ version < MaxVersion
  /\ version' = version + 1
  /\ UNCHANGED <<disk, edits, scans, index, pc, parsing, report, during, advice>>

\* A pull-request scan parses the changed files alone, and looks for related
\* files among those.
PullRequestFiles(diff) ==
  LET changed == GetChangedFiles(diff) IN changed \cup FindRelatedFiles(changed, changed)

RulesGap(rules) == IF rules = "incomplete" THEN {"custom_rule_load_failed"} ELSE {}

\* The files of a mode without an index go straight to the parsers.
Unhashed(m, fs) == IF m \in {"repository", "snapshot"} THEN {} ELSE fs

\* A scan starts: the result is created, files are collected and selected,
\* and a repository scan loads the index.  rules = "incomplete" when the
\* configured custom rules did not load.
Start(m, diff, rules) ==
  LET collected == CASE m = "pr" -> PullRequestFiles(diff)
                     [] m = "file" -> diff
                     [] OTHER -> Collected
      g == SelectionGaps(collected) \cup RulesGap(rules)
  IN /\ Idle /\ scans < MaxScans /\ m \in Modes
     /\ m = "pr" => GetChangedFiles(diff) # {}
     /\ m = "file" => \E f \in Collected : diff = {f}
     /\ m \notin {"pr", "file"} => diff = {}
     /\ m = "snapshot" => rules = "complete"
     /\ mode' = m /\ ver' = version /\ scans' = scans + 1
     /\ selected' = SelectParseFiles(collected)
     /\ queue' = Unhashed(m, selected') /\ todo' = selected' \ queue'
     /\ cache' = LoadIndex(m) /\ asts' = None
     /\ gaps' = g /\ status' = WithGaps("running", g)
     /\ snapshot' = None /\ findings' = {} /\ exit' = NoExit /\ unhealthy' = {}
     /\ delivered' = disk /\ during' = [f \in Files |-> {disk[f]}]
     /\ waiting' = {} /\ reviews' = None
     /\ pc' = "parse"
     /\ UNCHANGED <<disk, version, edits, index>>

\* scan-pr ends before a scan when no changed file is found.
NothingToScan(diff, failed) ==
  /\ failed => diff = {}
  /\ Idle /\ scans < MaxScans /\ "pr" \in Modes
  /\ GetChangedFiles(diff) = {}
  /\ mode' = "pr" /\ scans' = scans + 1 /\ pc' = "done" /\ exit' = 0
  /\ unhealthy' = (IF failed THEN {"diff"} ELSE {})
  /\ gaps' = {} /\ status' = "none" /\ snapshot' = None /\ findings' = {}
  /\ selected' = {} /\ todo' = {} /\ queue' = {} /\ cache' = None /\ asts' = None
  /\ waiting' = {} /\ reviews' = None
  /\ UNCHANGED <<disk, version, edits, index, ver, delivered, during>>

\* The next file is hashed: its cached AST is taken, or it is left to parse.
HashFile(f) ==
  /\ pc = "parse" /\ f \in todo
  /\ todo' = todo \ {f}
  /\ IF Readable(disk[f]) /\ Reusable(f)
     THEN asts' = [g \in DOMAIN asts \cup {f} |-> IF g = f THEN cache[f] ELSE asts[g]]
     ELSE UNCHANGED asts
  /\ queue' = (IF Readable(disk[f]) /\ ~Reusable(f) THEN queue \cup {f} ELSE queue)
  /\ UNCHANGED <<inputs, index, pc, mode, ver, selected, cache, delivered, report, during,
                 advice>>

\* A queued file is read and parsed, by this process or by one of the pool.
ParseFile(f) ==
  /\ pc = "parse" /\ todo = {} /\ f \in queue
  /\ queue' = queue \ {f}
  /\ IF Readable(disk[f])
     THEN asts' = [g \in DOMAIN asts \cup {f} |->
                     IF g = f THEN ParsedBy(ver, disk[f]) ELSE asts[g]]
     ELSE UNCHANGED asts
  /\ UNCHANGED <<inputs, index, pc, mode, ver, selected, todo, cache, delivered, report,
                 during, advice>>

\* Parse results are recorded, and a repository scan publishes its index.
RecordParseResults ==
  /\ pc = "parse" /\ todo = {} /\ queue = {}
  /\ gaps' = gaps \cup ParseGaps(asts)
  /\ status' = WithGaps(status, ParseGaps(asts))
  /\ index' = (IF mode = "repository" THEN [version |-> ver, asts |-> asts] ELSE index)
  /\ pc' = "analyze"
  /\ UNCHANGED <<inputs, parsing, snapshot, findings, exit, unhealthy, during, advice>>

\* The findings of the pipeline, and the gaps it found.
Pipeline == {Enrich(x) : x \in FilterFindings(Evaluated(asts))}
PipelineGaps(bounds) == RuleGaps(asts) \cup FilterGaps(Evaluated(asts)) \cup bounds

\* A scan that parsed no file runs no phase, and says so.
OwnFindings == IF asts = None THEN {} ELSE Pipeline
OwnGaps(bounds) == IF asts = None THEN {"no_source_files"} ELSE PipelineGaps(bounds)

\* A workspace merges the findings of its artifacts and filters again.  An
\* artifact that cannot be imported leaves a warning, and no gap.
Imported(imports) == IF imports \in {"read", "truncated"} THEN External ELSE {}
ImportGaps(imports) ==
  IF imports = "truncated" /\ asts # None THEN {"external_evidence_limit"} ELSE {}

\* Mutant of WorkspaceSnapshot: files are hashed again.
WorkspaceSnapshotRehashed(parsed) == [f \in DOMAIN parsed |-> disk[f]]

WorkspaceSnapshot(parsed) == [f \in DOMAIN parsed |-> parsed[f].digest]

\* The bounds an analysis may reach: points-to and runtime evidence are part of
\* workspace scans alone.
Bounds == {"taint_limit"} \cup
          (IF mode = "workspace" THEN {"points_to_limit", "runtime_evidence_limit"} ELSE {})

\* The findings a model is asked about: all of a pull request, and otherwise
\* those below the threshold.
NeedsVerification(S) ==
  IF mode = "pr" THEN S ELSE {x \in S : x.confidence < VerifyThreshold}

\* A model reviews the findings of a scan run with one, if there are any.
AsksModel(fs) == mode \in Assisted /\ fs # {}

\* Phases 2 to 7.  bounds: the analyses that reached their configured bound;
\* imports: what became of the artifacts of a workspace.
Analyze(bounds, imports) ==
  LET merged == OwnFindings \cup Imported(imports)
      g == gaps \cup OwnGaps(bounds) \cup ImportGaps(imports)
             \cup (IF mode = "workspace" THEN FilterGaps(merged) ELSE {})
  IN /\ pc = "analyze" /\ bounds \subseteq Bounds
     /\ imports # "none" => mode = "workspace"
     /\ findings' = (IF mode = "workspace" THEN FilterFindings(merged) ELSE OwnFindings)
     /\ gaps' = g /\ status' = (IF g = {} THEN "completed" ELSE "partial")
     /\ snapshot' = WorkspaceSnapshot(asts)
     /\ unhealthy' = bounds \cup (IF imports = "failed" THEN {"import"} ELSE {})
     /\ waiting' = (IF AsksModel(findings') THEN NeedsVerification(findings') ELSE {})
     /\ pc' = (IF AsksModel(findings') THEN "review" ELSE "publish")
     /\ UNCHANGED <<inputs, index, parsing, exit, during, reviews>>

\* An exception anywhere in a scan: the result says so and is still reported.
Fail ==
  /\ pc \in {"parse", "analyze"}
  /\ status' = "failed" /\ gaps' = gaps \cup {"analysis_failed"}
  /\ unhealthy' = unhealthy \cup {"analysis"}
  /\ pc' = "publish"
  /\ UNCHANGED <<inputs, index, parsing, snapshot, findings, exit, during, advice>>

(* ---------------------------- model review ----------------------------- *)

\* The order of the findings of a result.
ReportOrder(x) ==
  <<x.hit.severity, -x.confidence, IF x.hit.blocking THEN 0 ELSE 1, -x.hit.confidence,
    x.file, x.hit.line, x.hit.rule, x.hit.order>>

\* How many findings of S are reported before x.
PlaceIn(S, x) == Cardinality({y \in S : Before(ReportOrder(y), ReportOrder(x))})

\* A pull request is reviewed file by file, in the order of their first findings.
NextGroup ==
  IF mode # "pr" THEN waiting
  ELSE LET open == {x \in findings : \E y \in waiting : y.file = x.file}
       IN {y \in waiting : \E x \in open : PlaceIn(open, x) = 0 /\ x.file = y.file}

NextBatch == {x \in NextGroup : PlaceIn(NextGroup, x) < BatchSize}

\* bind_batch fails when an entry names no finding of the batch, or one twice.
Unbound(answer, n) ==
  \/ \E i \in DOMAIN answer : answer[i].idx >= n
  \/ \E i, j \in DOMAIN answer : i # j /\ answer[i].idx = answer[j].idx

Verdicts == {"likely_true_positive", "likely_false_positive", "needs_review"}

NoVerdict == [verdict |-> "needs_review", fix |-> FALSE]

\* A result that lacks a field or has an invalid one gives no verdict.
ReviewFromResult(e) ==
  CASE e.verdict = "TRUE_POSITIVE" -> [verdict |-> "likely_true_positive", fix |-> e.fix]
    [] e.verdict = "FALSE_POSITIVE" -> [verdict |-> "likely_false_positive", fix |-> e.fix]
    [] OTHER -> NoVerdict

\* What the answer says of finding k of a batch of n.
ReviewIn(answer, n, k) ==
  LET of == {i \in DOMAIN answer : answer[i].idx = k}
  IN IF Unbound(answer, n) \/ of = {} THEN NoVerdict
     ELSE ReviewFromResult(answer[CHOOSE i \in of : TRUE])

\* The model is asked about the next batch; an answer without a usable review
\* is the empty sequence.
VerifyBatch(answer) ==
  /\ pc = "review" /\ waiting # {}
  /\ waiting' = waiting \ NextBatch
  /\ reviews' = [x \in DOMAIN reviews \cup NextBatch |->
                   IF x \in NextBatch
                   THEN ReviewIn(answer, Cardinality(NextBatch), PlaceIn(NextBatch, x))
                   ELSE reviews[x]]
  /\ UNCHANGED <<inputs, index, pc, parsing, report, during>>

\* The token budget does not allow the next batch: the findings of the group
\* stay without a review.
BudgetExhausted ==
  /\ pc = "review" /\ waiting # {}
  /\ waiting' = waiting \ NextGroup
  /\ UNCHANGED <<inputs, index, pc, parsing, report, during, reviews>>

Reviewed(x) == IF x \in DOMAIN reviews THEN reviews[x] ELSE NoVerdict

\* The critical and high findings a fix is asked for.
NeedsFix ==
  {x \in findings : /\ x.hit.severity <= 1
                    /\ Reviewed(x).verdict # "likely_false_positive"
                    /\ mode = "pr" => ~Reviewed(x).fix}

\* Fixes are asked for one by one while the budget lasts.  answered: the
\* findings an answer came back for; fixed: those whose answer holds a fix.
GenerateRemediations(answered, fixed) ==
  /\ pc = "review" /\ waiting = {}
  /\ answered \subseteq NeedsFix /\ fixed \subseteq answered
  /\ reviews' = [x \in DOMAIN reviews \cup answered |->
                   IF x \in fixed THEN [Reviewed(x) EXCEPT !.fix = TRUE] ELSE Reviewed(x)]
  /\ pc' = "publish"
  /\ UNCHANGED <<inputs, index, parsing, report, during, waiting>>

(* ------------------------------- the end ------------------------------- *)

\* What the snapshot worker adds: whether its input was complete, and whether
\* its files still hold what was delivered.
SnapshotGaps(truncated) ==
  IF mode # "snapshot" THEN {}
  ELSE (IF truncated THEN {"source_fetch_incomplete"} ELSE {})
         \cup (IF disk # delivered THEN {"source_changed"} ELSE {})

\* The result is reported, uploaded when asked for, and the process exits. The
\* snapshot worker exits with 0 whenever it wrote a report.
Publish(upload, truncated) ==
  /\ pc = "publish"
  /\ truncated => mode = "snapshot"
  /\ upload # "none" => mode \in {"repository", "file"}
  /\ gaps' = gaps \cup SnapshotGaps(truncated)
  /\ status' = WithGaps(status, SnapshotGaps(truncated))
  /\ exit' = (IF mode = "snapshot" THEN 0
              ELSE IF upload = "failed" THEN 4 ELSE ScanExitCode(status', gaps', findings))
  /\ unhealthy' = unhealthy \cup (IF truncated THEN {"fetch"} ELSE {})
  /\ pc' = "done"
  /\ UNCHANGED <<inputs, index, parsing, snapshot, findings, during, advice>>

\* The process dies with all it held: nothing is reported, and the stored
\* index stays as it was.
Crash ==
  /\ pc \in {"parse", "analyze", "review", "publish"}
  /\ pc' = "idle" /\ mode' = "none" /\ ver' = 1
  /\ selected' = {} /\ todo' = {} /\ queue' = {} /\ cache' = None /\ asts' = None
  /\ gaps' = {} /\ status' = "none" /\ snapshot' = None /\ findings' = {} /\ exit' = NoExit
  /\ delivered' = None /\ during' = [f \in Files |-> {}] /\ unhealthy' = {}
  /\ waiting' = {} /\ reviews' = None
  /\ UNCHANGED <<inputs, index>>

Next ==
  \/ \E f \in Files, c \in Contents : Edit(f, c)
  \/ Upgrade
  \/ \E m \in Modes, diff \in SUBSET Files, rules \in {"complete", "incomplete"} :
       Start(m, diff, rules)
  \/ \E diff \in SUBSET Files, failed \in BOOLEAN : NothingToScan(diff, failed)
  \/ \E f \in Files : HashFile(f) \/ ParseFile(f)
  \/ RecordParseResults
  \/ \E bounds \in SUBSET {"taint_limit", "points_to_limit", "runtime_evidence_limit"},
        imports \in {"none", "read", "truncated", "failed"} : Analyze(bounds, imports)
  \/ Fail
  \/ \E answer \in Answers : VerifyBatch(answer)
  \/ BudgetExhausted
  \/ \E answered, fixed \in SUBSET findings : GenerateRemediations(answered, fixed)
  \/ \E upload \in {"none", "ok", "failed"}, truncated \in BOOLEAN : Publish(upload, truncated)
  \/ Crash

Spec == Init /\ [][Next]_vars

(* ------------------------------ properties ----------------------------- *)

ReviewsOK ==
  /\ waiting \subseteq findings /\ DOMAIN reviews \subseteq findings
  /\ \A x \in DOMAIN reviews : reviews[x] \in [verdict : Verdicts, fix : BOOLEAN]

TypeOK ==
  /\ disk \in [Files -> Contents]
  /\ version \in 1..MaxVersion \cup {1} /\ ver \in 1..version
  /\ selected \subseteq Files /\ todo \subseteq selected /\ queue \subseteq selected
  /\ DOMAIN asts \subseteq selected /\ DOMAIN index.asts \subseteq Files
  /\ pc \in {"idle", "parse", "analyze", "review", "publish", "done"}
  /\ ReviewsOK
  /\ edits \in 0..MaxEdits /\ scans \in 0..MaxScans

\* Every AST of the stored index is what the parser of the index's fingerprint
\* extracts from the bytes of its digest, whatever was edited, upgraded or
\* interrupted between hashing, parsing and storing.
CacheIsFaithful ==
  \A f \in DOMAIN index.asts :
    index.asts[f] = ParsedBy(index.version, index.asts[f].digest)

\* A scan that reuses cached ASTs works on what a scan without a cache could
\* have read: each AST comes from the running parser and from bytes its file
\* held while the scan ran.
AnalysisIsCurrent ==
  pc # "idle" =>
    \A f \in DOMAIN asts : asts[f].parser = ver /\ asts[f].source \in during[f]

\* The workspace snapshot that a result names is the one its findings were
\* computed from, even when files changed under the scan.
SnapshotNamesAnalysis ==
  pc \in {"review", "publish", "done"} /\ snapshot # None =>
    snapshot = [f \in DOMAIN asts |-> asts[f].source]

\* Every variable keeps its type, and the snapshot its findings.
SnapshotInvariant == TypeOK /\ SnapshotNamesAnalysis

\* The findings a rule evaluation without any limit would let through.
Expected(r) == {x \in RawFindings(asts, r) : Passes(x)}

\* A repository result is "completed" only if every selected file was parsed
\* whole and every finding above the thresholds is reported, or represented by
\* one of the same occurrence that blocks if it does; and a scan command that
\* completes with 0 saw no finding that blocks CI: limits, duplicates, lowered
\* confidences and the verdicts of a model never turn a failing gate into a
\* passing one ("deterministic gates stay authoritative", AIReview).
CompletedHidesNothing ==
  pc = "done" /\ status = "completed" /\ mode # "workspace" =>
    /\ selected = DOMAIN asts /\ asts # None /\ unhealthy = {}
    /\ \A f \in selected : ~asts[f].source.broken /\ ~asts[f].source.queryLimit
    /\ \A r \in Rules : \A x \in Expected(r) :
         \E y \in findings : SameOccurrence(x, y) /\ (x.hit.blocking => y.hit.blocking)
    /\ mode # "snapshot" /\ exit = 0 => \A r \in Rules : ~HasBlockingHighFindings(Expected(r))
=============================================================================
