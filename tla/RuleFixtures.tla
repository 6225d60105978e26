---------------------------- MODULE RuleFixtures ----------------------------
(***************************************************************************)
(* Loading, auditing and testing of rules: the loader (rules/yaml_rule.py),*)
(* the static audit (rules/audit.py), and the fixtures that run one        *)
(* submitted rule through the scanner in a supervised worker               *)
(* (quality/rule_fixtures.py, quality/rule_fixture_worker.py,              *)
(* quality/benchmark.py).                                                  *)
(*                                                                         *)
(* A rule document is a record of what its YAML says; nulls are the fields *)
(* that are written and left empty.                                        *)
(***************************************************************************)
EXTENDS YamlRules

LOCAL INSTANCE SequencesExt
LOCAL INSTANCE FiniteSetsExt

CONSTANTS Supported,    \* LANG_MAP
          MaxOutput     \* MAX_OUTPUT_BYTES

(* ---- the loader -------------------------------------------------------------- *)

\* Only a mapping has fields, and only a known location makes an option.
ValidPattern(p) == p.mapping /\ p.fields.option.location \in {"none", "keyword", "argument"}

ExecutableRace(s) == s.given = "mapping" /\ s.kindKnown /\ ~s.missing /\ s.race.lines >= 0
Loaded(doc) ==
  [id |-> doc.id, languages |-> doc.languages \cap Supported, ssrf |-> doc.ssrf, taint |-> doc.taint,
   race |-> IF ExecutableRace(doc.semantic)
            THEN [doc.semantic.race EXCEPT !.lines = IF @ = 0 THEN 20 ELSE @] ELSE NoRace,
   patterns |-> [k \in DOMAIN doc.patterns |-> Spec(doc.patterns[k].fields)]]
Skipped == [id |-> ""]

\* What a rule file adds: a rule that is disabled or for other languages is
\* skipped, and one whose parsing raises an exception is lost.
ParseRule(doc) ==
  IF \/ ~doc.enabled
     \/ "languages" \in doc.nulls
     \/ doc.languages # {} /\ doc.languages \cap Supported = {}
     \/ doc.taint.given /\ doc.badTaint
     \/ doc.semantic.given = "mapping" /\ doc.semantic.broken
     \/ "patterns" \in doc.nulls \/ \E k \in DOMAIN doc.patterns : ~ValidPattern(doc.patterns[k])
  THEN Skipped ELSE Loaded(doc)

\* RuleRegistry.register: the last rule with an identity replaces the others.
Register(docs) ==
  LET Replace(registry, rule) == IF rule = Skipped THEN registry
                                 ELSE SelectSeq(registry, LAMBDA r : r.id # rule.id) \o <<rule>>
  IN  FoldLeft(LAMBDA registry, doc : Replace(registry, ParseRule(doc)), <<>>, docs)

(* ---- the audit ------------------------------------------------------------------ *)

Issue(code, found) == IF found THEN {code} ELSE {}

SemanticIssues(s) ==
  IF s.given = "no" THEN {} ELSE IF s.given = "scalar" THEN {"invalid-semantic"}
  ELSE Issue("unsupported-semantic-field", s.unknown) \cup Issue("unsupported-semantic-kind", ~s.kindKnown)
       \cup Issue("missing-semantic-field", s.missing) \cup Issue("invalid-regex", s.broken)
       \cup Issue("invalid-semantic-bound", s.race.lines <= 0)
SemanticExecutable(s) == s.given = "mapping" /\ SemanticIssues(s) \subseteq {"invalid-regex"}

\* Every expression is compiled but those of a few fields.
SearchedFields == {"pattern", "match", "callee", "receiver", "argsMatch", "argsExclude", "missingArgs",
                   "primary", "contain", "context", "negative", "missing", "multi", "sequence",
                   "taint", "sanitizers", "block", "absent", "file"}
AuditedFields == SearchedFields \cup {"guard"}

RegexIssues(d) == Issue("invalid-regex", \E f \in AuditedFields : "broken" \in ToSet(d[f]))

PatternIssues(p) ==
  IF ~p.mapping THEN {"invalid-pattern"}
  ELSE RegexIssues(p.fields) \cup Issue("invalid-disposition", p.fields.disposition = "other")
       \cup (IF ~ValidPattern(p) THEN {"invalid-pattern"}
             ELSE Issue("non-executable-pattern", ~IsExecutable(Spec(p.fields))))

RuleIssues(doc) ==
  LET Unusable == {"invalid-pattern", "non-executable-pattern"}
      Judged(patterns) ==
        UNION patterns
        \cup Issue("no-executable-detector", /\ ~doc.taint.given \/ doc.badTaint
                                             /\ ~SemanticExecutable(doc.semantic)
                                             /\ \A issues \in patterns : issues \cap Unusable # {})
  IN  IF ~doc.enabled THEN {}
      ELSE Issue("invalid-severity", ~doc.severityKnown)
           \cup Issue("unsupported-language", doc.languages # {} /\ doc.languages \cap Supported = {})
           \cup SemanticIssues(doc.semantic)
           \cup Issue("invalid-taint", doc.taint.given /\ doc.badTaint)
           \cup Judged({PatternIssues(p) : p \in ToSet(doc.patterns)})

AuditErrors(docs) ==
  UNION {RuleIssues(docs[k]) \cup Issue("missing-id", docs[k].id = "")
         \cup Issue("duplicate-id", docs[k].id # "" /\ \E j \in 1..(k - 1) : docs[j].id = docs[k].id) :
           k \in DOMAIN docs}
AuditWarnings(docs) ==
  {k \in DOMAIN docs :
   docs[k].enabled /\ \E p \in ToSet(docs[k].patterns) : p.mapping /\ p.fields.unsupported}

(* ---- findings against expectations ---------------------------------------------- *)

\* Actual and expected locations of one file in order; an actual location is
\* matched with the earliest expected one in reach.
MatchLocations(actual, expected, tolerance) ==
  LET Step(acc, line) ==
        LET reach == SelectSeq(acc.labels, LAMBDA l : l >= line - tolerance)
        IN  IF reach # <<>> /\ Head(reach) <= line + tolerance
            THEN [labels |-> Tail(reach), matched |-> acc.matched + 1]
            ELSE [labels |-> reach, matched |-> acc.matched]
  IN  FoldLeft(Step, [labels |-> expected, matched |-> 0], actual).matched

InOrder(lines) == SortSeq(lines, LAMBDA a, b : a < b)
LinesIn(found, path) ==
  LET Lines(mine) == InOrder([k \in DOMAIN mine |-> mine[k].line])
  IN  Lines(SelectSeq(found, LAMBDA f : f.path = path))
EvaluateFindings(found, expected) ==
  LET Matched(p, n) == n + MatchLocations(LinesIn(found, p), LinesIn(expected, p), 0)
      Counts(tp) == [tp |-> tp, fp |-> Len(found) - tp, fn |-> Len(expected) - tp]
  IN  Counts(FoldSet(Matched, 0, {f.path : f \in ToSet(found) \cup ToSet(expected)}))

(* ---- one submitted rule over its fixtures ----------------------------------------- *)

\* _load_rule: what is audited is what is loaded, and the document holds the
\* one rule of the suite.
LoadRule(docs, id) ==
  IF \/ Len(docs) # 1 \/ docs[1].id # id \/ docs[1].extra \/ ~docs[1].named
     \/ docs[1].languages = {} \/ ~(docs[1].languages \subseteq Supported) \/ ~docs[1].enabled
     \/ AuditErrors(docs) # {} \/ AuditWarnings(docs) # {}
  THEN Skipped ELSE ParseRule(docs[1])

\* What the engine does with the files of a case is its own: some files stay
\* unread, gaps are recorded, and findings of one line become one.
Distinct(found) == FoldLeft(LAMBDA acc, f : IF \E g \in ToSet(acc) : g.path = f.path /\ g.line = f.line
                                            THEN acc ELSE Append(acc, f), <<>>, found)

RunCase(case, rule) ==
  LET Wrong(counts) == counts.fp + counts.fn > 0
      Judged(issues, findings) ==
        IF issues # {} THEN "incomplete"
        ELSE IF Wrong(EvaluateFindings(Distinct(findings), case.expected)) THEN "failed" ELSE "passed"
      With(evaluated, result) ==
        Judged(case.engine.gaps
               \cup Issue("unsupported_source", \E f \in ToSet(case.files) : f.language \notin Supported)
               \cup Issue("source_not_analyzed", case.engine.unread # {})
               \cup Issue("rule_not_evaluated", ~evaluated)
               \cup Issue("detector_limit_reached", evaluated /\ result.limited)
               \cup Issue("source_changed", case.engine.edited),
               IF evaluated THEN result.findings ELSE <<>>)
      Over(seen) == With(\E f \in ToSet(seen) : f.language \in rule.languages, Evaluate(rule, seen, case.flows))
  IN  Over(SelectSeq(case.files, LAMBDA f : f.path \notin case.engine.unread))

\* A rule is shown to fire and shown twice to stay silent.
Enough(positives, negatives) == positives >= 1 /\ negatives >= 2

EvaluateSuite(docs, suite) ==
  LET positives == Len(SelectSeq(suite.cases, LAMBDA c : c.expected # <<>>))
      Judged(statuses) ==
        IF ~Enough(positives, Len(suite.cases) - positives) \/ "incomplete" \in statuses THEN "incomplete"
        ELSE IF "failed" \in statuses THEN "failed" ELSE "passed"
      Over(rule) == IF rule = Skipped THEN "error"
                    ELSE Judged({RunCase(suite.cases[k], rule) : k \in DOMAIN suite.cases})
  IN  Over(LoadRule(docs, suite.rule))

(* ---- the supervised worker ---------------------------------------------------------- *)

\* What the supervisor sees, in order: chunks of output, the end of the
\* output, the end of the worker; when nothing more comes the deadline does.
SeeOutput(at, e) ==
  IF at.code # "" \/ (~at.open /\ ~at.alive) THEN at
  ELSE CASE e.kind = "late" -> [at EXCEPT !.code = "worker_timeout"]
         [] e.kind = "chunk" /\ at.open ->
              IF at.size + e.size > MaxOutput THEN [at EXCEPT !.code = "worker_output_limit"]
              ELSE [at EXCEPT !.size = @ + e.size]
         [] e.kind = "end" -> [at EXCEPT !.open = FALSE]
         [] e.kind = "exit" -> [at EXCEPT !.alive = FALSE, !.exit = e.size]
         [] OTHER -> at

Supervise(events) ==
  LET Read(last) == [size |-> last.size,
                     code |-> CASE last.code # "" -> last.code
                                [] last.open \/ last.alive -> "worker_timeout"
                                [] last.exit # 0 -> "worker_failed"
                                [] OTHER -> ""]
  IN  Read(FoldLeft(SeeOutput, [open |-> TRUE, alive |-> TRUE, size |-> 0, exit |-> 0, code |-> ""], events))

\* The worker writes the report of its suite, of reportSize bytes and a line
\* end, or something else; a report names the rule and the suite it is of.
RunRuleFixtures(request) ==
  LET Answered(status) == IF status # "error" /\ ~request.answered THEN "error" ELSE status
      Read(seen) == IF seen.code # "" \/ seen.size # request.reportSize + 1 THEN "error"
                    ELSE Answered(EvaluateSuite(request.docs, request.suite))
  IN  IF request.valid THEN Read(Supervise(request.events)) ELSE "error"
=============================================================================
