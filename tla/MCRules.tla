------------------------------ MODULE MCRules -------------------------------
(***************************************************************************)
(* What rules promise.  The fields of a pattern describe lines of a file,  *)
(* an option of a call has a value when the call runs, a clean audit       *)
(* promises rules that load and detect, and a passed suite a rule that     *)
(* reports the expected lines and nothing else.                            *)
(***************************************************************************)
EXTENDS RuleFixtures

LOCAL INSTANCE SequencesExt
LOCAL INSTANCE FiniteSetsExt

(* ---- options ------------------------------------------------------------------- *)

\* The values a property may have when the call runs: the last one written
\* counts, and a spread may write it or not.
Values(options, name) ==
  FoldLeft(LAMBDA S, o : CASE o.name = "spread" -> S \cup {"true", "false"}
                           [] o.name # name -> S
                           [] o.state = "unknown" -> {"true", "false"}
                           [] OTHER -> {o.state}, {"missing"}, options)
Anything == {"true", "false", "missing"}

\* The values of a keyword in the calls that do not bind it twice.
KeywordValues(name, args) ==
  LET Of(a) == CASE a.kind = "keyword" -> IF a.name = name THEN Values(<<a>>, name) ELSE {"missing"}
                 [] a.kind = "keyword_spread" -> Values(a.options, name)
                 [] a.kind = "unknown" -> Anything
                 [] OTHER -> {"missing"}
      bindings == {b \in [DOMAIN args -> Anything] :
                     /\ \A k \in DOMAIN args : b[k] \in Of(args[k])
                     /\ \A j, k \in DOMAIN args : b[j] # "missing" /\ b[k] # "missing" => j = k}
      Result(b) == LET set == {b[k] : k \in DOMAIN args} \ {"missing"}
                   IN  IF set = {} THEN "missing" ELSE CHOOSE v \in set : TRUE
  IN  {Result(b) : b \in bindings}

ArgumentValues(option, args) ==
  IF \E k \in DOMAIN args : k <= option.argument /\ args[k].kind \in {"spread", "unknown"} THEN Anything
  ELSE IF option.argument > Len(args) THEN {"missing"} ELSE Values(args[option.argument].options, option.name)

\* A state that is not unknown is the value in every run of the call.
StateIsCertain(option, args) ==
  LET state == OptionState(option, args)
      values == IF option.location = "keyword" THEN KeywordValues(option.name, args)
                ELSE ArgumentValues(option, args)
  IN  CASE state = "unknown" -> TRUE
        [] option.argument > 0 \/ option.location = "keyword" -> values \subseteq {state}
        [] args = <<>> -> state = "missing"
        [] state = "true" -> \A a \in ToSet(args) : a.kind = "positional" /\ Values(a.options, option.name) = {"true"}
        [] OTHER -> \E a \in ToSet(args) : a.kind = "positional" /\ Values(a.options, option.name) = {state}

(* ---- patterns -------------------------------------------------------------------- *)

Leads(d) == IF d.pattern # <<>> THEN d.pattern ELSE d.match \o d.callee \o d.receiver \o d.primary
Unwanted(d) == ToSet(d.negative) \cup ToSet(d.missing) \cup ToSet(d.guard) \cup ToSet(d.header)
               \cup ToSet(d.sanitizers) \cup (IF d.type = "negative_check" THEN ToSet(d.contain)
                                              ELSE {})
Wanted(d) == ToSet(d.context) \cup (IF d.type = "negative_check" THEN {} ELSE ToSet(d.contain))

RECURSIVE StepsFrom(_, _, _, _)
StepsFrom(d, steps, text, k) ==
  Len(steps) = 1 \/ \E j \in (k + 1)..Len(text) : /\ text[j] = steps[2] /\ j - k <= d.lines
                                                   /\ StepsFrom(d, Tail(steps), text, j)

\* The lines of a text that the fields of a source pattern describe.
Described(d, text) ==
  LET words == ToSet(text)
      steps == d.sequence \o d.taint
      Block(k) == LET ends == {j \in (k + 1)..Len(text) : text[j] = d.block[2]}
                      last == IF ends = {} THEN Len(text)
                              ELSE CHOOSE j \in ends : \A i \in ends : j <= i
                  IN  d.block[3] \notin {text[j] : j \in k..last}
      lead == Leads(d) \o d.multi
  IN  {k \in DOMAIN text :
         IF d.block # <<>> THEN text[k] = d.block[1] /\ Block(k)
         ELSE IF d.absent # <<>> THEN text[k] = d.absent[1] /\ (k = 1 \/ text[k - 1] # d.absent[2])
         ELSE /\ words \cap Unwanted(d) = {}
              /\ IF steps # <<>> THEN text[k] = steps[1] /\ StepsFrom(d, steps, text, k)
                 ELSE /\ Wanted(d) \subseteq words /\ ToSet(lead) \subseteq words
                      /\ IF lead = <<>> THEN k = 1 ELSE text[k] = lead[1]
                      /\ d.threshold => text[k] \in Strong}

\* The calls a call pattern describes: legacy patterns name the callee.
DescribedCalls(d, ast) ==
  LET name == d.pattern \o d.callee
      Around(c) == LET fs == {f \in ToSet(ast.functions) : f[1] <= c.line /\ c.line <= f[2]}
                       f == CHOOSE f \in fs : \A g \in fs : f[2] - f[1] <= g[2] - g[1]
                   IN  ToSet(IF fs = {} THEN ast.text ELSE SubSeq(ast.text, f[1], f[2]))
      Argument(c) == IF d.index = 0 THEN ToSet(c.args)
                     ELSE IF d.index > Len(c.args) THEN {} ELSE {c.args[d.index]}
  IN  {c \in ToSet(ast.calls) :
         /\ name # <<>> => IF d.full THEN c.receiver = "" /\ c.callee = name[1]
                           ELSE name[1] \in {c.receiver, c.callee}
         /\ d.receiver # <<>> => c.receiver = d.receiver[1]
         /\ d.index <= Len(c.args) /\ ToSet(d.argsMatch) \subseteq Argument(c)
         /\ d.argsExclude # <<>> => c.args # <<>> /\ d.argsExclude[1] \notin Argument(c)
         /\ d.missingArgs # <<>> => ~(ToSet(d.missingArgs) \subseteq Argument(c))
         /\ d.option # NoOption => OptionState(d.option, c.structured) \in d.option.states
         /\ Wanted(d) \subseteq Around(c) /\ Unwanted(d) \cap Around(c) = {}}

(* ---- what the detectors leave out ------------------------------------------------- *)

\* Only the first block of a text is looked at.
SeveralBlocks(d, text) == d.block # <<>> /\ Len(LinesOf(text, d.block[1])) > 1
\* The decorator of the function above counts for the next one.
DecoratesNext(d, text) ==
  d.absent # <<>> /\ \E k \in DOMAIN text : k > 2 /\ text[k] = d.absent[1] /\ text[k - 1] # d.absent[2]
                                           /\ Decorated(text, k, d.absent[2])
\* A step is searched from the first place the one before it was found.
StepsRepeat(d, text) ==
  LET steps == d.sequence \o d.taint
  IN  \E k \in DOMAIN steps : k < Len(steps) /\ Len(LinesOf(text, steps[k])) > 1
\* Guards are read around calls, not in text; a sequence, a block or a
\* decorator has none of the other filters.
IgnoresFilters(d, s) == s.source /\ \/ d.guard # <<>>
                                    \/ (d.sequence \o d.taint # <<>> /\ Wanted(d) # {})
                                    \/ (d.block \o d.absent # <<>> /\ Unwanted(d) \cup Wanted(d) # {})
\* An expression that does not compile filters nothing.
Uncompiled(d) == \E f \in SearchedFields \cup {"guard", "header"} : "broken" \in ToSet(d[f])

Reads(d, ast, s) ==
  {SubSeq(ast.text, g[1], g[2]) : g \in ToSet(SourceSegments(ast, s.scope))}
Plain(d, ast, s) ==
  /\ ~Uncompiled(d) /\ ~IgnoresFilters(d, s)
  /\ \A t \in Reads(d, ast, s) : ~SeveralBlocks(d, t) /\ ~DecoratesNext(d, t) /\ ~StepsRepeat(d, t)

(* ---- what is promised ---------------------------------------------------------------- *)

DescribedLines(d, ast) ==
  LET s == Spec(d)
  IN  IF ~IsExecutable(s) \/ (s.languages # {} /\ ast.language \notin s.languages) THEN {}
      ELSE IF ~s.source THEN {c.line : c \in DescribedCalls(d, ast)}
      ELSE IF d.file # <<>> /\ ast.path # d.file[1] THEN {}
      ELSE UNION {{g[1] + k - 1 : k \in Described(d, SubSeq(ast.text, g[1], g[2]))} :
                    g \in ToSet(SourceSegments(ast, s.scope))}

RuleOf(patterns) == [id |-> "r", languages |-> {}, ssrf |-> FALSE, taint |-> NoTaint, race |-> NoRace,
                     patterns |-> [k \in DOMAIN patterns |-> Spec(patterns[k])]]

\* What a rule reports in a file is described by its patterns, and a rule that
\* ran into no limit reports everything they describe: every line, or one line
\* of each text where a sequence is found.
ReportsWhatIsDescribed(patterns, ast) ==
  LET Checked(result) ==
        LET lines == {f.line : f \in ToSet(result.findings)}
            All(d) == DescribedLines(d, ast)
        IN  /\ lines \subseteq UNION {All(d) : d \in ToSet(patterns)}
            /\ result.limited \/ \A d \in ToSet(patterns) :
                 IF d.sequence \o d.taint = <<>> THEN All(d) \subseteq lines
                 ELSE \A g \in ToSet(SourceSegments(ast, Spec(d).scope)) :
                        All(d) \cap g[1]..g[2] # {} => lines \cap g[1]..g[2] # {}
  IN  (\A d \in ToSet(patterns) : Plain(d, ast, Spec(d))) => Checked(Evaluate(RuleOf(patterns), <<ast>>, <<>>))

\* In every function without a defence that writes back what it read after a
\* decision, the race rule reports a write.
RacesAreReported(r, asts) ==
  LET Writes(ast, f) ==
        {b.line : b \in {b \in ToSet(ast.calls) :
            /\ b.callee = r.write /\ b.receiver \in r.receivers /\ b.line \in f[1]..f[2]
            /\ \E a \in ToSet(ast.calls) :
                 /\ a.callee = r.read /\ a.receiver \in r.receivers /\ (r.same => a.receiver = b.receiver)
                 /\ a.line \in f[1]..(b.line - 1) /\ b.line - a.line <= r.lines
                 /\ \E k \in a.line..b.line : ast.text[k] = r.between}}
      Safe(ast, f) == \E k \in f[1]..f[2] : ast.text[k] = r.defence
      Checked(result) ==
        \A ast \in ToSet(asts) : \A f \in ToSet(ast.functions) :
          LET lines == {g.line : g \in {g \in ToSet(result.found) : g.path = ast.path}}
          IN  ~Safe(ast, f) /\ Writes(ast, f) # {} /\ ~result.limited => lines \cap Writes(ast, f) # {}
  IN  Checked(EvalSemantic(r, asts))

\* The audit promises that a rule loads and detects: except for a field that
\* is left empty, and for expressions it does not compile.
AuditPredictsLoading(docs) ==
  (AuditErrors(docs) = {} /\ \A doc \in ToSet(docs) : doc.nulls = {}) =>
    \A doc \in ToSet(docs) : doc.enabled =>
      /\ \E r \in ToSet(Register(docs)) :
           /\ r.id = doc.id /\ r.languages = doc.languages \cap Supported
           /\ r.taint.given \/ r.race # NoRace \/ r.patterns # <<>>
           /\ \A s \in ToSet(r.patterns) : IsExecutable(s)
      /\ \A p \in ToSet(doc.patterns) : Uncompiled(p.fields) => "broken" \in ToSet(p.fields.header)

\* Findings are matched with as many expected ones as possible.
MatchingIsLargest(actual, expected, tolerance) ==
  LET Close(i, j) == actual[i] - expected[j] \in -tolerance..tolerance
      matchings == {m \in [DOMAIN actual -> {0} \cup DOMAIN expected] :
                      /\ \A i \in DOMAIN actual : m[i] # 0 => Close(i, m[i])
                      /\ \A i, j \in DOMAIN actual : m[i] # 0 /\ m[i] = m[j] => i = j}
      Size(m) == Cardinality({i \in DOMAIN actual : m[i] # 0})
  IN  \A m \in matchings : Size(m) <= MatchLocations(actual, expected, tolerance)

\* A suite passes when the rule that was submitted is a good one, was run over
\* every file of every case to the end, and reported what its patterns
\* describe there: the expected lines and no other.
PassedMeansTested(request) ==
  LET Tested(doc, case) ==
        /\ case.engine.unread = {} /\ case.engine.gaps = {} /\ ~case.engine.edited
        /\ \A ast \in ToSet(case.files) :
             (\A p \in ToSet(doc.patterns) : Plain(p.fields, ast, Spec(p.fields)) /\ p.fields.sequence = <<>>) =>
               {e.line : e \in {e \in ToSet(case.expected) : e.path = ast.path}} =
                 IF ast.language \in doc.languages
                 THEN UNION {DescribedLines(p.fields, ast) : p \in ToSet(doc.patterns)} ELSE {}
      positive == {k \in DOMAIN request.suite.cases : request.suite.cases[k].expected # <<>>}
  IN  RunRuleFixtures(request) = "passed" =>
        /\ AuditErrors(request.docs) = {} /\ Len(request.docs) = 1 /\ request.docs[1].id = request.suite.rule
        /\ positive # {} /\ Cardinality(DOMAIN request.suite.cases \ positive) >= 2
        /\ \A case \in ToSet(request.suite.cases) : Tested(request.docs[1], case)
        /\ \E k \in DOMAIN request.events : request.events[k] = [kind |-> "exit", size |-> 0]
        /\ \A k \in DOMAIN request.events : request.events[k].kind = "exit" => request.events[k].size = 0

(***************************************************************************)
(* The instance that is checked.                                           *)
(***************************************************************************)

File(path, text, functions, calls) ==
  [path |-> path, language |-> "java", text |-> text, functions |-> functions, calls |-> calls]
Site(line, receiver, callee, args) ==
  [line |-> line, receiver |-> receiver, callee |-> callee, args |-> args,
   structured |-> [k \in DOMAIN args |->
     [kind |-> "positional", name |-> "", state |-> "missing",
      options |-> IF args[k] = "x" THEN <<[name |-> "safe", state |-> "true"]>> ELSE <<>>]]]

(* ---- patterns over files --------------------------------------------------------- *)

Regex(w) == [NoFields EXCEPT !.pattern = <<w>>]
TextPatterns ==
  {Regex("a"), [Regex("a") EXCEPT !.negative = <<"x">>], [Regex("a") EXCEPT !.negative = <<"broken">>],
   [NoFields EXCEPT !.type = "regex", !.match = <<"a">>, !.contain = <<"b">>],
   [NoFields EXCEPT !.type = "negative_check", !.match = <<"a">>, !.contain = <<"x">>],
   [NoFields EXCEPT !.type = "entropy", !.match = <<"b">>, !.threshold = TRUE],
   [NoFields EXCEPT !.primary = <<"a", "b">>, !.missing = <<"x">>, !.languages = {"java"}],
   [NoFields EXCEPT !.primary = <<"a">>, !.languages = {"go"}],
   [NoFields EXCEPT !.multi = <<"a", "b">>,
    !.negative = <<"x">>], [NoFields EXCEPT !.multi = <<"b", "x">>, !.scope = "file"],
   [NoFields EXCEPT !.sequence = <<"a", "b">>,
    !.lines = 1], [NoFields EXCEPT !.sequence = <<"a", "x">>, !.negative = <<"b">>],
   [NoFields EXCEPT !.sequence = <<"a", "b", "a">>, !.scope = "file"],
   [NoFields EXCEPT !.taint = <<"a", "b">>,
    !.sanitizers = <<"x">>], [NoFields EXCEPT !.type = "taint", !.taint = <<"b", "a">>],
   [NoFields EXCEPT !.block = <<"a", "b",
                                "x">>], [NoFields EXCEPT !.block = <<"a", "b", "x">>, !.scope = "function"],
   [NoFields EXCEPT !.absent = <<"b", "a">>], [NoFields EXCEPT !.file = <<"f">>, !.negative = <<"x">>],
   [NoFields EXCEPT !.file = <<"g">>, !.primary = <<"a">>],
   [NoFields EXCEPT !.callee = <<"open">>, !.guard = <<"x">>], [NoFields EXCEPT !.contain = <<"a">>],
   [Regex("a") EXCEPT !.scope = "function", !.disposition = "blocking"]}
CallPatterns ==
  {[Regex("a") EXCEPT !.argsMatch = <<"x">>], [Regex("a") EXCEPT !.missing = <<"b">>],
   [Regex("a") EXCEPT !.guard = <<"x">>],
   [NoFields EXCEPT !.callee = <<"a">>,
    !.full = TRUE], [NoFields EXCEPT !.callee = <<"a">>, !.argsExclude = <<"x">>],
   [NoFields EXCEPT !.callee = <<"b">>, !.receiver = <<"a">>, !.context = <<"x">>],
   [NoFields EXCEPT !.callee = <<"a">>, !.argsMatch = <<"b">>,
    !.index = 2], [NoFields EXCEPT !.missingArgs = <<"x", "b">>],
   [NoFields EXCEPT !.callee = <<"a">>,
    !.option = [location |-> "argument", name |-> "safe", argument |-> 1, states |-> {"missing"}]],
   [NoFields EXCEPT !.callee = <<"a">>,
    !.option = [location |-> "argument", name |-> "safe", argument |-> 0, states |-> {"true"}]]}

Words == {"a", "b", "x"}
Texts == [1..4 -> Words] \cup {<<"a", "-", "b", "-", "a">>, <<"x", "a", "-", "b">>, <<>>}
Layouts == {<<>>, <<<<1, 2>>, <<3, 4>>>>, <<<<1, 4>>, <<2, 3>>, <<2, 3>>>>}
Fits(text, layout) == layout = <<>> \/ Len(text) = 4
Sites == {Site(1, "", "a", <<"x">>), Site(2, "a", "b", <<"x", "b">>), Site(3, "", "a", <<"b", "x">>),
          Site(4, "b", "a", <<>>), Site(4, "", "a", <<"x", "b">>)}
SiteLists == {<<>>, <<Site(1, "", "a", <<"x">>), Site(2, "", "a", <<"x">>),
                      Site(3, "", "a", <<"x">>), Site(4, "", "a", <<"x">>)>>}
             \cup {<<s>> : s \in Sites} \cup {<<s, t, u>> : s, t, u \in Sites}
CallTextsOf == {<<"x", "a", "a", "b">>, <<"a", "a", "b", "b">>}

TextCases(p) == {[part |-> "patterns", patterns |-> <<p>>, file |-> File("f", t, l, <<>>)] :
                <<t, l>> \in {<<t, l>> \in Texts \X Layouts : Fits(t, l)}}
CallCases(p) == {[part |-> "patterns", patterns |-> <<p>>, file |-> File("f", t, l, c)] :
                t \in CallTextsOf, l \in Layouts, c \in SiteLists}
MixedCases(p) == {[part |-> "patterns", patterns |-> <<p, q, r>>, file |-> File("f", t, <<>>, c)] :
                 q \in {Regex("a"), Regex("x"), [NoFields EXCEPT !.callee = <<"a">>]},
                 r \in {Regex("b"), [NoFields EXCEPT !.receiver = <<"b">>]}, t \in CallTextsOf,
                 c \in {<<s, u>> : s, u \in Sites}}

(* ---- options, races, matching ------------------------------------------------------ *)

Write(s) == [name |-> "safe", state |-> s]
Literals == {<<>>, <<Write("true")>>, <<Write("false"), [name |-> "other", state |-> "true"]>>,
             <<[name |-> "spread", state |-> "unknown"]>>,
             <<Write("true"),
               [name |-> "spread",
                state |-> "unknown"]>>, <<[name |-> "spread", state |-> "unknown"], Write("false")>>,
             <<Write("true"), Write("unknown")>>}
Places == {<<"keyword", 0>>, <<"argument", 0>>, <<"argument", 1>>, <<"argument", 2>>}
Arguments == {[kind |-> "positional", name |-> "", state |-> "missing", options |-> o] : o \in Literals}
             \cup {[kind |-> k, name |-> "", state |-> "missing", options |-> <<>>] :
                   k \in {"spread", "unknown"}}
             \cup {[kind |-> "keyword", name |-> n, state |-> s, options |-> <<>>] :
                   n \in {"safe", "other"}, s \in {"true", "false"}}
             \cup {[kind |-> "keyword_spread", name |-> "", state |-> "missing", options |-> o] :
                   o \in Literals}
OptionCases(o) ==
  {[part |-> "option",
    option |-> [location |-> o[1], name |-> "safe", argument |-> o[2], states |-> {}], args |-> a] :
     a \in {<<>>} \cup {<<s>> : s \in Arguments} \cup {<<s, t>> : s, t \in Arguments}}

RaceRule(n, same) == [read |-> "get", write |-> "put", receivers |-> {"db", "tx"}, between |-> "b",
                      defence |-> "x", lines |-> n, same |-> same]
Reading(c) == {Site(l, r, c, <<>>) : l \in 1..4, r \in {"db", "tx"}}
RaceCases(same) == {[part |-> "race", rule |-> RaceRule(n, same),
                     files |-> <<File("f", t, l, <<a, b, c>>), File("g", t, l, <<a, c>>)>>] :
                n \in {1, 3}, t \in {<<"a", "b", "a", "b">>,
                                     <<"a", "b", "b", "x">>}, l \in Layouts \ {<<>>},
                a \in {Site(1, "db", "get", <<>>),
                       Site(3, "db", "get", <<>>)}, b \in Reading("get") , c \in Reading("put")}

Sorted ==
  {s \in UNION {[1..n -> 1..5] : n \in 0..3} : \A k \in DOMAIN s : k > 1 => s[k - 1] <= s[k]}
MatchingCases(n) == {[part |-> "matching", actual |-> a, expected |-> e, tolerance |-> n] :
                    a \in Sorted, e \in Sorted \ {<<>>}}

(* ---- documents and suites ------------------------------------------------------------ *)

NoSemantic == [given |-> "no", kindKnown |-> TRUE, unknown |-> FALSE, missing |-> FALSE,
               broken |-> FALSE,
               race |-> RaceRule(1, TRUE)]
Mapping(d) == [mapping |-> TRUE, fields |-> d]
Document(id, patterns) ==
  [id |-> id, enabled |-> TRUE, severityKnown |-> TRUE, languages |-> {"java"}, nulls |-> {},
   extra |-> FALSE,
   named |-> TRUE, ssrf |-> FALSE, taint |-> NoTaint, badTaint |-> FALSE, semantic |-> NoSemantic,
   patterns |-> patterns]
DocumentPatterns ==
  {<<>>, <<Mapping(Regex("a"))>>, <<Mapping(NoFields)>>, <<[mapping |-> FALSE, fields |-> NoFields]>>,
   <<Mapping([Regex("a") EXCEPT !.guard = <<"broken">>])>>, <<Mapping([Regex("a") EXCEPT !.header = <<"broken">>])>>,
   <<Mapping([Regex("a") EXCEPT !.option = [location |-> "else", name |-> "", argument |-> 0, states |-> {}]])>>,
   <<Mapping([NoFields EXCEPT !.callee = <<"broken">>, !.unsupported = TRUE])>>,
   <<Mapping(Regex("a")), Mapping([NoFields EXCEPT !.file = <<"f">>])>>}
Semantics == {NoSemantic, [NoSemantic EXCEPT !.given = "scalar"],
              [NoSemantic EXCEPT !.given = "mapping"],
              [NoSemantic EXCEPT !.given = "mapping",
               !.unknown = TRUE], [NoSemantic EXCEPT !.given = "mapping", !.broken = TRUE],
              [NoSemantic EXCEPT !.given = "mapping",
               !.missing = TRUE], [NoSemantic EXCEPT !.given = "mapping", !.race.lines = 0],
              [NoSemantic EXCEPT !.given = "mapping", !.kindKnown = FALSE]}
Documents(p) ==
  {[Document(i, p) EXCEPT !.enabled = e, !.languages = l, !.taint = [NoTaint EXCEPT !.given = t[1]],
    !.badTaint = t[2],
                          !.semantic = s, !.nulls = n] :
     i \in {"r", "s"}, e \in BOOLEAN, l \in {{}, {"java", "ruby"}, {"ruby"}},
     t \in {<<FALSE, FALSE>>, <<TRUE, FALSE>>,
            <<TRUE, TRUE>>}, s \in Semantics, n \in {{}, {"languages"}}}
DocumentCases(p) ==
  {[part |-> "documents", docs |-> <<d, Document("s", <<Mapping(Regex("b"))>>)>>] : d \in Documents(p)}

Expect(f, lines) == [k \in DOMAIN lines |-> [path |-> f, line |-> lines[k]]]
NoEngineIssue == [unread |-> {}, gaps |-> {}, edited |-> FALSE]
Fixture(text, lines) ==
  [files |-> <<File("f", text, <<>>, <<>>)>>, flows |-> <<>>, expected |-> Expect("f", lines),
   engine |-> NoEngineIssue]
Positive == Fixture(<<"a", "b">>, <<1>>)
Negatives == <<Fixture(<<"b", "b">>, <<>>), Fixture(<<"x", "a">>, <<>>)>>
SuiteCases ==
  {Positive, Fixture(<<"a", "b">>, <<2>>), Fixture(<<"a", "a">>, <<1, 2>>), Fixture(<<"-">>, <<>>),
   [Positive EXCEPT !.engine.unread = {"f"}], [Positive EXCEPT !.engine.gaps = {"parse"}],
   [Positive EXCEPT !.engine.edited = TRUE],
   [Positive EXCEPT !.files = <<[File("f", <<"a">>, <<>>, <<>>) EXCEPT !.language = "ruby"]>>]}
Submitted == {<<Document("r", <<Mapping(p)>>)>> :
                p \in {[Regex("a") EXCEPT !.negative = <<"x">>], Regex("a"),
                       [NoFields EXCEPT !.sequence = <<"a", "b">>],
                       [Regex("a") EXCEPT !.unsupported = TRUE, !.negative = <<"x">>]}}
             \cup {<<>>, <<Document("s", <<Mapping(Regex("a"))>>)>>,
                   <<[Document("r", <<>>) EXCEPT !.enabled = FALSE]>>,
                   <<[Document("r", <<Mapping([Regex("a") EXCEPT !.negative = <<"x">>])>>) EXCEPT !.languages = {"java", "ruby"}]>>}
Chunk(n) == [kind |-> "chunk", size |-> n]
Exit(n) == [kind |-> "exit", size |-> n]
End == [kind |-> "end", size |-> 0]
Late == [kind |-> "late", size |-> 0]
Transcripts == {<<Chunk(2), End, Exit(0)>>, <<Exit(0), Chunk(1), Chunk(1), End>>,
                <<Chunk(2), Exit(0)>>, <<Chunk(2), End, Exit(1)>>,
                <<Chunk(1), End,
                  Exit(0)>>, <<Chunk(2), Chunk(2), End,
                               Exit(0)>>, <<Chunk(2), End, Late, Exit(0)>>, <<Exit(9), End>>}
SuitesOf ==
  {<<c, d>> \o n : c \in SuiteCases, d \in SuiteCases, n \in {<<>>, <<Negatives[1]>>, Negatives}}
FixtureCases(d) ==
  {[part |-> "fixtures",
    request |-> [valid |-> v[1], docs |-> d, suite |-> [rule |-> "r", cases |-> c], events |-> e,
                 reportSize |-> 1,
                 answered |-> v[2]]] :
     c \in SuitesOf, e \in Transcripts,
     v \in {<<TRUE, TRUE>>, <<TRUE, FALSE>>, <<FALSE, TRUE>>}}

RuleHolds(c) ==
  CASE c.part = "patterns" -> ReportsWhatIsDescribed(c.patterns, c.file)
    [] c.part = "option" -> StateIsCertain(c.option, c.args)
    [] c.part = "race" -> RacesAreReported(c.rule, c.files)
SuiteHolds(c) ==
  CASE c.part = "matching" -> MatchingIsLargest(c.actual, c.expected, c.tolerance)
    [] c.part = "documents" -> AuditPredictsLoading(c.docs)
    [] c.part = "fixtures" -> PassedMeansTested(c.request)
=============================================================================
