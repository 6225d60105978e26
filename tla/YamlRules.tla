----------------------------- MODULE YamlRules ------------------------------
(***************************************************************************)
(* The YAML rule language of the scanner (rules/yaml_rule.py,              *)
(* rules/call_options.py): how the fields of a pattern become a detector   *)
(* over source text or over parsed calls, what the detectors report in a   *)
(* file, and the limits that stop them.                                    *)
(*                                                                         *)
(* A source file is a sequence of lines and a line is one word; a regular  *)
(* expression is the word it finds, or "broken" when it does not compile.  *)
(* The fields of a pattern that are treated alike are one field here.      *)
(***************************************************************************)
EXTENDS Integers, Sequences, FiniteSets

LOCAL INSTANCE SequencesExt

CONSTANTS MaxPerFile,   \* _MAX_FINDINGS_PER_FILE
          MaxRegex,     \* _MAX_REGEX_FINDINGS_PER_FILE
          Window,       \* lines before a function searched for its decorator
          Strong,       \* words above an entropy or below an iteration threshold
          CallTexts     \* words written with an escaped parenthesis

(* ---- boolean options of a call ------------------------------------------ *)

\* The options of an object literal in order; a name of "spread" is a spread.
Property(options, name) ==
  FoldLeft(LAMBDA state, o : IF o.name = "spread" THEN "unknown"
                             ELSE IF o.name = name THEN o.state ELSE state,
           "missing", options)

AllArguments(option, args) ==
  LET states == {IF a.kind = "positional" THEN Property(a.options, option.name) ELSE "unknown" :
                   a \in ToSet(args)}
  IN  CASE "false" \in states -> "false"
        [] states \cap {"false", "missing"} = {"missing"} -> "missing"
        [] states \cap {"false", "missing", "unknown"} = {"unknown"} -> "unknown"
        [] OTHER -> IF args = <<>> THEN "missing" ELSE "true"

OneArgument(option, args) ==
  IF \E k \in DOMAIN args : k <= option.argument /\ args[k].kind \in {"spread", "unknown"} THEN "unknown"
  ELSE IF option.argument > Len(args) THEN "missing"
  ELSE Property(args[option.argument].options, option.name)

Keyword(option, args) ==
  LET Bound(a) == CASE a.kind = "keyword" /\ a.name = option.name -> a.state
                    [] a.kind = "keyword_spread" -> Property(a.options, option.name)
                    [] a.kind = "unknown" -> "unknown"
                    [] OTHER -> "missing"
      bound == SelectSeq(args, LAMBDA a : Bound(a) # "missing")
  IN  CASE Len(bound) = 0 -> "missing" [] Len(bound) = 1 -> Bound(bound[1]) [] OTHER -> "unknown"

OptionState(option, args) == CASE option.location = "keyword" -> Keyword(option, args)
                               [] option.argument = 0 -> AllArguments(option, args)
                               [] OTHER -> OneArgument(option, args)

(* ---- the fields of a pattern ---------------------------------------------- *)

NoOption == [location |-> "none", name |-> "", argument |-> 0, states |-> {}]

\* contain is must_contain; context the fields every call or source match
\* needs around it, negative, missing and guard the fields that exclude one:
\* negative only in source, guard only around calls; header those that the
\* audit does not compile.
NoFields == [pattern |-> <<>>, type |-> "none", match |-> <<>>, callee |-> <<>>, full |-> FALSE,
             receiver |-> <<>>, argsMatch |-> <<>>, argsExclude |-> <<>>, index |-> 0,
             missingArgs |-> <<>>, option |-> NoOption, primary |-> <<>>, contain |-> <<>>,
             context |-> <<>>, negative |-> <<>>, missing |-> <<>>, guard |-> <<>>,
             header |-> <<>>, multi |-> <<>>, sequence |-> <<>>, taint |-> <<>>,
             sanitizers |-> <<>>, block |-> <<>>, absent |-> <<>>, threshold |-> FALSE,
             file |-> <<>>, scope |-> "none", lines |-> 50, languages |-> {},
             disposition |-> "none", unsupported |-> FALSE]

Given(d, fields) == \E f \in fields : d[f] # NoFields[f]
CallFields ==
  {"argsMatch", "argsExclude", "missingArgs", "option", "context", "missing", "guard", "header"}
StructuralFields ==
  {"primary", "threshold", "block", "absent", "file", "multi", "sequence", "taint"}
SourceFields == StructuralFields \cup {"contain", "context", "negative", "missing", "header"}

\* A pattern with constraints on a call is a call pattern, another one a regex.
IsLegacy(d) == d.pattern # <<>> /\ d.type = "none" /\ d.callee = <<>>
ForcesCall(d) == IsLegacy(d) /\ Given(d, CallFields)
Normal(d) == IF ForcesCall(d) THEN [d EXCEPT !.callee = d.pattern]
             ELSE IF IsLegacy(d) THEN [d EXCEPT !.type = "regex"] ELSE d

Relational(d) ==
  Given(d, {"multi", "sequence", "taint"}) \/ d.type \in {"negative_check", "sequence", "taint"}

SourceMode(d, forced) ==
  \/ d.type \in {"regex", "negative_check", "sequence", "taint", "entropy"}
  \/ Given(d, IF d.callee = <<>> THEN SourceFields ELSE StructuralFields)
  \/ ~forced /\ ToSet(d.callee) \cap CallTexts # {}

Compiled(values) == SelectSeq(values, LAMBDA w : w # "broken")

\* _configure_source: what is searched in text.
SourcePrimary(d) ==
  (IF d.type \in {"regex", "negative_check", "entropy"}
     THEN (IF d.match # <<>> THEN d.match ELSE d.pattern) ELSE <<>>)
  \o d.callee \o d.receiver \o d.primary
SourceParts(d) ==
  LET Parts(primary, lead, negated, tainted) ==
        [primary |-> Compiled(IF lead THEN <<Head(d.multi)>> ELSE primary),
         required |-> Compiled((IF negated THEN <<>> ELSE d.contain) \o d.context \o d.argsMatch
                               \o (IF lead THEN Tail(d.multi) ELSE d.multi)),
         excluded |-> Compiled(d.negative \o d.missing \o d.header \o d.argsExclude \o d.missingArgs
                               \o d.sanitizers \o (IF negated THEN d.contain ELSE <<>>)),
         sequence |-> Compiled(IF tainted THEN d.taint ELSE d.sequence),
         block |-> IF Len(Compiled(d.block)) = 3 THEN d.block ELSE <<>>,
         absent |-> IF Len(Compiled(d.absent)) = 2 THEN d.absent ELSE <<>>]
      With(primary) == Parts(primary, primary = <<>> /\ d.multi # <<>>, d.type = "negative_check",
                             d.taint # <<>> \/ d.type = "taint")
  IN  With(SourcePrimary(d))
NoParts == [primary |-> <<>>, required |-> <<>>, excluded |-> <<>>, sequence |-> <<>>,
            block |-> <<>>, absent |-> <<>>]

\* PatternSpec.__init__
Spec(data) ==
  LET Built(d, source) ==
      [source |-> source,
       text |-> IF source THEN SourceParts(d) ELSE NoParts,
       around |-> IF source THEN <<>> ELSE Compiled(d.context),
       unless |-> IF source THEN <<>> ELSE Compiled(d.missing \o d.guard \o d.header),
       callee |-> d.callee, full |-> d.full,
       receiver |-> Compiled(d.receiver), receiverGiven |-> d.receiver # <<>>,
       args |-> Compiled(d.argsMatch), argsGiven |-> d.argsMatch # <<>>,
       notArgs |-> Compiled(d.argsExclude), notArgsGiven |-> d.argsExclude # <<>>,
       missingArgs |-> Compiled(d.missingArgs), index |-> d.index, option |-> d.option,
       threshold |-> d.threshold, file |-> Compiled(d.file), lines |-> d.lines,
       scope |-> IF d.scope # "none" THEN d.scope ELSE IF Relational(d) THEN "function" ELSE "file",
       languages |-> d.languages,
       blocking |-> d.disposition = "blocking"]
      Read(d, forced) == Built(d, SourceMode(d, forced))
  IN  Read(Normal(data), ForcesCall(data))

IsExecutable(s) ==
  IF s.source
  THEN /\ s.option = NoOption
       /\ \/ s.text.primary # <<>> \/ s.text.sequence # <<>> \/ s.text.block # <<>>
          \/ s.text.absent # <<>> \/ (s.file # <<>> /\ s.text.excluded # <<>>)
  ELSE \/ s.callee # <<>> \/ s.receiverGiven \/ s.argsGiven \/ s.notArgsGiven
       \/ s.missingArgs # <<>> \/ s.option # NoOption

(* ---- source patterns -------------------------------------------------------- *)

Has(text, w) == w \in ToSet(text)
HasAll(text, ws) == ToSet(ws) \subseteq ToSet(text)
HasAny(text, ws) == ToSet(ws) \cap ToSet(text) # {}
LinesOf(text, w) == SelectSeq([k \in DOMAIN text |-> k], LAMBDA k : text[k] = w)
Upto(s, n) == SubSeq(s, 1, IF Len(s) < n THEN Len(s) ELSE n)

\* The first line from line k on with the word, 0 for none.
Search(text, w, k) == LET at == SelectSeq(LinesOf(text, w), LAMBDA i : i >= k)
                      IN  IF at = <<>> THEN 0 ELSE Head(at)

\* A mutant: a sequence that is found with its first step.
FirstStep(text, steps, lines) ==
  IF Has(text, steps[1]) THEN Search(text, steps[1], 1) ELSE 0

\* The line of the first step, 0 when one is missing: each step is searched
\* after the one before it and never tried again.
RunSequence(text, steps, lines) ==
  LET Found(at, next) ==
        IF next = 0 \/ (at.first # 0 /\ next - at.last > lines) THEN [first |-> 0, last |-> 0]
        ELSE [first |-> IF at.first = 0 THEN next ELSE at.first, last |-> next]
      Step(at, w) == IF at.last = 0 THEN at
                     ELSE Found(at, Search(text, w, IF at.first = 0 THEN 1 ELSE at.last + 1))
  IN  FoldLeft(Step, [first |-> 0, last |-> 1], steps).first

BlockMatches(text, block) ==
  LET Within(start, stop) == SubSeq(text, start, IF stop = 0 THEN Len(text) ELSE stop)
      From(start) == IF start = 0 \/ Has(Within(start, Search(text, block[2], start + 1)), block[3])
                     THEN <<>> ELSE <<start>>
  IN  From(Search(text, block[1], 1))

Decorated(text, k, decorator) ==
  Has(SubSeq(text, IF k > Window THEN k - Window ELSE 1, k - 1), decorator)

FindSourceMatches(s, text) ==
  CASE s.text.block # <<>> -> BlockMatches(text, s.text.block)
    [] s.text.absent # <<>> ->
         Upto(SelectSeq(LinesOf(text, s.text.absent[1]),
                        LAMBDA k : ~Decorated(text, k, s.text.absent[2])), MaxRegex)
    [] s.text.sequence # <<>> ->
         SelectSeq(<<RunSequence(text, s.text.sequence, s.lines)>>,
                   LAMBDA k : k # 0 /\ ~HasAny(text, s.text.excluded))
    [] ~HasAll(text, s.text.required) \/ HasAny(text, s.text.excluded) -> <<>>
    [] s.text.primary # <<>> ->
         IF ~HasAll(text, Tail(s.text.primary)) THEN <<>>
         ELSE Upto(SelectSeq(LinesOf(text, s.text.primary[1]),
                             LAMBDA k : ~s.threshold \/ text[k] \in Strong), MaxRegex)
    [] OTHER -> IF s.file # <<>> THEN <<1>> ELSE <<>>

\* Functions are pairs of a first and a last line, each searched once.
Unique(s) == FoldLeft(LAMBDA seen, f : IF f \in ToSet(seen) THEN seen ELSE Append(seen, f), <<>>, s)
SourceSegments(ast, scope) == IF scope # "function" \/ ast.functions = <<>> THEN << <<1, Len(ast.text)>> >>
                              ELSE Unique(ast.functions)

MatchSourcePattern(s, ast) ==
  LET Placed(found, first) == [k \in DOMAIN found |-> first + found[k] - 1]
      InSegment(acc, seg) == acc \o Placed(FindSourceMatches(s, SubSeq(ast.text, seg[1], seg[2])), seg[1])
      Cut(lines) == [lines |-> Upto(lines, MaxRegex), limited |-> Len(lines) >= MaxRegex]
  IN  Cut(IF ast.text = <<>> \/ (s.file # <<>> /\ ast.path # s.file[1]) THEN <<>>
          ELSE FoldLeft(InSegment, <<>>, SourceSegments(ast, s.scope)))

(* ---- call patterns ----------------------------------------------------------- *)

\* The smallest function around the line, or the file.
CallContext(ast, line) ==
  LET Smaller(best, f) == IF f[2] - f[1] < best[2] - best[1] THEN f ELSE best
      Text(f) == SubSeq(ast.text, f[1], f[2])
      Of(around) == IF around = <<>> THEN ast.text
                    ELSE Text(FoldLeft(Smaller, Head(around), Tail(around)))
  IN  Of(SelectSeq(ast.functions, LAMBDA f : f[1] <= line /\ line <= f[2]))

\* Searched in "receiver.callee", the whole of it in full mode.
CalleeMatches(s, call) ==
  \/ Compiled(s.callee) = <<>>
  \/ IF s.full THEN call.receiver = "" /\ s.callee[1] = call.callee
     ELSE s.callee[1] \in {call.receiver, call.callee}

CallMatches(s, ast, call) ==
  LET Constrained(args, context) ==
        /\ s.args # <<>> => Has(args, s.args[1])
        /\ s.missingArgs # <<>> => ~HasAll(args, s.missingArgs)
        /\ ~HasAny(args, s.notArgs)
        /\ HasAll(context, s.around) /\ ~HasAny(context, s.unless)
  IN  /\ (s.args # <<>> \/ s.notArgs # <<>>) => call.args # <<>>
      /\ CalleeMatches(s, call)
      /\ s.option # NoOption => OptionState(s.option, call.structured) \in s.option.states
      /\ s.index <= Len(call.args)
      /\ s.receiver # <<>> => call.receiver = s.receiver[1]
      /\ Constrained(IF s.index = 0 THEN call.args
                     ELSE <<call.args[s.index]>>, CallContext(ast, call.line))

\* A further call is looked at only when the cap is not reached.
MatchPattern(s, ast) ==
  LET Cut(calls) ==
        [lines |-> Upto([k \in DOMAIN calls |-> calls[k].line], MaxPerFile),
         limited |-> Len(calls) > MaxPerFile
                     \/ (Len(calls) = MaxPerFile /\ calls[MaxPerFile] # ast.calls[Len(ast.calls)])]
  IN  Cut(SelectSeq(ast.calls, LAMBDA c : CallMatches(s, ast, c)))

(* ---- a rule over a file -------------------------------------------------------- *)

Finding(path, line, blocking) == [path |-> path, line |-> line, blocking |-> blocking]

\* _eval_patterns: patterns in order until the cap of the file, which a
\* source pattern lowers.
EvalPatterns(specs, ast) ==
  LET Matched(s) == IF s.source THEN MatchSourcePattern(s, ast) ELSE MatchPattern(s, ast)
      Located(s, lines) == [k \in DOMAIN lines |-> Finding(ast.path, lines[k], s.blocking)]
      After(found, cap, limited) == [found |-> found, cap |-> cap, stop |-> Len(found) >= cap,
                                     limited |-> limited \/ Len(found) >= cap]
      Add(acc, s, match) == After(acc.found \o Located(s, match.lines), IF s.source THEN MaxRegex
                                                                        ELSE acc.cap,
                                  acc.limited \/ match.limited)
      Step(acc, s) ==
        IF acc.stop \/ ~IsExecutable(s) \/ (s.languages # {} /\ ast.language \notin s.languages)
        THEN acc ELSE Add(acc, s, Matched(s))
      Cut(end) == [found |-> Upto(end.found, end.cap), limited |-> end.limited]
  IN  Cut(FoldLeft(Step, [found |-> <<>>, cap |-> MaxPerFile, stop |-> FALSE, limited |-> FALSE], specs))

\* _eval_semantic: one finding in each function where a value read from a
\* store is written back after a decision, without a defence.  The cap is of
\* all files together.
Races(r, ast, f) ==
  LET Follows(a, b) == /\ b.line > a.line /\ b.line - a.line <= r.lines
                       /\ r.same => a.receiver = b.receiver
                       /\ Has(SubSeq(ast.text, a.line, b.line), r.between)
      Pairs(reads, writes) ==
        FoldLeft(LAMBDA acc, a : acc \o SelectSeq(writes, LAMBDA b : Follows(a, b)), <<>>, reads)
      Calls(name) == SortSeq(SelectSeq(ast.calls, LAMBDA c : /\ f[1] <= c.line /\ c.line <= f[2]
                                                              /\ c.receiver \in r.receivers /\ c.callee = name),
                             LAMBDA a, b : a.line < b.line)
  IN  Upto(Pairs(Calls(r.read), Calls(r.write)), 1)

EvalSemantic(r, asts) ==
  LET After(found, limited) == [found |-> found, stop |-> Len(found) >= MaxPerFile,
                                limited |-> limited \/ Len(found) >= MaxPerFile]
      Located(ast, writes) == [k \in DOMAIN writes |-> Finding(ast.path, writes[k].line, TRUE)]
      InFunction(ast, acc, f) ==
        IF acc.stop \/ Has(SubSeq(ast.text, f[1], f[2]), r.defence) THEN acc
        ELSE After(acc.found \o Located(ast, Races(r, ast, f)), acc.limited)
      InFile(acc, ast) == FoldLeft(LAMBDA a, f : InFunction(ast, a, f),
                                   [acc EXCEPT !.stop = FALSE], Unique(ast.functions))
  IN  FoldLeft(InFile, [found |-> <<>>, stop |-> FALSE, limited |-> FALSE], asts)

\* _has_fixed_http_origin: every call at the sink has a literal origin there.
HasFixedOrigin(flow, asts) ==
  LET Fixed(at) == /\ flow.argument > 0 /\ at # {}
                   /\ \A c \in at : Len(c.args) >= flow.argument /\ c.args[flow.argument] = "origin"
  IN  Fixed({c \in UNION {ToSet(a.calls) : a \in {b \in ToSet(asts) : b.path = flow.path}} :
               c.line = flow.line /\ c.callee = flow.sink})

EvalTaint(rule, asts, flows) ==
  LET t == rule.taint
      Selected(flow) ==
        /\ t.sinks # {} => flow.sink \in t.sinks
        /\ t.sources # {} => flow.source \in t.sources
        /\ ~flow.sanitized \/ t.ignoreSanitizers
        /\ rule.languages # {} => \E a \in ToSet(asts) : a.path = flow.path /\ a.language \in rule.languages
        /\ ~(rule.ssrf /\ HasFixedOrigin(flow, asts))
      Located(chosen) == [k \in DOMAIN chosen |-> Finding(chosen[k].path, chosen[k].line, TRUE)]
  IN  Located(SelectSeq(flows, Selected))

NoRace == [read |-> "none", write |-> "none", receivers |-> {}, between |-> "none", defence |-> "none",
           lines |-> 20, same |-> TRUE]
NoTaint == [given |-> FALSE, sinks |-> {}, sources |-> {}, ignoreSanitizers |-> FALSE]

\* YAMLRule.evaluate
Evaluate(rule, asts, flows) ==
  LET Join(parts, races) ==
        [findings |-> (IF rule.taint.given THEN EvalTaint(rule, asts, flows) ELSE <<>>)
                      \o FoldLeft(LAMBDA acc, p : acc \o p.found, <<>>, parts) \o races.found,
         limited |-> races.limited \/ \E k \in DOMAIN parts : parts[k].limited]
      Over(mine) == Join([k \in DOMAIN mine |-> EvalPatterns(rule.patterns, mine[k])],
                         IF rule.race = NoRace THEN [found |-> <<>>, limited |-> FALSE]
                         ELSE EvalSemantic(rule.race, mine))
  IN  Over(SelectSeq(asts, LAMBDA a : rule.languages # {} => a.language \in rule.languages))
=============================================================================
