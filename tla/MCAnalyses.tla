----------------------------- MODULE MCAnalyses -----------------------------
(***************************************************************************)
(* The analyses of one scan, each over its own small inputs, and what is   *)
(* made of them: the agents' review and the benchmarks.  A behaviour is    *)
(* about one of them: the taint rounds over a program, an execution beside *)
(* the control-flow graph built of it, or one input of a part that answers *)
(* in one go.                                                              *)
(***************************************************************************)
EXTENDS MCTaint, ControlFlowMeaning

VARIABLE analysed    \* [kind, asked, input]: the analysis and, where it answers in one go, its input

CONSTANTS TargetJava, MaxClasses, MaxTotalSize, PointsDepth, PointsContexts, PointsIterations,
          SqlNames, MaxSteps,
          MaxPerFile, MaxRegex, Window, Strong, CallTexts, Supported, MaxOutput,
          MaxChain, Templates, Segments, OutputLimit, ResponseLimit, MaxEvidence, MaxToolCalls, TracedByTools,
          Tolerance

Jvm == INSTANCE MCJvm
Sql == INSTANCE MCSql
Rules == INSTANCE MCRules
Calls == INSTANCE MCCalls
Evidence == INSTANCE MCEvidence
Measures == INSTANCE MCBenchmarks

(* ---- programs to walk through -------------------------------------------- *)

Statement(type, body, blocks, other, final) ==
  [type |-> type, body |-> body, blocks |-> blocks, other |-> other, final |-> final,
   default |-> {}, defs |-> {}, names |-> {}, alias |-> <<>>, call |-> 0]
Leaf(type) == Statement(type, <<>>, <<>>, <<>>, <<>>)
Set(v) == [Leaf("plain") EXCEPT !.defs = {v}]
Use(v) == [Leaf("plain") EXCEPT !.names = {v}]
Copy(v, w) == [Leaf("plain") EXCEPT !.defs = {v}, !.names = {w}, !.alias = <<v, w>>]
\* x = g(x, y)
Call(g) == [Leaf("plain") EXCEPT !.call = g, !.defs = {"x"}, !.names = {"x", "y"}]
If(a, b) == Statement("if", a, b, <<>>, <<>>)
Loop(a) == Statement("loop", a, <<>>, <<>>, <<>>)
Switch(cases, default) == [Statement("switch", <<>>, cases, <<>>, <<>>) EXCEPT !.default = default]
When(cases) == [Switch(cases, {}) EXCEPT !.type = "when"]
Try(body, catches, other, final) == Statement("try", body, catches, other, final)

\* Every statement gets its place in the tree as its id.
RECURSIVE Numbering(_, _)
Numbering(ss, path) ==
  [i \in DOMAIN ss |->
     LET id == Append(path, i)
         block(bs, k) == [j \in DOMAIN bs |-> Numbering(bs[j], id \o <<k, j>>)]
     IN  [id |-> id, type |-> ss[i].type, body |-> Numbering(ss[i].body, Append(id, 0)),
          blocks |-> block(ss[i].blocks, 1), other |-> block(ss[i].other, 2),
          final |-> block(ss[i].final, 3), default |-> ss[i].default, defs |-> ss[i].defs,
          names |-> ss[i].names, alias |-> ss[i].alias, call |-> ss[i].call]]

Function(body) == [params |-> {"x", "y"}, body |-> Numbering(body, <<>>)]

Small == {<<>>, <<Set("x")>>, <<Copy("y", "x"), Leaf("return")>>, <<Leaf("throw")>>}
Ends == {<<Leaf("break")>>, <<Use("x"), Leaf("continue")>>}

Compounds ==
  {If(a, <<>>) : a \in Small} \cup {If(a, <<b>>) : a \in Small, b \in Small}
    \cup {Loop(a) : a \in Small} \cup {Switch(<<a, b>>, d) : a \in Small
                                       \cup {<<Set("x"), Leaf("break")>>}, b \in Small, d \in {{}, {2}}}
    \cup {When(<<a, b>>) : a \in Small, b \in Small}
    \cup {Try(<<Set("x")>> \o a, <<b>>, <<>>, <<>>) : a \in Small, b \in Small}
    \cup {Try(<<Set("x")>> \o a, <<>>, <<>>, <<c>>) : a \in Small, c \in Small}
    \cup {Try(<<Set("y"), Set("x")>> \o a, <<b>>, <<>>, <<c>>) : a \in Small, b \in Small, c \in Small}
    \cup {Try(<<Set("x")>>, <<b>>, <<o>>, <<c>>) : b \in Small, o \in Small, c \in Small}

Around(c) ==
  {<<c>>,
   <<Loop(<<c, If(<<Leaf("break")>>, <<>>), Use("x")>>)>>,
   <<Loop(<<If(<<Copy("x", "y"), Leaf("continue")>>, <<>>), c>>)>>,
   <<Try(<<c>>, <<<<Use("x")>>>>, <<>>, <<>>)>>,
   <<Try(<<c, Set("y")>>, <<>>, <<>>, <<<<Use("x")>>>>)>>}

Single ==
  UNION {{<<Function(<<Copy("y", "x")>> \o a \o <<Use("x")>>)>> : a \in Around(c)} : c \in Compounds}

\* Around a compound statement, a try with a catch and a finally block.
Nested == {<<Function(<<Copy("y", "x"), Try(<<c>>, <<<<Use("x")>>>>, <<>>, <<<<Set("x")>>>>), Use("x")>>)>>
           : c \in Compounds}

\* A loop is left from inside a try statement.
Leaving == {<<Function(<<Loop(<<Try(<<Use("x")>> \o a, c, <<>>, f), Set("x")>>), Use("x")>>)>>
            : a \in Ends, c \in {<<>>, <<<<Set("y")>>>>}, f \in {<<<<Set("x")>>>>, <<<<Leaf("return")>>>>}}

Inner == {<<>>, <<Set("x")>>, <<If(<<Leaf("return")>>, <<>>), Copy("y", "x")>>}
Calling ==
  {<<Function(<<Call(2), If(<<Call(2)>>, <<>>), Use("x")>>), Function(g)>> : g \in Inner}
    \cup {<<Function(<<Try(<<Call(2), Leaf("return")>>, <<<<Use("x")>>>>, <<>>, f), Use("x")>>),
            Function(g)>>
           : g \in Inner, f \in {<<>>, <<<<Set("x")>>>>}}
    \cup {<<Function(<<Loop(<<Call(2), Use("x")>>)>>), Function(<<If(<<Call(3)>>, <<>>), Call(3)>>),
            Function(g)>>
           : g \in Inner}
    \cup {<<Function(<<If(<<Call(1), Use("x")>>, <<<<Leaf("return")>>>>), Set("x")>>)>>}

MCFlowPrograms == Single \cup Nested \cup Leaving \cup Calling

(* ---- one analysis of one input -------------------------------------------- *)

TaintIdle ==
  /\ program = <<>> /\ contexts = {} /\ agenda = {} /\ round = 0 /\ truncated = TRUE
  /\ facts = <<>> /\ before = <<>> /\ flows = <<>>

FlowIdle ==
  /\ flowProgram = <<>> /\ flowGraph = <<>> /\ at = <<>> /\ calls = <<>> /\ lastDefs = <<>>
  /\ activation = <<[fun |-> MainProgram, stmt |-> NoStatement, frames |-> <<>>, phase |-> "idle"]>>
  /\ omitted = TRUE

Answering == {"jvm source", "jvm bytecode", "sql", "rule", "suite", "call", "bean",
              "path", "review", "reply", "report"}

About(c) == analysed' = [analysed EXCEPT !.asked = TRUE, !.input = c]

Ask ==
  /\ analysed.kind \in Answering /\ ~analysed.asked /\ UNCHANGED <<taintVars, flowVars>>
  /\ \/ analysed.kind = "jvm source" /\ \E main \in Jvm!Callers : \E c \in Jvm!SourceCases(main) : About(c)
     \/ analysed.kind = "jvm bytecode" /\ \E h \in Jvm!Hierarchies : \E c \in Jvm!BytecodeCases(h) : About(c)
     \/ /\ analysed.kind = "call"
        /\ \/ \E l \in Calls!Layouts : \E c \in Calls!ImportCases(l) : About(c)
           \/ \E l \in Calls!Chains : \E c \in Calls!ReachCases(l) : About(c)
           \/ \E l \in Calls!Lists : \E c \in Calls!OverloadCases(l) : About(c)
     \/ /\ analysed.kind = "bean"
        /\ \/ \E s \in Calls!Shapes : \E c \in Calls!ChoiceCases(s) : About(c)
           \/ \E d \in Calls!Dependencies : \E c \in Calls!ScopeCases(d) : About(c)
     \/ /\ analysed.kind = "path"
        /\ \/ \E m \in Evidence!Marked : \E c \in Evidence!PathCases(m) : About(c)
           \/ \E f \in Evidence!Filters : \E c \in Evidence!RequestCases(f) : About(c)
           \/ \E u \in Evidence!Links : \E c \in Evidence!SurfaceCases(u) : About(c)
           \/ \E o \in Evidence!Owners : \E c \in Evidence!OverlayCases(o) : About(c)
           \/ \E l \in {<<2, 2>>, <<4, 5>>, <<7, 8>>} : \E c \in Evidence!PlaceCases(l) : About(c)
           \/ \E r \in Evidence!Records : \E c \in Evidence!ImportCases(r) : About(c)
           \/ \E r \in Evidence!Results : \E c \in Evidence!ExternalCases(r) : About(c)
     \/ analysed.kind = "review" /\ \E o \in Evidence!Observations : \E c \in Evidence!ReviewCases(o) : About(c)
     \/ /\ analysed.kind = "reply"
        /\ \/ \E n \in 1..2 : \E c \in Evidence!CommandCases(n) : About(c)
           \/ \E i \in Evidence!Items : \E c \in Evidence!ServiceCases(i) : About(c)
     \/ /\ analysed.kind = "report"
        /\ \/ \E n \in 0..3 : \E c \in Measures!LineCases(n) : About(c)
           \/ \E v \in Measures!Versions : \E c \in Measures!OwnedCases(v) : About(c)
           \/ \E f \in SUBSET Measures!Sightings : \E c \in Measures!ScanCases(f) : About(c)
           \/ \E m \in Measures!Claims : \E c \in Measures!ReportCases(m) : About(c)
           \/ \E o \in {"tp", "fn", "unscored"} : \E c \in Measures!CompareCases(o) : About(c)
           \/ \E s \in Measures!Samples : \E c \in Measures!SampleCases(s) : About(c)
     \/ analysed.kind = "sql" /\ \E c \in Sql!SqlPrograms : About(c)
     \/ /\ analysed.kind = "rule"
        /\ \/ \E p \in Rules!TextPatterns : \E c \in Rules!TextCases(p) : About(c)
           \/ \E p \in Rules!CallPatterns : \E c \in Rules!CallCases(p) \cup Rules!MixedCases(p) : About(c)
           \/ \E p \in Rules!Places : \E c \in Rules!OptionCases(p) : About(c)
           \/ \E same \in BOOLEAN : \E c \in Rules!RaceCases(same) : About(c)
     \/ /\ analysed.kind = "suite"
        /\ \/ \E n \in 0..2 : \E c \in Rules!MatchingCases(n) : About(c)
           \/ \E p \in Rules!DocumentPatterns : \E c \in Rules!DocumentCases(p) : About(c)
           \/ \E d \in Rules!Submitted : \E c \in Rules!FixtureCases(d) : About(c)

AnalysesInit ==
  \/ TaintInit /\ FlowIdle /\ analysed = [kind |-> "taint", asked |-> FALSE, input |-> <<>>]
  \/ TaintIdle /\ FlowInit /\ analysed = [kind |-> "flow", asked |-> FALSE, input |-> <<>>]
  \/ TaintIdle /\ FlowIdle /\ \E k \in Answering : analysed = [kind |-> k, asked |-> FALSE, input |-> <<>>]

AnalysesNext ==
  \/ analysed.kind = "taint" /\ TaintNext /\ UNCHANGED <<flowVars, analysed>>
  \/ analysed.kind = "flow" /\ FlowNext /\ UNCHANGED <<taintVars, analysed>>
  \/ Ask

AnalysesSpec == AnalysesInit /\ [][AnalysesNext]_<<taintVars, flowVars, analysed>>

\* Every method the machine may run for a virtual call is among the targets the
\* importer and the solver report, when neither hit a limit or refused a class;
\* the call graph resolves a call to the function its import, its class or its
\* argument types designate; and the targets of a call through an injected field
\* are the methods of the beans that a container may inject.
CallsAreCovered ==
  /\ analysed.kind \in {"jvm source", "jvm bytecode"} /\ analysed.asked => Jvm!JvmHolds(analysed.input)
  /\ analysed.kind \in {"call", "bean"} /\ analysed.asked => Calls!CallHolds(analysed.input)

\* A query the analyzer calls constant has the same text on every execution.
ConstantQueriesAreFixed == analysed.kind = "sql" /\ analysed.asked => Sql!SqlHolds(analysed.input)

\* A rule that ran into no limit reports the lines its fields describe and no
\* others, an option it reads in a call has that value, and every race is one
\* of its findings.
RulesReportWhatTheyDescribe ==
  analysed.kind = "rule" /\ analysed.asked => Rules!RuleHolds(analysed.input)

\* A rule document that the audit finds clean loads and detects, and a suite
\* that passes has run that rule to the end on every file, with the expected
\* findings and no others.
FixturesProveRules == analysed.kind = "suite" /\ analysed.asked => Rules!SuiteHolds(analysed.input)

\* A path that an agent calls complete is a walk in the call graph from an
\* endpoint's handler to the finding, what it calls observed was requested, a
\* run that ends needs no approval and cites what it was given, and a model's
\* reply counts only as the whole answer to the whole prompt.
ReviewsClaimNoMore ==
  analysed.kind \in {"path", "review",
                     "reply"} /\ analysed.asked => Evidence!EvidenceHolds(analysed.input)

\* A measurement finds as much as any pairing would, a saved report that loads
\* is one that some scan leaves behind, a comparison that passes hides no case
\* that got worse, and statistics leave no sample out.
MeasurementsAreHonest ==
  analysed.kind = "report" /\ analysed.asked => Measures!BenchmarkHolds(analysed.input)
=============================================================================
