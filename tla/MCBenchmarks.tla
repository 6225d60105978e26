---------------------------- MODULE MCBenchmarks ----------------------------
(***************************************************************************)
(* What a measurement may claim, and the small inputs it is checked with:  *)
(* a matching is a largest one, a report that loads is one that some scan  *)
(* explains, and a comparison that passes hides no case that got worse.    *)
(***************************************************************************)
EXTENDS Benchmarks

LOCAL INSTANCE SequencesExt
LOCAL INSTANCE FiniteSetsExt
LOCAL INSTANCE TLC

(* ---- the claims ------------------------------------------------------------------- *)

\* No other way to pair findings with labels finds more.
MatchingIsLargest(c) ==
  LET Near(i, k) == c.lines[i] - c.labels[k] \in -Tolerance..Tolerance
      Pairings == {m \in SUBSET {p \in (DOMAIN c.lines) \X (DOMAIN c.labels) : Near(p[1], p[2])} :
                     \A p, q \in m : p # q => p[1] # q[1] /\ p[2] # q[2]}
      found == EvaluateFindings(c.lines, c.labels)
  IN  /\ \E m \in Pairings : Cardinality(m) = found.tp
      /\ \A m \in Pairings : Cardinality(m) <= found.tp
      /\ found.tp + found.fp = Len(c.lines) /\ found.tp + found.fn = Len(c.labels)

\* As long as nobody puts an old version back, a report is about the inputs it names.
ReportIsAboutItsInputs(c) ==
  LET report == RunOwned(c.history, <<1>>, c.expected, c.scan)
      Forward == \A i \in Inputs : c.history.first[i] <= c.history.during[i] /\ c.history.during[i] <= c.history.last[i]
  IN  /\ report.status = "reported" /\ Forward => c.history.during = c.history.first
      /\ report.complete => report.status = "reported" /\ c.scan.missing = {} /\ \A k \in DOMAIN c.expected : c.expected[k] <= c.scan.lines

\* A scan that leaves a report like this one behind: for each row as many
\* findings, of those rules, with a finding for each channel that was hit.
FindingsOf(row, count) ==
  LET rules == SetToSeq(row.rules)
      Hit(channel) == row.outcomes[channel] \in {"tp", "fp"}
      Channel(j) == CASE j = 1 /\ Hit("advisory") -> "advisory"
                      [] Hit("blocking") /\ j = (IF Hit("advisory") THEN 2 ELSE 1) -> "blocking"
                      [] OTHER -> "candidate"
  IN  {[id |-> <<row.name, j>>, at |-> row.name, cwe |-> row.cwe, channel |-> Channel(j),
        rule |-> rules[IF j <= Len(rules) THEN j ELSE 1]] : j \in 1..count}
Explaining(report) ==
  [status |-> report.status, gaps |-> report.gaps, ran |-> report.ran, provenance |-> report.provenance,
   analyzed |-> {r.name : r \in {r \in ToSet(report.rows) : r.reason # "file_not_analyzed"}},
   cwes |-> [r \in report.ran |-> IF r \in DOMAIN report.byRule THEN report.byRule[r].cwe ELSE 0],
   findings |-> UNION {FindingsOf(r, r.count) : r \in ToSet(report.rows)}]
CasesOf(report) ==
  [k \in DOMAIN report.rows |-> [name |-> report.rows[k].name, cwe |-> report.rows[k].cwe,
                                 positive |-> report.rows[k].positive]]

\* Not caught: one finding cannot be in both channels, and a row may say it was.
OneInTwoChannels(row) == row.count = 1 /\ \A c \in Channels : row.outcomes[c] \in {"tp", "fp"}

LoadedReportsAreExplained(c) ==
  LET report == c.report IN
  LoadReport(report) /\ ~(\E r \in ToSet(report.rows) : OneInTwoChannels(r)) => EvaluateCases(Explaining(report), CasesOf(report)) = report

\* What a scan reports loads, and a case counts as found by a finding in its
\* own file with its own weakness, of a rule that ran.
ReportsLoad(c) ==
  LET report == EvaluateCases(c.scan, c.cases)
      Found(r, channel) == \E f \in c.scan.findings : /\ f.at = r.name /\ f.cwe = r.cwe /\ channel \in {"all", f.channel}
                                                      /\ f.rule \in c.scan.ran /\ c.scan.cwes[f.rule] = r.cwe
      scored == {r \in ToSet(report.rows) : r.reason = "none"}
  IN  /\ LoadReport(report)
      /\ \A r \in scored : \A ch \in Channels : r.outcomes[ch] \in {"tp", "fp"} <=> Found(r, ch)
      /\ \A r \in scored : c.scan.status = "completed" /\ ~c.scan.gaps /\ r.name \in c.scan.analyzed
      /\ \A ch \in Channels : report.metrics[ch]["tp"] + report.metrics[ch]["fn"] = Cardinality({r \in scored : r.positive})

\* A comparison that passes: every answer that was right still is, in every
\* channel, and both sides answered every case.
ComparisonHidesNothing(c) ==
  Comparable(c.before, c.after) =>
    LET exit == Compare(c.before, c.after, c.identical)
        Worse(k) == \E ch \in Channels : /\ c.before.rows[k].outcomes[ch] \in Right
                                         /\ c.after.rows[k].outcomes[ch] \notin Right
        rows == DOMAIN c.before.rows
    IN  /\ exit = 0 => /\ \A k \in rows : ~Worse(k) /\ c.before.rows[k].reason = "none" /\ c.after.rows[k].reason = "none"
                       /\ c.identical => c.after.metrics = c.before.metrics /\ c.after.provenance = c.before.provenance
        /\ exit = 3 => \A k \in rows : ~Worse(k) /\ (c.before.rows[k].reason = "none" => c.after.rows[k].reason = "none")
        /\ exit = 1 /\ ~c.identical => \E k \in rows : Worse(k) \/ (c.before.rows[k].reason = "none" /\ c.after.rows[k].reason # "none")

\* Statistics are of all the samples that were asked for, of one input and outcome.
NoSampleIsOmitted(c) ==
  LET measured == Measure(c.samples, Len(c.samples)) IN
    /\ measured.valid <=> \A j, k \in DOMAIN c.samples : /\ c.samples[j].end = "0" /\ c.samples[j].status = "completed"
                                                         /\ c.samples[j].seconds > 0
                                                         /\ c.samples[j].identity = c.samples[k].identity
    /\ measured.valid => measured.statistics = [k \in DOMAIN c.samples |-> c.samples[k].seconds]
    /\ ~measured.valid => measured.statistics = <<>> /\ measured.samples # <<>>

(* ---- the inputs ----------------------------------------------------------------------- *)

Increasing(n, top) == {s \in [1..n -> 1..top] : \A k \in 1..n - 1 : s[k] <= s[k + 1]}
Strictly(n, top) == {s \in Increasing(n, top) : \A k \in 1..n - 1 : s[k] < s[k + 1]}
LineCases(n) ==
  {[kind |-> "lines", lines |-> lines, labels |-> labels] : lines \in Increasing(n, 6),
   labels \in UNION {Strictly(m, 6) : m \in 1..3}}

Versions == {[i \in Inputs |-> IF i = changed THEN v ELSE 1] : changed \in Inputs, v \in 1..3}
OwnedCases(first) ==
  {[kind |-> "owned", history |-> [first |-> first, during |-> during, last |-> last],
    expected |-> expected,
    scan |-> [status |-> "completed", gaps |-> gaps, missing |-> missing, lines |-> 2]] :
     during \in Versions, last \in Versions, expected \in {<<1>>, <<3>>}, gaps \in BOOLEAN, missing \in {{}, {"a"}}}

Provenance == [inputs |-> 1, implementation |-> 1]
Found(id, at, rule, cwe, channel) ==
  [id |-> id, at |-> at, rule |-> rule, cwe |-> cwe, channel |-> channel]
Sightings == {Found(1, 1, "a", 1, "advisory"), Found(2, 1, "a", 1, "blocking"),
              Found(3, 1, "b", 2, "blocking"),
              Found(4, 2, "b", 2, "candidate"), Found(5, 0, "a", 1, "blocking"), Found(6, 2, "a", 2, "blocking")}
ScanCases(findings) ==
  {[kind |-> "scan",
    cases |-> <<[name |-> 1, cwe |-> 1, positive |-> p], [name |-> 2, cwe |-> w, positive |-> ~p]>>,
    scan |-> [status |-> status, gaps |-> gaps, ran |-> ran, cwes |-> cwes, analyzed |-> analyzed,
              findings |-> findings, provenance |-> Provenance]] :
     p \in BOOLEAN, w \in {1, 2}, status \in {"completed", "partial"}, gaps \in BOOLEAN,
     ran \in {{"a"}, {"a", "b"}}, cwes \in {("a" :> 1) @@ ("b" :> 2), ("a" :> 1) @@ ("b" :> 0)},
     analyzed \in {{1}, {1, 2}}}

\* Reports whose figures follow from their rows, and one figure changed.
Written(rows, status, ran, cwes) ==
  [rows |-> rows, digest |-> rows, status |-> status, gaps |-> FALSE, ran |-> ran,
   metrics |-> Metrics(ToSet(rows)),
   byCwe |-> ByCwe(ToSet(rows)), byRule |-> ByRule(ToSet(rows), cwes), reasons |-> Reasons(ToSet(rows)),
   complete |-> status = "completed" /\ Reasons(ToSet(rows)) = <<>>, provenance |-> Provenance]
Claims == {[c \in Channels |-> IF c = "all" THEN x ELSE IF c = "advisory" THEN y ELSE z] :
             x \in {"tp", "fn", "tn",
                    "unscored"}, y \in {"tp", "fn", "fp", "unscored"}, z \in {"tp", "fn", "unscored"}}
CaseRow(name, cwe, positive, reason, outcomes, rules, count) ==
  [name |-> name, cwe |-> cwe, positive |-> positive, reason |-> reason, outcomes |-> outcomes,
   rules |-> rules, count |-> count]
Scopes == {[r \in {} |-> 1], "a" :> 1, "a" :> 2, ("a" :> 1) @@ ("b" :> 1), ("a" :> 1) @@ ("b" :> 2)}
ReportCases(claim) ==
  {[kind |-> "report",
    report |-> Written(<<CaseRow(1, 1, p, reason, claim, rules, count)>> \o more, status, {"a", "b"}, cwes)] :
     p \in BOOLEAN, reason \in {"none", "analysis_incomplete", "file_not_analyzed",
                                "no_executed_cwe_rule"},
     rules \in {{}, {"a"},
                {"a", "b"}}, count \in 0..2, status \in {"completed", "failed"}, cwes \in Scopes, more \in {<<>>}}
  \cup
  {[kind |-> "report",
    report |-> [[Written(<<CaseRow(1, 1, TRUE, "none", claim, {"a"}, 2)>>, "completed", {"a"}, "a" :> 1)
                                     EXCEPT !.metrics["all"]["tp"] = n] EXCEPT !.complete = whole]] :
     n \in 0..2, whole \in BOOLEAN}

Scored(o) == [c \in Channels |-> o]
Some(name, o) == CaseRow(name, 1, o \in {"tp", "fn"}, IF o = "unscored" THEN "file_not_analyzed"
                                                      ELSE "none", Scored(o),
                         IF o \in {"tp", "fp"} THEN {"a"} ELSE {}, IF o \in {"tp", "fp"} THEN 2 ELSE 0)
Blocked(name, z) ==
  CaseRow(name, 1, TRUE, "none", [Scored("tp") EXCEPT !["blocking"] = z], {"a"}, 2)
Reports(o) == {Written(<<first, second>>, status, {"a"}, "a" :> 1) :
                 first \in {Some(1, o), Some(1, "unscored"),
                            Blocked(1, "fn")}, second \in {Some(2, "tn"), Some(2, "fp")},
                 status \in {"completed", "failed"}}
CompareCases(o) ==
  {[kind |-> "compare", before |-> before, after |-> after, identical |-> identical] :
     before \in Reports(o), after \in Reports("tp") \cup {[r EXCEPT !.provenance.implementation = 2] : r \in Reports("fn")},
     identical \in BOOLEAN}

Samples == {[end |-> e, status |-> s, identity |-> i, seconds |-> t] :
              e \in {"0", "late"}, s \in {"completed", "partial"}, i \in 1..2, t \in 0..1}
SampleCases(first) ==
  {[kind |-> "samples", samples |-> <<first, second, third>>] : second \in Samples, third \in Samples}

BenchmarkHolds(c) ==
  CASE c.kind = "lines" -> MatchingIsLargest(c)
    [] c.kind = "owned" -> ReportIsAboutItsInputs(c)
    [] c.kind = "scan" -> ReportsLoad(c)
    [] c.kind = "report" -> LoadedReportsAreExplained(c)
    [] c.kind = "compare" -> ComparisonHidesNothing(c)
    [] OTHER -> NoSampleIsOmitted(c)
=============================================================================
