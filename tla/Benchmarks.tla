----------------------------- MODULE Benchmarks -----------------------------
(***************************************************************************)
(* How the scanner's quality is measured: findings matched with expected   *)
(* lines (quality/benchmark.py, benchmark_runner.py), cases of the OWASP   *)
(* corpora scored (owasp.py, owasp_runner.py), saved reports verified and  *)
(* compared (comparison.py), and runs repeated (performance.py).           *)
(*                                                                         *)
(* A case is [name, cwe, positive]; a finding [id, at, rule, cwe,          *)
(* channel] with the name of the case it is in, or 0; a report keeps one   *)
(* row [name, cwe, positive, reason, outcomes, rules, count] per case, in  *)
(* the order of the names. Ratios are left out: the counts decide them.    *)
(***************************************************************************)
EXTENDS Integers, Sequences, FiniteSets

LOCAL INSTANCE SequencesExt
LOCAL INSTANCE FiniteSetsExt
LOCAL INSTANCE Functions

CONSTANTS Tolerance   \* the lines a finding may be off its label

Channels == {"all", "advisory", "blocking"}

(* ---- findings and expected lines --------------------------------------------- *)

\* A mutant: the nearest label that is free, in the order of the findings.
MatchNearest(lines, labels) ==
  LET Distance(line, k) == IF labels[k] < line THEN line - labels[k] ELSE labels[k] - line
      Take(matched, line) ==
        LET free == {k \in DOMAIN labels : k \notin matched /\ Distance(line, k) <= Tolerance}
        IN  IF free = {} THEN matched
            ELSE matched \cup {CHOOSE k \in free : \A j \in free :
                               Distance(line, k) < Distance(line, j) \/ (Distance(line, k) = Distance(line, j) /\ k <= j)}
  IN  FoldLeft(Take, {}, lines)

\* evaluate_findings, of one rule in one file: both in the order of their
\* lines, every finding takes the first label that is left and near enough.
Match(lines, labels) ==
  LET Take(st, line) ==
        LET late == {k \in DOMAIN labels : k >= st.next /\ labels[k] >= line - Tolerance}
        IN  IF late = {} THEN [st EXCEPT !.next = Len(labels) + 1]
            ELSE IF labels[Min(late)] <= line + Tolerance
                 THEN [next |-> Min(late) + 1, matched |-> st.matched \cup {Min(late)}]
                 ELSE [st EXCEPT !.next = Min(late)]
  IN  FoldLeft(Take, [next |-> 1, matched |-> {}], lines).matched
EvaluateFindings(lines, labels) ==
  LET Counted(matched) == [tp |-> Cardinality(matched), fp |-> Len(lines) - Cardinality(matched),
                           fn |-> Len(labels) - Cardinality(matched)]
  IN  Counted(Match(lines, labels))

\* run_owned_benchmark: what it reads at the start is read again after the scan.
\* A version of an input is a number; history says which one each read saw.
Inputs == {"source", "labels", "implementation", "config"}
RunOwned(history, lines, expected, scan) ==
  LET outside == \E k \in DOMAIN expected : expected[k] > scan.lines
      changed == \E i \in Inputs : history.first[i] # history.last[i]
  IN  IF outside \/ changed THEN [status |-> "refused", complete |-> FALSE,
                                  metrics |-> EvaluateFindings(<<>>, <<>>)]
      ELSE [status |-> "reported",
            complete |-> scan.status = "completed" /\ ~scan.gaps /\ scan.missing = {},
            metrics |-> EvaluateFindings(lines, expected)]

(* ---- cases ----------------------------------------------------------------------- *)

Outcome(positive, detected) ==
  IF detected THEN IF positive THEN "tp" ELSE "fp" ELSE IF positive THEN "fn" ELSE "tn"

\* How many rows have each outcome.
CaseMetrics(outcome) ==
  [o \in {"tp", "fp", "fn", "tn", "unscored"} |-> Cardinality({r \in DOMAIN outcome : outcome[r] = o})]

\* Only rules that ran and declare a weakness count: rules is a function of them.
Executed(scan) == {r \in scan.ran : scan.cwes[r] # 0}
MatchesOf(scan, case) ==
  {f \in scan.findings :
   f.at = case.name /\ f.rule \in Executed(scan) /\ scan.cwes[f.rule] = f.cwe /\ f.cwe = case.cwe}

\* Whatever went wrong anywhere leaves every case without a score.
Reason(scan, case) ==
  CASE scan.status # "completed" \/ scan.gaps -> "analysis_incomplete"
    [] case.name \notin scan.analyzed -> "file_not_analyzed"
    [] case.cwe \notin {scan.cwes[r] : r \in Executed(scan)} -> "no_executed_cwe_rule"
    [] OTHER -> "none"

Row(scan, case) ==
  LET Scored(matches, reason) ==
        [name |-> case.name, cwe |-> case.cwe, positive |-> case.positive, reason |-> reason,
         outcomes |-> [c \in Channels |-> IF reason # "none" THEN "unscored"
                                          ELSE Outcome(case.positive, \E f \in matches : c \in {"all", f.channel})],
         rules |-> {f.rule : f \in matches}, count |-> Cardinality(matches)]
  IN  Scored(MatchesOf(scan, case), Reason(scan, case))

\* What a report derives from its rows, channel by channel, weakness by weakness,
\* and rule by rule.
Metrics(rows) == [c \in Channels |-> CaseMetrics([r \in rows |-> r.outcomes[c]])]
ByCwe(rows) == [w \in {r.cwe : r \in rows} |-> Metrics({r \in rows : r.cwe = w})]
RuleOutcome(row, rule) ==
  IF row.reason # "none" THEN "unscored" ELSE Outcome(row.positive, rule \in row.rules)
ByRule(rows, cwes) ==
  [rule \in DOMAIN cwes |-> [cwe |-> cwes[rule],
     counts |-> CaseMetrics([r \in {r \in rows : r.cwe = cwes[rule]} |-> RuleOutcome(r, rule)])]]
Reasons(rows) ==
  [x \in {r.reason : r \in rows} \ {"none"} |-> Cardinality({r \in rows : r.reason = x})]

EvaluateCases(scan, cases) ==
  LET inScope == {r \in Executed(scan) : \E k \in DOMAIN cases : cases[k].cwe = scan.cwes[r]}
      Report(rows) ==
        [rows |-> rows, digest |-> rows, status |-> scan.status, gaps |-> scan.gaps, ran |-> scan.ran,
         metrics |-> Metrics(ToSet(rows)), byCwe |-> ByCwe(ToSet(rows)),
         byRule |-> ByRule(ToSet(rows), Restrict(scan.cwes, inScope)), reasons |-> Reasons(ToSet(rows)),
         complete |-> scan.status = "completed" /\ ~scan.gaps /\ Reasons(ToSet(rows)) = <<>>,
         provenance |-> scan.provenance]
  IN  Report([k \in DOMAIN cases |-> Row(scan, cases[k])])

(* ---- saved reports -------------------------------------------------------------------- *)

\* SavedCase: what one row must say to be consistent with itself.
ValidRow(row) ==
  LET said == {row.outcomes[c] : c \in Channels}
      hits == {c \in Channels : row.outcomes[c] \in {"tp", "fp"}}
  IN  /\ row.count >= Cardinality(row.rules) /\ (row.rules = {} <=> row.count = 0)
      /\ IF row.reason # "none" THEN said = {"unscored"}
         ELSE /\ said \subseteq IF row.positive THEN {"tp", "fn"} ELSE {"fp", "tn"}
              /\ "all" \in hits <=> row.rules # {}
              /\ "all" \notin hits => hits = {}

\* load_owasp_report: everything that the rows decide is computed again.
LoadReport(report) ==
  LET rows == ToSet(report.rows)
      unhealthy == report.status # "completed" \/ report.gaps
      byRule == report.byRule
      supported == {byRule[r].cwe : r \in DOMAIN byRule}
  IN  /\ \A r \in rows : ValidRow(r)
      /\ \A k \in 1..Len(report.rows) - 1 : report.rows[k].name < report.rows[k + 1].name
      /\ report.digest = report.rows /\ report.reasons = Reasons(rows)
      /\ \A r \in rows : r.reason = "analysis_incomplete" <=> unhealthy
      /\ report.complete <=> ~unhealthy /\ Reasons(rows) = <<>>
      /\ report.metrics = Metrics(rows) /\ report.byCwe = ByCwe(rows)
      /\ DOMAIN byRule \subseteq report.ran /\ supported \subseteq {r.cwe : r \in rows}
      /\ byRule = ByRule(rows, [r \in DOMAIN byRule |-> byRule[r].cwe])
      /\ \A r \in rows : /\ r.reason = "none" => r.cwe \in supported
                         /\ r.reason = "no_executed_cwe_rule" => r.cwe \notin supported
                         /\ \A rule \in r.rules : rule \in DOMAIN byRule /\ byRule[rule].cwe = r.cwe

(* ---- comparison ------------------------------------------------------------------------- *)

\* Two reports of the same cases, corpus, labels and configuration.
IdentityOf(report) ==
  [k \in DOMAIN report.rows |-> <<report.rows[k].name, report.rows[k].cwe, report.rows[k].positive>>]
Comparable(before, after) ==
  IdentityOf(before) = IdentityOf(after) /\ before.provenance.inputs = after.provenance.inputs

Right == {"tp", "tn"}
Regressed(before, after, channel) ==
  {k \in DOMAIN before.rows : /\ before.rows[k].reason = "none" /\ after.rows[k].reason = "none"
                              /\ before.rows[k].outcomes[channel] \in Right
                              /\ after.rows[k].outcomes[channel] \notin Right}
CoverageLost(before, after) ==
  {k \in DOMAIN before.rows : before.rows[k].reason = "none" /\ after.rows[k].reason # "none"}
Identical(before, after) ==
  /\ before.provenance = after.provenance /\ before.ran = after.ran
  /\ before.rows = after.rows /\ before.status = after.status /\ before.gaps = after.gaps

\* The exit code: 2 of a failed analysis, 1 of a gate, 3 of a partial one.
Compare(before, after, identical) ==
  LET regressionFree == CoverageLost(before, after) = {} /\ \A c \in Channels : Regressed(before, after, c) = {}
      passed == IF identical THEN Identical(before, after) ELSE regressionFree
  IN  CASE "failed" \in {before.status, after.status} -> 2
        [] ~passed -> 1
        [] ~before.complete \/ ~after.complete -> 3
        [] OTHER -> 0

(* ---- repetition ---------------------------------------------------------------------------- *)

\* A sample is a run in a process of its own: [end, status, identity, seconds].
\* The first one that can be read sets the identity of all, and one that
\* fails ends the measurement.
SampleValid(sample, reference) ==
  /\ sample.end = "0" /\ sample.status = "completed"
  /\ sample.identity = reference /\ sample.seconds > 0
Measure(samples, repeats) ==
  LET readable == {k \in DOMAIN samples : samples[k].end = "0" /\ samples[k].status = "completed"}
      reference == IF readable = {} THEN 0 ELSE samples[Min(readable)].identity
      failed == {k \in 1..repeats : ~SampleValid(samples[k], reference)}
      kept == IF failed = {} THEN repeats ELSE Min(failed)
  IN  [valid |-> failed = {}, samples |-> SubSeq(samples, 1, kept),
       statistics |-> IF failed = {} THEN [k \in 1..repeats |-> samples[k].seconds] ELSE <<>>]
=============================================================================
