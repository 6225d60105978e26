------------------------- MODULE ScanEngine_proofs -------------------------
(***************************************************************************)
(* The AST cache, for any files, contents, limits and number of scans: the *)
(* stored index is what its parser makes of the bytes of its digests, and  *)
(* a scan only works on what a scan without a cache could have read.  And  *)
(* the meaning of a result: a scan that is completed hides no finding.     *)
(***************************************************************************)
EXTENDS ScanEngine, PartialSums

\* The ASTs of a mapping are what parser v extracts from their digests.
Faithful(parsed, v) == \A f \in DOMAIN parsed : parsed[f] = ParsedBy(v, parsed[f].digest)

Running == pc \notin {"idle", "done"}

Held == \A f \in DOMAIN asts : f \in Files /\ asts[f].digest \in during[f]

\* Inductive: the index and the loaded cache are faithful, so is what the scan
\* has parsed so far, and while a scan runs `during` contains the present.
Reuse ==
  /\ DOMAIN during = Files
  /\ queue \subseteq Files /\ todo \subseteq Files
  /\ Faithful(index.asts, index.version)
  /\ Faithful(cache, ver)
  /\ Faithful(asts, ver)
  /\ Held
  /\ Running => \A f \in Files : disk[f] \in during[f]

THEOREM ReuseInit == Init => Reuse
BY DEF Init, Reuse, Faithful, Held, Running, None, NoIndex

\* Adding one faithful AST of a present content keeps a mapping faithful.
LEMMA AddOne ==
  ASSUME NEW a, NEW f, NEW v, NEW x, Faithful(a, v), x = ParsedBy(v, x.digest)
  PROVE  Faithful([g \in DOMAIN a \cup {f} |-> IF g = f THEN x ELSE a[g]], v)
BY DEF Faithful

LEMMA ParsedFields == \A v, c : /\ ParsedBy(v, c).digest = c
                                /\ ParsedBy(v, c).source = c
                                /\ ParsedBy(v, c).parser = v
BY DEF ParsedBy

THEOREM ReuseStep == Reuse /\ [Next]_vars => Reuse'
<1> SUFFICES ASSUME Reuse, [Next]_vars PROVE Reuse'
  OBVIOUS
<1> USE DEF Reuse
<1>1. ASSUME NEW f \in Files, NEW c \in Contents, Edit(f, c) PROVE Reuse'
  <2>1. UNCHANGED <<index, pc, cache, asts, ver, queue, todo>>
    BY <1>1 DEF Edit, parsing
  <2>2. DOMAIN during' = Files /\ \A g \in Files : during[g] \subseteq during'[g]
    BY <1>1 DEF Edit
  <2>3. Running' => \A g \in Files : disk'[g] \in during'[g]
    BY <1>1, <2>1 DEF Edit, Running, Idle
  <2> QED BY <2>1, <2>2, <2>3 DEF Faithful, Held
<1>2. CASE Upgrade
  BY <1>2 DEF Upgrade, parsing, Faithful, Held, Running
<1>3. ASSUME NEW m \in Modes, NEW diff \in SUBSET Files, NEW rules, Start(m, diff, rules) PROVE Reuse'
  <2>1. cache' = LoadIndex(m) /\ ver' = version /\ asts' = None /\ index' = index
        /\ disk' = disk /\ during' = [f \in Files |-> {disk[f]}]
    BY <1>3 DEF Start
  <2>2. queue' \subseteq Files /\ todo' \subseteq Files
    <3>1. SelectParseFiles(diff) \subseteq diff
      BY DEF SelectParseFiles
    <3>2. selected' \subseteq Files
      BY <1>3 DEF Start, SelectParseFiles, Collected, PullRequestFiles, GetChangedFiles,
                  FindRelatedFiles
    <3> QED BY <1>3, <3>2 DEF Start, Unhashed
  <2>3. Faithful(cache', ver')
    BY <2>1 DEF LoadIndex, Faithful, None
  <2> QED BY <2>1, <2>2, <2>3 DEF Faithful, Held, None
<1>4. ASSUME NEW diff, NEW failed, NothingToScan(diff, failed) PROVE Reuse'
  <2>1. index' = index /\ cache' = None /\ asts' = None /\ during' = during
        /\ queue' = {} /\ todo' = {} /\ pc' = "done"
    BY <1>4 DEF NothingToScan
  <2> QED BY <2>1 DEF Faithful, Held, None, Running
<1>5. ASSUME NEW f \in Files, HashFile(f) PROVE Reuse'
  <2>1. UNCHANGED <<index, disk, pc, cache, ver, during>> /\ Running
    BY <1>5 DEF HashFile, inputs, Running
  <2>2. queue' \subseteq Files /\ todo' \subseteq Files
    BY <1>5 DEF HashFile
  <2>3. CASE Readable(disk[f]) /\ Reusable(f)
    <3>1. asts' = [g \in DOMAIN asts \cup {f} |-> IF g = f THEN cache[f] ELSE asts[g]]
      BY <1>5, <2>3 DEF HashFile
    <3>2. f \in DOMAIN cache /\ cache[f].digest = disk[f]
      BY <2>3 DEF Reusable
    <3>3. Faithful(asts', ver')
      BY <3>1, <3>2, <2>1, AddOne DEF Faithful
    <3>4. Held'
      BY <3>1, <3>2, <2>1 DEF Held
    <3> QED BY <2>1, <2>2, <3>3, <3>4 DEF Running
  <2>4. CASE ~(Readable(disk[f]) /\ Reusable(f))
    <3>1. asts' = asts
      BY <1>5, <2>4 DEF HashFile
    <3> QED BY <2>1, <2>2, <3>1 DEF Running, Faithful, Held
  <2> QED BY <2>3, <2>4
<1>6. ASSUME NEW f \in Files, ParseFile(f) PROVE Reuse'
  <2>1. UNCHANGED <<index, disk, pc, cache, ver, during, todo>> /\ Running
    BY <1>6 DEF ParseFile, inputs, Running
  <2>2. queue' \subseteq Files
    BY <1>6 DEF ParseFile
  <2>3. CASE Readable(disk[f])
    <3>1. asts' = [g \in DOMAIN asts \cup {f} |->
                     IF g = f THEN ParsedBy(ver, disk[f]) ELSE asts[g]]
      BY <1>6, <2>3 DEF ParseFile
    <3>2. ParsedBy(ver, disk[f]) = ParsedBy(ver, ParsedBy(ver, disk[f]).digest)
      BY ParsedFields
    <3>4. Faithful([g \in DOMAIN asts \cup {f} |->
                      IF g = f THEN ParsedBy(ver, disk[f]) ELSE asts[g]], ver)
      BY <3>2, AddOne
    <3>5. Faithful(asts', ver')
      BY <3>1, <3>4, <2>1
    <3>3. Held'
      BY <3>1, <2>1, ParsedFields DEF Held
    <3> QED BY <2>1, <2>2, <3>3, <3>5 DEF Running
  <2>4. CASE ~Readable(disk[f])
    <3>1. asts' = asts
      BY <1>6, <2>4 DEF ParseFile
    <3> QED BY <2>1, <2>2, <3>1 DEF Running, Faithful, Held
  <2> QED BY <2>3, <2>4
<1>7. CASE RecordParseResults
  <2>1. UNCHANGED <<disk, cache, asts, ver, during, queue, todo>> /\ Running
    BY <1>7 DEF RecordParseResults, inputs, parsing, Running
  <2>2. index' = [version |-> ver, asts |-> asts] \/ index' = index
    BY <1>7 DEF RecordParseResults
  <2> QED BY <2>1, <2>2 DEF Faithful, Held
<1>8. ASSUME NEW bounds, NEW imports, Analyze(bounds, imports) PROVE Reuse'
  <2>1. UNCHANGED <<disk, index, cache, asts, ver, during, queue, todo>> /\ Running
    BY <1>8 DEF Analyze, inputs, parsing, Running
  <2> QED BY <2>1 DEF Faithful, Held
<1>9. CASE Fail
  <2>1. UNCHANGED <<disk, index, cache, asts, ver, during, queue, todo>> /\ Running
    BY <1>9 DEF Fail, inputs, parsing, Running
  <2> QED BY <2>1 DEF Faithful, Held
<1>10. ASSUME NEW upload, NEW truncated, Publish(upload, truncated) PROVE Reuse'
  <2>1. UNCHANGED <<disk, index, cache, asts, ver, during, queue, todo>> /\ Running
    BY <1>10 DEF Publish, inputs, parsing, Running
  <2> QED BY <2>1 DEF Faithful, Held
<1>11. ASSUME NEW answer, VerifyBatch(answer) PROVE Reuse'
  <2>1. UNCHANGED <<disk, index, cache, asts, ver, during, queue, todo>> /\ Running
    BY <1>11 DEF VerifyBatch, inputs, parsing, Running
  <2> QED BY <2>1 DEF Faithful, Held
<1>12. CASE BudgetExhausted
  <2>1. UNCHANGED <<disk, index, cache, asts, ver, during, queue, todo>> /\ Running
    BY <1>12 DEF BudgetExhausted, inputs, parsing, Running
  <2> QED BY <2>1 DEF Faithful, Held
<1>13. ASSUME NEW answered, NEW fixed, GenerateRemediations(answered, fixed) PROVE Reuse'
  <2>1. UNCHANGED <<disk, index, cache, asts, ver, during, queue, todo>> /\ Running
    BY <1>13 DEF GenerateRemediations, inputs, parsing, Running
  <2> QED BY <2>1 DEF Faithful, Held
<1>14. CASE Crash
  <2>1. index' = index /\ cache' = None /\ asts' = None /\ pc' = "idle"
        /\ queue' = {} /\ todo' = {} /\ during' = [f \in Files |-> {}]
    BY <1>14 DEF Crash
  <2> QED BY <2>1 DEF Faithful, Held, None, Running
<1>15. CASE UNCHANGED vars
  BY <1>15 DEF vars, inputs, parsing, Faithful, Held, Running
<1> QED
  BY <1>1, <1>2, <1>3, <1>4, <1>5, <1>6, <1>7, <1>8, <1>9, <1>10, <1>11, <1>12, <1>13, <1>14,
     <1>15 DEF Next

\* The stored index never associates an AST with bytes or a parser it was not
\* made from, in any interleaving of edits, upgrades, scans and crashes.
THEOREM CacheTheorem == Spec => []CacheIsFaithful
<1>1. Reuse => CacheIsFaithful
  BY DEF Reuse, Faithful, CacheIsFaithful
<1> QED BY ReuseInit, ReuseStep, <1>1, PTL DEF Spec

\* A scan with a cache works on what a scan without one could have read.
THEOREM CurrentTheorem == Spec => []AnalysisIsCurrent
<1>1. Reuse => AnalysisIsCurrent
  BY ParsedFields DEF Reuse, Faithful, Held, AnalysisIsCurrent
<1> QED BY ReuseInit, ReuseStep, <1>1, PTL DEF Spec

(* --------------------- types and the snapshot named --------------------- *)

LEMMA InitTypes == Init => TypeOK
BY EngineAssumption DEF Init, TypeOK, ReviewsOK, None, NoIndex

\* What a scan selects are files.
LEMMA SelectedAreFiles ==
  ASSUME NEW m, NEW diff \in SUBSET Files, NEW rules, Start(m, diff, rules)
  PROVE  selected' \subseteq Files
BY DEF Start, SelectParseFiles, Collected, PullRequestFiles, GetChangedFiles, FindRelatedFiles

\* A snapshot is recorded once, from the ASTs that no later step changes: the
\* steps that add an AST run before any snapshot or review is there.
Recorded ==
  /\ pc \in {"parse", "analyze"} => snapshot = None /\ reviews = None
  /\ snapshot # None => snapshot = [f \in DOMAIN asts |-> asts[f].source]

LEMMA ReviewTypes ==
  ASSUME NEW answer \in Answers, NEW n, NEW k
  PROVE  ReviewIn(answer, n, k) \in [verdict : Verdicts, fix : BOOLEAN]
<1>1. NoVerdict \in [verdict : Verdicts, fix : BOOLEAN]
  BY DEF NoVerdict, Verdicts
<1>2. \A i \in DOMAIN answer :
        ReviewFromResult(answer[i]) \in [verdict : Verdicts, fix : BOOLEAN]
  BY EngineAssumption, <1>1 DEF ReviewFromResult, Verdicts
<1>3. \A of : of # {} => (CHOOSE i \in of : TRUE) \in of
  OBVIOUS
<1> QED BY <1>1, <1>2, <1>3 DEF ReviewIn

\* Only reported findings wait for a review or have one, and it is well formed.
LEMMA ReviewsStep == TypeOK /\ Recorded /\ [Next]_vars => ReviewsOK'
<1> SUFFICES ASSUME ReviewsOK, Recorded, [Next]_vars PROVE ReviewsOK'
  BY DEF TypeOK
<1> USE DEF ReviewsOK
<1>1. ASSUME NEW f \in Files, NEW c \in Contents, Edit(f, c) PROVE ReviewsOK'
  BY <1>1 DEF Edit, report, advice
<1>2. CASE Upgrade
  BY <1>2 DEF Upgrade, report, advice
<1>3. ASSUME NEW m, NEW diff, NEW rules, Start(m, diff, rules) PROVE ReviewsOK'
  BY <1>3 DEF Start, None
<1>4. ASSUME NEW diff, NEW failed, NothingToScan(diff, failed) PROVE ReviewsOK'
  BY <1>4 DEF NothingToScan, None
<1>5. ASSUME NEW f, HashFile(f) \/ ParseFile(f) PROVE ReviewsOK'
  BY <1>5 DEF HashFile, ParseFile, report, advice
<1>6. CASE RecordParseResults
  BY <1>6 DEF RecordParseResults, advice
<1>7. ASSUME NEW bounds, NEW imports, Analyze(bounds, imports) PROVE ReviewsOK'
  <2>1. reviews' = reviews /\ reviews = None
    BY <1>7 DEF Analyze, Recorded
  <2>2. waiting' \subseteq findings'
    BY <1>7 DEF Analyze, NeedsVerification
  <2> QED BY <2>1, <2>2 DEF None
<1>8. CASE Fail
  BY <1>8 DEF Fail, advice
<1>9. ASSUME NEW answer \in Answers, VerifyBatch(answer) PROVE ReviewsOK'
  <2>1. NextBatch \subseteq waiting
    BY DEF NextBatch, NextGroup
  <2>2. findings' = findings /\ waiting' = waiting \ NextBatch
    BY <1>9 DEF VerifyBatch, report
  <2>3. reviews' = [x \in DOMAIN reviews \cup NextBatch |->
                      IF x \in NextBatch
                      THEN ReviewIn(answer, Cardinality(NextBatch), PlaceIn(NextBatch, x))
                      ELSE reviews[x]]
    BY <1>9 DEF VerifyBatch
  <2> QED BY <2>1, <2>2, <2>3, ReviewTypes
<1>10. CASE BudgetExhausted
  BY <1>10 DEF BudgetExhausted, report
<1>11. ASSUME NEW answered, NEW fixed, GenerateRemediations(answered, fixed) PROVE ReviewsOK'
  <2>1. /\ findings' = findings /\ waiting' = waiting /\ answered \subseteq findings
        /\ fixed \subseteq answered
    BY <1>11 DEF GenerateRemediations, report, NeedsFix
  <2>2. reviews' = [x \in DOMAIN reviews \cup answered |->
                      IF x \in fixed THEN [Reviewed(x) EXCEPT !.fix = TRUE] ELSE Reviewed(x)]
    BY <1>11 DEF GenerateRemediations
  <2>3. \A x : Reviewed(x) \in [verdict : Verdicts, fix : BOOLEAN]
    BY DEF Reviewed, NoVerdict, Verdicts
  <2> QED BY <2>1, <2>2, <2>3
<1>12. ASSUME NEW upload, NEW truncated, Publish(upload, truncated) PROVE ReviewsOK'
  BY <1>12 DEF Publish, advice
<1>13. CASE Crash
  BY <1>13 DEF Crash, None
<1>14. CASE UNCHANGED vars
  BY <1>14 DEF vars, report, advice
<1> QED
  BY <1>1, <1>2, <1>3, <1>4, <1>5, <1>6, <1>7, <1>8, <1>9, <1>10, <1>11, <1>12, <1>13, <1>14
     DEF Next

LEMMA TypesStep == TypeOK /\ Recorded /\ [Next]_vars => TypeOK'
<1> SUFFICES ASSUME TypeOK, Recorded, [Next]_vars PROVE TypeOK'
  OBVIOUS
<1>r. ReviewsOK'
  BY ReviewsStep
<1> USE <1>r, EngineAssumption DEF TypeOK
<1>1. ASSUME NEW f \in Files, NEW c \in Contents, Edit(f, c) PROVE TypeOK'
  BY <1>1 DEF Edit, parsing
<1>2. CASE Upgrade
  BY <1>2 DEF Upgrade, parsing
<1>3. ASSUME NEW m \in Modes, NEW diff \in SUBSET Files, NEW rules, Start(m, diff, rules)
      PROVE  TypeOK'
  <2>1. UNCHANGED <<disk, version, edits, index>> /\ ver' = version /\ asts' = None
        /\ pc' = "parse" /\ scans < MaxScans /\ scans' = scans + 1
    BY <1>3 DEF Start
  <2>2. todo' \subseteq selected' /\ queue' \subseteq selected'
    BY <1>3 DEF Start, Unhashed
  <2>3. selected' \subseteq Files
    BY <1>3, SelectedAreFiles
  <2> QED BY <2>1, <2>2, <2>3 DEF None
<1>4. ASSUME NEW diff, NEW failed, NothingToScan(diff, failed) PROVE TypeOK'
  BY <1>4 DEF NothingToScan, None
<1>5. ASSUME NEW f \in Files, HashFile(f) PROVE TypeOK'
  <2>1. DOMAIN asts' \subseteq DOMAIN asts \cup {f}
    BY <1>5 DEF HashFile
  <2>2. UNCHANGED <<inputs, index, pc, selected, ver>>
        /\ todo' \subseteq todo /\ queue' \subseteq queue \cup {f} /\ f \in selected
    BY <1>5 DEF HashFile
  <2> QED BY <2>1, <2>2 DEF inputs
<1>6. ASSUME NEW f \in Files, ParseFile(f) PROVE TypeOK'
  <2>1. DOMAIN asts' \subseteq DOMAIN asts \cup {f}
    BY <1>6 DEF ParseFile
  <2>2. UNCHANGED <<inputs, index, pc, selected, ver, todo>>
        /\ queue' \subseteq queue /\ f \in selected
    BY <1>6 DEF ParseFile
  <2> QED BY <2>1, <2>2 DEF inputs
<1>7. CASE RecordParseResults
  <2>1. index' = [version |-> ver, asts |-> asts] \/ index' = index
    BY <1>7 DEF RecordParseResults
  <2>2. index'.asts = asts \/ index' = index
    BY <2>1
  <2>3. DOMAIN index'.asts \subseteq Files
    <3>1. DOMAIN asts \subseteq Files
      OBVIOUS
    <3> QED BY <2>2, <3>1
  <2> QED BY <1>7, <2>3 DEF RecordParseResults, inputs, parsing
<1>8. ASSUME NEW bounds, NEW imports, Analyze(bounds, imports) PROVE TypeOK'
  BY <1>8 DEF Analyze, inputs, parsing
<1>9. CASE Fail
  BY <1>9 DEF Fail, inputs, parsing
<1>10. ASSUME NEW upload, NEW truncated, Publish(upload, truncated) PROVE TypeOK'
  BY <1>10 DEF Publish, inputs, parsing
<1>11. ASSUME NEW answer, VerifyBatch(answer) PROVE TypeOK'
  BY <1>11 DEF VerifyBatch, inputs, parsing
<1>12. CASE BudgetExhausted
  BY <1>12 DEF BudgetExhausted, inputs, parsing
<1>13. ASSUME NEW answered, NEW fixed, GenerateRemediations(answered, fixed) PROVE TypeOK'
  BY <1>13 DEF GenerateRemediations, inputs, parsing
<1>14. CASE Crash
  BY <1>14 DEF Crash, inputs, None
<1>15. CASE UNCHANGED vars
  BY <1>15 DEF vars, inputs, parsing
<1> QED
  BY <1>1, <1>2, <1>3, <1>4, <1>5, <1>6, <1>7, <1>8, <1>9, <1>10, <1>11, <1>12, <1>13, <1>14,
     <1>15 DEF Next

LEMMA RecordedStep == Reuse /\ Recorded /\ [Next]_vars => Recorded'
<1> SUFFICES ASSUME Reuse, Recorded, [Next]_vars PROVE Recorded'
  OBVIOUS
<1> USE DEF Recorded
<1>1. ASSUME NEW f \in Files, NEW c \in Contents, Edit(f, c) PROVE Recorded'
  BY <1>1 DEF Edit, parsing, report, advice
<1>2. CASE Upgrade
  BY <1>2 DEF Upgrade, parsing, report, advice
<1>3. ASSUME NEW m, NEW diff, NEW rules, Start(m, diff, rules) PROVE Recorded'
  BY <1>3 DEF Start
<1>4. ASSUME NEW diff, NEW failed, NothingToScan(diff, failed) PROVE Recorded'
  BY <1>4 DEF NothingToScan
<1>5. ASSUME NEW f, HashFile(f) \/ ParseFile(f) PROVE Recorded'
  BY <1>5 DEF HashFile, ParseFile, report, advice
<1>6. CASE RecordParseResults
  BY <1>6 DEF RecordParseResults, parsing, advice
<1>7. ASSUME NEW bounds, NEW imports, Analyze(bounds, imports) PROVE Recorded'
  <2>1. asts' = asts /\ pc' \in {"review", "publish"} /\ snapshot' = WorkspaceSnapshot(asts)
    BY <1>7 DEF Analyze, parsing
  <2>2. \A f \in DOMAIN asts : asts[f].digest = asts[f].source
    BY ParsedFields DEF Reuse, Faithful
  <2>3. WorkspaceSnapshot(asts) = [f \in DOMAIN asts |-> asts[f].source]
    BY <2>2 DEF WorkspaceSnapshot
  <2> QED BY <2>1, <2>3
<1>8. CASE Fail
  BY <1>8 DEF Fail, parsing
<1>9. ASSUME NEW upload, NEW truncated, Publish(upload, truncated) PROVE Recorded'
  BY <1>9 DEF Publish, parsing
<1>10. CASE Crash
  BY <1>10 DEF Crash
<1>11. CASE UNCHANGED vars
  BY <1>11 DEF vars, parsing, report, advice
<1>12. ASSUME NEW answer, VerifyBatch(answer) PROVE Recorded'
  BY <1>12 DEF VerifyBatch, parsing, report
<1>13. CASE BudgetExhausted
  BY <1>13 DEF BudgetExhausted, parsing, report
<1>14. ASSUME NEW answered, NEW fixed, GenerateRemediations(answered, fixed) PROVE Recorded'
  BY <1>14 DEF GenerateRemediations, parsing, report
<1> QED
  BY <1>1, <1>2, <1>3, <1>4, <1>5, <1>6, <1>7, <1>8, <1>9, <1>10, <1>11, <1>12, <1>13, <1>14
     DEF Next

\* The snapshot a result names is what its findings were computed from, even
\* when files are edited while the scan runs.
THEOREM SnapshotTheorem == Spec => []SnapshotInvariant
<1>1. Init => Recorded
  BY DEF Init, Recorded
<1>2. TypeOK /\ Recorded => SnapshotInvariant
  BY DEF SnapshotInvariant, Recorded, SnapshotNamesAnalysis
<1> QED BY ReuseInit, ReuseStep, InitTypes, TypesStep, <1>1, RecordedStep, <1>2, PTL DEF Spec

(* ------------------------- what completed means ------------------------- *)

\* Every hit is one of a content.
Hits == UNION {c.hits : c \in Contents}

LEMMA FullIsANumber == FullConfidence \in Nat
BY DEF FullConfidence

LEMMA HitFacts ==
  \A h \in Hits : h.order \in Nat /\ h.confidence \in 0..FullConfidence /\ h.blocking \in BOOLEAN
BY HitAssumption DEF Hits

\* Of a set of numbers below a bound, one is the largest.
LEMMA GreatestNumber ==
  ASSUME NEW bound \in Nat, NEW S \in SUBSET (0..bound), S # {}
  PROVE  \E m \in S : \A n \in S : n <= m
<1> DEFINE T == {bound - n : n \in S}
<1>1. T \in SUBSET Nat /\ T # {}
  <2>1. \A n \in S : bound - n \in Nat
    OBVIOUS
  <2> QED BY <2>1
<1>2. PICK t \in T : \A u \in T : t <= u
  BY <1>1, LeastNumber
<1>3. PICK m \in S : t = bound - m
  OBVIOUS
<1>4. ASSUME NEW n \in S PROVE n <= m
  <2>1. bound - m <= bound - n
    BY <1>2, <1>3
  <2> QED BY <2>1
<1> QED BY <1>4

\* Findings of the rules before any later phase lowered a confidence.
Plain(S) == \A x \in S : x.hit \in Hits /\ x.confidence = x.hit.confidence

\* Findings whose rank none of S exceeds.
LEMMA BeforeByRank ==
  ASSUME NEW x, NEW y, x.confidence \in Nat, y.confidence \in Nat,
         x.hit.order \in Nat, y.hit.order \in Nat, Before(Rank(x), Rank(y))
  PROVE  \/ ~x.hit.blocking /\ y.hit.blocking
         \/ /\ x.hit.blocking <=> y.hit.blocking
            /\ \/ x.confidence < y.confidence
               \/ x.confidence = y.confidence /\ y.hit.order < x.hit.order
<1>1. PICK i \in DOMAIN Rank(x) :
        Rank(x)[i] < Rank(y)[i] /\ \A j \in 1..(i - 1) : Rank(x)[j] = Rank(y)[j]
  BY DEF Before
<1>2. i \in 1..3
  BY DEF Rank
<1>3. CASE i = 1
  BY <1>1, <1>3 DEF Rank
<1>4. CASE i = 2
  <2>1. Rank(x)[1] = Rank(y)[1]
    BY <1>1, <1>4
  <2> QED BY <1>1, <1>4, <2>1 DEF Rank
<1>5. CASE i = 3
  <2>1. Rank(x)[1] = Rank(y)[1] /\ Rank(x)[2] = Rank(y)[2]
    BY <1>1, <1>5
  <2> QED BY <1>1, <1>5, <2>1 DEF Rank
<1> QED BY <1>2, <1>3, <1>4, <1>5

\* Deduplication keeps one finding of every occurrence, and a blocking one if
\* there is any.
LEMMA OneIsKept ==
  ASSUME NEW S, Plain(S), NEW x \in S
  PROVE  \E y \in Deduplicated(S) : SameOccurrence(x, y) /\ (x.hit.blocking => y.hit.blocking)
<1> DEFINE O == {y \in S : SameOccurrence(x, y)}
           B == {y \in O : y.hit.blocking}
           P == IF B = {} THEN O ELSE B
           C == {y.confidence : y \in P}
<1>1. \A y \in S : /\ y.confidence \in 0..FullConfidence /\ y.confidence \in Nat
                    /\ y.hit.order \in Nat /\ y.hit.blocking \in BOOLEAN
  <2> SUFFICES ASSUME NEW y \in S
               PROVE  /\ y.confidence \in 0..FullConfidence /\ y.confidence \in Nat
                      /\ y.hit.order \in Nat /\ y.hit.blocking \in BOOLEAN
    OBVIOUS
  <2>1. y.hit \in Hits /\ y.confidence = y.hit.confidence
    BY DEF Plain
  <2>2. y.hit.order \in Nat /\ y.hit.confidence \in 0..FullConfidence /\ y.hit.blocking \in BOOLEAN
    BY <2>1, HitFacts
  <2> QED BY <2>1, <2>2
<1>2. x \in O /\ P # {} /\ P \subseteq O
  BY DEF SameOccurrence
<1>3. C \in SUBSET (0..FullConfidence) /\ C # {}
  BY <1>1, <1>2
<1>4. \E most \in C : \A n \in C : n <= most
  <2> HIDE DEF C
  <2> QED BY <1>3, GreatestNumber, FullIsANumber
<1> PICK most \in C : \A n \in C : n <= most
  BY <1>4
<1> DEFINE Q == {y \in P : y.confidence = most}
           N == {y.hit.order : y \in Q}
<1>5. N \in SUBSET Nat /\ N # {}
  BY <1>1, <1>2, <1>4
<1>6. PICK least \in N : \A n \in N : least <= n
  BY <1>5, LeastNumber
<1>7. PICK y \in Q : y.hit.order = least
  BY <1>6
<1>8. y \in P /\ y \in S /\ SameOccurrence(x, y)
  BY <1>2, <1>7
<1>9. x.hit.blocking => y.hit.blocking
  BY <1>2, <1>7
<1>10. ASSUME NEW z \in S, SameOccurrence(y, z), Before(Rank(y), Rank(z)) PROVE FALSE
  <2>1. z \in O
    BY <1>8, <1>10 DEF SameOccurrence
  <2>2. \/ ~y.hit.blocking /\ z.hit.blocking
        \/ /\ y.hit.blocking <=> z.hit.blocking
           /\ \/ y.confidence < z.confidence
              \/ y.confidence = z.confidence /\ z.hit.order < y.hit.order
    BY <1>1, <1>8, <1>10, BeforeByRank
  <2>3. z \in P
    BY <1>7, <2>1, <2>2
  <2>4. ~(y.confidence < z.confidence)
    <3>1. z.confidence <= most
      BY <1>4, <2>3
    <3> QED BY <1>1, <1>7, <1>8, <3>1
  <2>5. y.confidence = z.confidence /\ z.hit.order < y.hit.order
    BY <1>7, <2>1, <2>2, <2>4
  <2>6. z.hit.order \in N
    BY <1>7, <2>3, <2>5
  <2>7. y.hit.order <= z.hit.order
    BY <1>6, <1>7, <2>6
  <2> QED BY <1>1, <1>8, <2>5, <2>7
<1>11. y \in Deduplicated(S)
  BY <1>8, <1>10 DEF Deduplicated
<1> QED BY <1>8, <1>9, <1>11

\* What a result says that hides nothing: every selected file was parsed
\* whole, no step failed, and each finding that passes is represented.
WholeFiles ==
  /\ selected = DOMAIN asts /\ asts # None
  /\ \A f \in selected : ~asts[f].source.broken /\ ~asts[f].source.queryLimit

AllRepresented ==
  \A r \in Rules : \A x \in Expected(r) :
    \E y \in findings : /\ SameOccurrence(x, y) /\ (x.hit.blocking => y.hit.blocking)
                       /\ y.hit.severity = x.hit.severity

Honest == WholeFiles /\ AllRepresented /\ unhealthy = {} /\ gaps = {}

Completed == status = "completed" /\ mode # "workspace"

\* Inductive, with Reuse and TypeOK: only Analyze completes a result, and a
\* gap found later makes it partial again.
Health ==
  /\ \A f \in Files : during[f] \subseteq Contents
  /\ pc = "analyze" => ParseGaps(asts) \subseteq gaps
  /\ pc \in {"review", "publish", "done"} /\ Completed => Honest
  /\ pc = "done" /\ Completed /\ mode # "snapshot" /\ exit = 0 => ~HasBlockingHighFindings(findings)

LEMMA NoParseGaps ==
  ASSUME ParseGaps(asts) = {}, DOMAIN asts \subseteq selected
  PROVE  /\ selected = DOMAIN asts
         /\ \A f \in selected : ~asts[f].source.broken /\ ~asts[f].source.queryLimit
<1>1. selected \subseteq DOMAIN asts
  BY DEF ParseGaps
<1>2. ~\E f \in DOMAIN asts : asts[f].source.broken
  BY DEF ParseGaps
<1>3. ~\E f \in DOMAIN asts : asts[f].source.queryLimit
  BY DEF ParseGaps
<1> QED BY <1>1, <1>2, <1>3

\* What the rules raise are the hits of the contents that were parsed.
LEMMA RawFacts ==
  ASSUME Reuse, DOMAIN asts \subseteq Files, \A f \in Files : during[f] \subseteq Contents,
         NEW r, NEW x \in RawFindings(asts, r)
  PROVE  /\ x.hit \in Hits /\ x.confidence = x.hit.confidence
         /\ x.hit.rule = r /\ x.file \in DOMAIN asts
         /\ asts[x.file].source \in Contents /\ x.hit \in asts[x.file].source.hits
<1>1. PICK f \in DOMAIN asts : \E h \in asts[f].source.hits :
        h.rule = r /\ x = [file |-> f, confidence |-> h.confidence, hit |-> h]
  BY DEF RawFindings
<1>2. PICK h \in asts[f].source.hits :
        h.rule = r /\ x = [file |-> f, confidence |-> h.confidence, hit |-> h]
  BY <1>1
<1>3. asts[f].source = asts[f].digest
  BY ParsedFields DEF Reuse, Faithful
<1>4. asts[f].source \in Contents
  BY <1>3 DEF Reuse, Held
<1> QED BY <1>2, <1>4 DEF Hits

LEMMA OneSeverity ==
  ASSUME Reuse, DOMAIN asts \subseteq Files, \A f \in Files : during[f] \subseteq Contents,
         NEW r, NEW x \in RawFindings(asts, r), NEW q, NEW y \in RawFindings(asts, q),
         SameOccurrence(x, y)
  PROVE  y.hit.severity = x.hit.severity
<1>1. /\ asts[x.file].source \in Contents
      /\ x.hit \in asts[x.file].source.hits /\ y.hit \in asts[x.file].source.hits
      /\ y.hit.rule = x.hit.rule
  BY RawFacts DEF SameOccurrence
<1> QED BY <1>1, HitAssumption

\* Without a gap, the pipeline represents everything the rules raised.
LEMMA PipelineHidesNothing ==
  ASSUME Reuse, DOMAIN asts \subseteq Files, \A f \in Files : during[f] \subseteq Contents,
         RuleGaps(asts) = {}, FilterGaps(Evaluated(asts)) = {},
         NEW r \in Rules, NEW x \in Expected(r)
  PROVE  \E y \in Pipeline : /\ SameOccurrence(x, y) /\ (x.hit.blocking => y.hit.blocking)
                             /\ y.hit.severity = x.hit.severity
<1> DEFINE S == {y \in Evaluated(asts) : Passes(y)}
<1>1. \A q \in Rules : CapPerRule(asts, q) = RawFindings(asts, q)
  BY DEF RuleGaps
<1>2. FilterFindings(Evaluated(asts)) = Deduplicated(S)
  BY DEF FilterGaps
<1>3. \A y \in S : \E q \in Rules : y \in RawFindings(asts, q)
  BY <1>1 DEF Evaluated
<1>4. Plain(S)
  BY <1>3, RawFacts DEF Plain
<1>5. x \in RawFindings(asts, r) /\ x \in S
  BY <1>1 DEF Expected, Evaluated
<1> HIDE DEF S
<1>6. PICK y \in Deduplicated(S) : SameOccurrence(x, y) /\ (x.hit.blocking => y.hit.blocking)
  BY <1>4, <1>5, OneIsKept
<1>7. y \in S
  BY DEF Deduplicated
<1>8. y.hit.severity = x.hit.severity
  BY <1>3, <1>5, <1>6, <1>7, OneSeverity
<1>9. Enrich(y) \in Pipeline
  BY <1>2 DEF Pipeline
<1>10. Enrich(y).hit = y.hit /\ Enrich(y).file = y.file
  <2>1. PICK q : y \in RawFindings(asts, q)
    BY <1>3, <1>7
  <2>2. PICK f, h : y = [file |-> f, confidence |-> h.confidence, hit |-> h]
    BY <2>1 DEF RawFindings
  <2> QED BY <2>2 DEF Enrich
<1> QED BY <1>6, <1>8, <1>9, <1>10 DEF SameOccurrence

LEMMA HealthInit == Init => Health
BY DEF Init, Health, Completed

LEMMA HealthStep == TypeOK /\ Reuse /\ Health /\ [Next]_vars => Health'
<1> SUFFICES ASSUME TypeOK, Reuse, Health, [Next]_vars PROVE Health'
  OBVIOUS
<1>f. disk \in [Files -> Contents] /\ DOMAIN asts \subseteq selected /\ selected \subseteq Files
      /\ DOMAIN asts \subseteq Files
  BY DEF TypeOK
<1>h. \A f \in Files : during[f] \subseteq Contents
  BY DEF Health
<1>1. ASSUME NEW f \in Files, NEW c \in Contents, Edit(f, c) PROVE Health'
  <2>1. UNCHANGED <<pc, parsing, report>>
    BY <1>1 DEF Edit
  <2>2. \A g \in Files : during'[g] \subseteq Contents
    BY <1>1, <1>h DEF Edit, Reuse
  <2> QED BY <2>1, <2>2 DEF Health, Honest, WholeFiles, AllRepresented, Completed, Expected,
                            ParseGaps, parsing, report
<1>2. CASE Upgrade
  BY <1>2 DEF Upgrade, Health, Honest, WholeFiles, AllRepresented, Completed, Expected,
              ParseGaps, parsing, report
<1>3. ASSUME NEW m \in Modes, NEW diff \in SUBSET Files, NEW rules, Start(m, diff, rules) PROVE Health'
  BY <1>3, <1>f DEF Start, Health
<1>4. ASSUME NEW diff, NEW failed, NothingToScan(diff, failed) PROVE Health'
  BY <1>4, <1>h DEF NothingToScan, Health, Completed
<1>5. ASSUME NEW f \in Files, HashFile(f) PROVE Health'
  BY <1>5, <1>h DEF HashFile, Health
<1>6. ASSUME NEW f \in Files, ParseFile(f) PROVE Health'
  BY <1>6, <1>h DEF ParseFile, Health
<1>7. CASE RecordParseResults
  <2>1. /\ UNCHANGED <<during, asts, selected>> /\ pc' = "analyze"
        /\ ParseGaps(asts) \subseteq gaps'
    BY <1>7 DEF RecordParseResults, parsing
  <2>2. ParseGaps(asts)' = ParseGaps(asts)
    BY <2>1 DEF ParseGaps
  <2> QED BY <1>h, <2>1, <2>2 DEF Health
<1>8. ASSUME NEW bounds, NEW imports, Analyze(bounds, imports) PROVE Health'
  <2>1. /\ UNCHANGED <<during, asts, selected, mode>> /\ pc = "analyze" /\ pc' \in {"review", "publish"}
    BY <1>8 DEF Analyze, inputs, parsing
  <2>2. ASSUME Completed' PROVE Honest'
    <3>1. /\ gaps' = {} /\ mode # "workspace"
      BY <1>8, <2>1, <2>2 DEF Analyze, Completed
    <3>2. /\ gaps = {} /\ asts # None /\ PipelineGaps(bounds) = {} /\ ImportGaps(imports) = {}
      BY <1>8, <3>1 DEF Analyze, OwnGaps
    <3>3. /\ RuleGaps(asts) = {} /\ FilterGaps(Evaluated(asts)) = {} /\ bounds = {}
      BY <3>2 DEF PipelineGaps
    <3>4. unhealthy' = {}
      BY <1>8, <3>1, <3>3 DEF Analyze
    <3>5. findings' = Pipeline
      BY <1>8, <3>1, <3>2 DEF Analyze, OwnFindings
    <3>6. WholeFiles'
      <4>1. ParseGaps(asts) = {}
        BY <2>1, <3>2 DEF Health
      <4> QED BY <1>f, <2>1, <3>2, <4>1, NoParseGaps DEF WholeFiles
    <3>7. AllRepresented'
      <4>1. \A r \in Rules : Expected(r)' = Expected(r)
        BY <2>1 DEF Expected
      <4>2. \A r \in Rules : \A x \in Expected(r) :
              \E y \in Pipeline : /\ SameOccurrence(x, y) /\ (x.hit.blocking => y.hit.blocking)
                                  /\ y.hit.severity = x.hit.severity
        BY <1>f, <1>h, <3>3, PipelineHidesNothing
      <4> QED BY <3>5, <4>1, <4>2 DEF AllRepresented
    <3> QED BY <3>1, <3>4, <3>6, <3>7 DEF Honest
  <2> QED BY <1>h, <2>1, <2>2 DEF Health
<1>9. CASE Fail
  BY <1>9, <1>h DEF Fail, Health, Completed
<1>10. ASSUME NEW upload, NEW truncated \in BOOLEAN, Publish(upload, truncated) PROVE Health'
  <2>1. /\ UNCHANGED <<during, asts, selected, mode, findings>>
        /\ pc = "publish" /\ pc' = "done"
        /\ gaps' = gaps \cup SnapshotGaps(truncated)
        /\ status' = WithGaps(status, SnapshotGaps(truncated))
    BY <1>10 DEF Publish, parsing
  <2>2. ASSUME Completed' PROVE Honest' /\ (mode # "snapshot" /\ exit' = 0 => ~HasBlockingHighFindings(findings))
    <3>1. SnapshotGaps(truncated) = {} /\ status = "completed" /\ mode # "workspace"
      BY <2>1, <2>2 DEF WithGaps, Completed
    <3>2. Honest
      BY <2>1, <3>1 DEF Health, Completed
    <3>3. ~truncated
      BY <1>10, <3>1 DEF SnapshotGaps, Publish
    <3>4. UNCHANGED <<gaps, unhealthy>>
      BY <1>10, <2>1, <3>1, <3>3 DEF Publish
    <3>5. Honest'
      BY <2>1, <3>2, <3>4 DEF Honest, WholeFiles, AllRepresented, Expected
    <3>6. mode # "snapshot" /\ exit' = 0 => ~HasBlockingHighFindings(findings)
      <4>1. status' = "completed" /\ gaps' = {}
        BY <2>2, <3>2, <3>4 DEF Completed, Honest
      <4> QED BY <1>10, <4>1 DEF Publish, ScanExitCode
    <3> QED BY <3>5, <3>6
  <2> QED BY <1>h, <2>1, <2>2 DEF Health, HasBlockingHighFindings
<1>11. ASSUME NEW answer, VerifyBatch(answer) PROVE Health'
  <2>1. UNCHANGED <<pc, parsing, report, during>> /\ pc = "review"
    BY <1>11 DEF VerifyBatch
  <2> QED BY <1>h, <2>1 DEF Health, Honest, WholeFiles, AllRepresented, Completed, Expected,
                            parsing, report
<1>12. CASE BudgetExhausted
  <2>1. UNCHANGED <<pc, parsing, report, during>> /\ pc = "review"
    BY <1>12 DEF BudgetExhausted
  <2> QED BY <1>h, <2>1 DEF Health, Honest, WholeFiles, AllRepresented, Completed, Expected,
                            parsing, report
<1>13. ASSUME NEW answered, NEW fixed, GenerateRemediations(answered, fixed) PROVE Health'
  <2>1. UNCHANGED <<parsing, report, during>> /\ pc = "review" /\ pc' = "publish"
    BY <1>13 DEF GenerateRemediations
  <2> QED BY <1>h, <2>1 DEF Health, Honest, WholeFiles, AllRepresented, Completed, Expected,
                            parsing, report
<1>14. CASE Crash
  BY <1>14 DEF Crash, Health, Completed
<1>15. CASE UNCHANGED vars
  BY <1>15 DEF vars, Health, Honest, WholeFiles, AllRepresented, Completed, Expected,
               ParseGaps, parsing, report
<1> QED
  BY <1>1, <1>2, <1>3, <1>4, <1>5, <1>6, <1>7, <1>8, <1>9, <1>10, <1>11, <1>12, <1>13, <1>14,
     <1>15 DEF Next

\* A result that calls itself completed saw every selected file whole, reports
\* or represents each finding above the thresholds, and exit code 0 of a scan
\* command means that none of them blocks CI, whatever the limits, duplicates and defences.
THEOREM CompletedTheorem == Spec => []CompletedHidesNothing
<1>1. Health => CompletedHidesNothing
  <2> SUFFICES ASSUME Health, pc = "done", status = "completed", mode # "workspace"
               PROVE  /\ selected = DOMAIN asts /\ asts # None /\ unhealthy = {}
                      /\ \A f \in selected : ~asts[f].source.broken /\ ~asts[f].source.queryLimit
                      /\ \A r \in Rules : \A x \in Expected(r) :
                           \E y \in findings : /\ SameOccurrence(x, y)
                                              /\ (x.hit.blocking => y.hit.blocking)
                      /\ mode # "snapshot" /\ exit = 0 => \A r \in Rules : ~HasBlockingHighFindings(Expected(r))
    BY DEF CompletedHidesNothing
  <2>1. WholeFiles /\ AllRepresented /\ unhealthy = {}
    BY DEF Health, Completed, Honest
  <2>2. mode # "snapshot" /\ exit = 0 => ~HasBlockingHighFindings(findings)
    BY DEF Health, Completed
  <2>3. mode # "snapshot" /\ exit = 0 => \A r \in Rules : ~HasBlockingHighFindings(Expected(r))
    BY <2>1, <2>2 DEF AllRepresented, HasBlockingHighFindings
  <2> QED BY <2>1, <2>3 DEF WholeFiles, AllRepresented
<1>2. Init => Recorded
  BY DEF Init, Recorded
<1> QED
  BY ReuseInit, ReuseStep, InitTypes, TypesStep, RecordedStep, HealthInit, HealthStep, <1>1, <1>2,
     PTL DEF Spec
=============================================================================
