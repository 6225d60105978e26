------------------------ MODULE SourceReview_proofs ------------------------
(***************************************************************************)
(* Reviews of a model over source evidence, for any files, limits,         *)
(* requests and answers: budgets hold, what is cited was issued from the   *)
(* version the scan analysed, a completed stage or a decided finding is    *)
(* covered by what it cites, and a search shows every match.               *)
(***************************************************************************)
EXTENDS SourceReview, PartialSums

Cite == [file : Nat, digest : Nat, first : Nat, last : Nat]
Result == [ok : BOOLEAN, truncated : BOOLEAN, cites : SUBSET Cite, size : Nat]
ShownResult == [request : Requests, ok : BOOLEAN, truncated : BOOLEAN, cites : SUBSET Cite]
Lines == Seq({"plain", "match", "long"})
StageStatus == {"completed", "partial", "waiting_approval"}

\* The entry of a file as the scan parsed it.
AsParsed(f) == [file |-> f, digest |-> parsed[f], lines |-> Text[f][parsed[f]]]

\* The catalog: files of the parsed scan, as it parsed them, within the limits.
CatalogOK ==
  /\ parsed \in Scans /\ scan \in Scans /\ todo \subseteq DOMAIN parsed
  /\ IsFiniteSet(entries) /\ Cardinality(entries) <= MaxSourceFiles
  /\ \A e \in entries : /\ e.file \in DOMAIN parsed /\ e = AsParsed(e.file)
                        /\ FileSize(e) <= MaxFileSize

DiskOK == disk \in [Files -> Nat] /\ \A f \in Files : disk[f] # 0 => disk[f] \in DOMAIN Text[f]

\* What a review sees is bound to the scan under review.
IsBound ==
  /\ loop = "finding" => parsed = scan
  /\ pc # "capture" /\ loop = "stages" /\ backend \in {"single", "turns"} =>
       \A e \in entries : e.file \in DOMAIN scan /\ e.digest = scan[e.file]

SessionTypes ==
  /\ round \in Nat \ {0} /\ modelCalls \in Nat /\ toolCalls \in Nat
  /\ evidence \in Nat /\ shown \in Nat
  /\ results \in Seq(ShownResult) /\ pending \in Seq(Requests)
  /\ issued \subseteq Cite /\ cited \subseteq issued
  /\ \A q \in DOMAIN cache : q \in Requests /\ cache[q] \in Result

\* Where a review of either kind can be.
Phases ==
  \/ loop = "stages" /\ backend \in {"none", "narrative", "single", "turns"}
       /\ pc \in {"capture", "stage", "narrate", "ask", "tools", "closed", "done"}
       /\ (pc \in {"ask", "tools"} => backend = "turns")
       /\ (pc = "narrate" => backend = "narrative")
  \/ loop = "finding" /\ backend = "turns"
       /\ pc \in {"capture", "ask", "tools", "last", "decide", "done"}

Types == CatalogOK /\ DiskOK /\ SessionTypes /\ Phases

\* The calls made so far, by phase.
CallsCounted ==
  /\ round <= MaxRounds
  /\ pc \in {"capture", "stage", "narrate"} => modelCalls = 0
  /\ pc = "ask" => modelCalls < round
  /\ pc \in {"tools", "last", "closed"} => modelCalls <= round
  /\ pc \in {"decide", "done"} => modelCalls <= round + 1
  /\ pc = "done" /\ loop = "stages" => modelCalls = 0
  /\ pc = "tools" /\ loop = "stages" => round < MaxRounds

\* The tools requested so far: shown, or still to run.
ToolsCounted ==
  /\ toolCalls + Len(pending) <= MaxToolCalls \/ loop = "stages"
  /\ toolCalls <= Len(results) \/ loop = "finding"
  /\ Len(results) <= toolCalls \/ loop = "stages"
  /\ Len(results) + Len(pending) <= MaxToolCalls
  /\ pc \in {"capture", "stage", "narrate", "ask"} => pending = << >>
  /\ pc = "tools" /\ loop = "stages" => pending # << >>
  /\ evidence <= MaxEvidence

\* Nothing is left of the stage before.
Fresh ==
  /\ pc \in {"capture", "stage", "narrate"} => issued = {} /\ results = << >> /\ cache = << >>
  /\ pc \in {"capture", "stage"} => toolCalls = 0 /\ evidence = 0
  /\ loop = "stages" /\ (backend # "turns" \/ pc = "done") => issued = {}

\* What was issued names admitted text, and a successful result showed it.
IssuedOK ==
  \A c \in issued : /\ ValidCitation(entries, c)
                    /\ \E i \in DOMAIN results : results[i].ok /\ c \in results[i].cites

Whole == \A i \in DOMAIN results : results[i].ok /\ ~results[i].truncated

\* A stage that explored without a gap saw whole results of a whole catalog.
StageHolds ==
  loop = "stages" =>
    /\ pc \in {"narrate", "ask", "tools", "closed"} => status \in StageStatus
    /\ backend = "turns" /\ pc \in {"ask", "tools", "closed"} /\ gaps = {} =>
         omissions = {} /\ Whole
    /\ backend = "turns" /\ pc = "closed" /\ gaps = {} =>
         stop = "final" /\ cited # {} /\ CoverageGaps(cited) = {}
    /\ backend = "turns" /\ pc = "closed" /\ status = "completed" => gaps = {}
    /\ statuses \in Seq(StageStatus)
    /\ pc = "done" => status = RunStatus

\* A review of a finding that may still decide was cut nowhere.
FindingHolds ==
  /\ loop = "finding" /\ stop = "final_review" =>
       {"tool_limit", "round_limit", "invalid_request"} \cap gaps = {}
  /\ verdict = "positive" =>
       /\ loop = "finding" /\ pc = "done" /\ stop = "final_review"
       /\ \E x \in Findings : Supported(x, cited)

ReviewHolds ==
  Types /\ IsBound /\ CallsCounted /\ ToolsCounted /\ Fresh /\ IssuedOK /\ StageHolds
    /\ FindingHolds

(* ------------------------------- operators ----------------------------- *)

\* The file captured next is the least of those left.
LEMMA LeastIsLeast ==
  ASSUME NEW S \in SUBSET Nat, S # {}
  PROVE  Least(S) \in S /\ \A y \in S : Least(S) <= y
<1>1. \E x \in S : \A y \in S : x <= y
  BY LeastNumber
<1> QED BY <1>1 DEF Least

\* Lines take at least one byte each.
LEMMA SizeIsNatural ==
  ASSUME NEW lines, NEW a \in Int, NEW b \in Int
  PROVE  SizeOf(lines, a, b) \in Nat /\ b - a + 1 <= SizeOf(lines, a, b)
<1> DEFINE L == {n \in a .. b : lines[n] = "long"}
<1>1. IsFiniteSet(a .. b) /\ Cardinality(a .. b) = IF a > b THEN 0 ELSE b - a + 1
  BY FS_Interval
<1>2. IsFiniteSet(L)
  BY <1>1, FS_Subset
<1>3. Cardinality(L) \in Nat
  BY <1>2, FS_CardinalityType
<1>4. SizeOf(lines, a, b) = Cardinality(a .. b) + 2 * Cardinality(L)
  BY DEF SizeOf
<1> HIDE DEF L
<1> QED BY <1>1, <1>3, <1>4

IsEntry(e) == e.file \in Nat /\ e.digest \in Nat /\ e.lines \in Lines

\* A file of that many lines is at least that many bytes long.
LEMMA FileSizeIsNatural ==
  ASSUME NEW e, e.lines \in Lines
  PROVE  FileSize(e) \in Nat /\ Len(e.lines) <= FileSize(e)
<1>1. Len(e.lines) \in Nat
  BY DEF Lines
<1> QED BY <1>1, SizeIsNatural DEF FileSize

\* Cutting a result to the output limit leaves a result.
LEMMA BoundedResult ==
  ASSUME NEW r \in Result
  PROVE  Bounded(r) \in Result
BY DEF Bounded, Result

\* A read cites lines of the file it was given.
LEMMA ReadResult ==
  ASSUME NEW e, IsEntry(e), NEW a \in Nat, NEW b \in Nat
  PROVE  Read(e, a, b) \in Result
<1> DEFINE wanted == IF b < Len(e.lines) THEN b ELSE Len(e.lines)
           fits == {n \in a .. wanted : n < a + MaxReadLines /\ SizeOf(e.lines, a, n) <= MaxReadSize}
           last == a + Cardinality(fits) - 1
           r == [ok |-> TRUE, truncated |-> last < wanted,
                 cites |-> IF fits = {} THEN {} ELSE {Citation(e, a, last)},
                 size |-> 1 + SizeOf(e.lines, a, last)]
<1>1. Len(e.lines) \in Nat /\ wanted \in Nat
  BY DEF IsEntry, Lines
<1> HIDE DEF wanted
<1>2. IsFiniteSet(a .. wanted)
  BY <1>1, FS_Interval
<1>3. IsFiniteSet(fits)
  BY <1>2, FS_Subset
<1>4. Cardinality(fits) \in Nat /\ (Cardinality(fits) = 0 <=> fits = {})
  BY <1>3, FS_CardinalityType, FS_EmptySet
<1> HIDE DEF fits
<1>5. last \in Int /\ (fits # {} => last \in Nat)
  BY <1>4
<1>6. 1 + SizeOf(e.lines, a, last) \in Nat
  BY <1>5, SizeIsNatural
<1>7. fits # {} => Citation(e, a, last) \in Cite
  BY <1>5 DEF Citation, Cite, IsEntry
<1> HIDE DEF last
<1>8. r \in Result
  BY <1>6, <1>7 DEF Result
<1>9. Bounded(r) \in Result
  BY <1>8, BoundedResult
<1>10. Read(e, a, b) = IF a > Len(e.lines) \/ a > b THEN Refused ELSE Bounded(r)
  BY DEF Read, r, last, fits, wanted
<1>11. Refused \in Result
  BY DEF Refused, Result
<1> QED BY <1>9, <1>10, <1>11

(* -------------------------------- search ------------------------------- *)

\* Entries of different files, each of which a search may open.
IsCatalog(es) ==
  /\ IsFiniteSet(es) /\ \A e \in es : IsEntry(e) /\ FileSize(e) <= MaxSearchSize
  /\ \A d, e \in es : d.file = e.file => d = e

\* The entries that come before one.
Before(es, e) == {d \in es : d.file < e.file}

\* The number of entries before an entry is its position, and grows with its path.
LEMMA BeforeGrows ==
  ASSUME NEW es, IsCatalog(es), NEW d \in es, NEW e \in es
  PROVE  /\ Cardinality(Before(es, e)) \in 0 .. Cardinality(es) - 1
         /\ d.file < e.file => Cardinality(Before(es, d)) < Cardinality(Before(es, e))
<1>1. IsFiniteSet(es) /\ \A x \in es : x.file \in Nat
  BY DEF IsCatalog, IsEntry
<1>2. \A x : Before(es, x) \in SUBSET es
  BY DEF Before
<1>3. \A x : /\ IsFiniteSet(Before(es, x))
             /\ Cardinality(Before(es, x)) \in Nat
             /\ Cardinality(Before(es, x)) <= Cardinality(es)
             /\ Cardinality(es) = Cardinality(Before(es, x)) => es = Before(es, x)
  BY <1>1, <1>2, FS_Subset, FS_CardinalityType
<1>4. e \notin Before(es, e)
  BY <1>1 DEF Before
<1>5. Cardinality(es) \in Nat
  BY <1>1, FS_CardinalityType
<1>6. Cardinality(Before(es, e)) # Cardinality(es)
  BY <1>3, <1>4
<1>7. ASSUME d.file < e.file PROVE Cardinality(Before(es, d)) < Cardinality(Before(es, e))
  <2>1. Before(es, d) \in SUBSET Before(es, e)
    BY <1>1, <1>7 DEF Before
  <2>2. d \in Before(es, e) /\ d \notin Before(es, d)
    BY <1>1, <1>7 DEF Before
  <2>3. /\ Cardinality(Before(es, d)) <= Cardinality(Before(es, e))
        /\ Cardinality(Before(es, e)) = Cardinality(Before(es, d)) => Before(es, e) = Before(es, d)
    BY <1>3, <2>1, FS_Subset
  <2> QED BY <1>3, <2>2, <2>3
<1> QED BY <1>3, <1>5, <1>6, <1>7

\* A catalog in the order of its files is a sequence of its entries: each place
\* is that of an entry with as many entries before it.
LEMMA OrderedEntries ==
  ASSUME NEW es, IsCatalog(es)
  PROVE  /\ Ordered(es) \in Seq(es)
         /\ DOMAIN Ordered(es) = 1 .. Cardinality(es) /\ Len(Ordered(es)) = Cardinality(es)
         /\ \A i \in 1 .. Cardinality(es) : Ordered(es)[i] \in es
<1> DEFINE n == Cardinality(es)
           rank == [e \in es |-> Cardinality(Before(es, e))]
<1>1. IsFiniteSet(es) /\ n \in Nat
  BY FS_CardinalityType DEF IsCatalog
<1>2. rank \in [es -> 0 .. n - 1]
  BY BeforeGrows
<1>3. ASSUME NEW d \in es, NEW e \in es, rank[d] = rank[e] PROVE d = e
  <2>1. d.file \in Nat /\ e.file \in Nat
    BY DEF IsCatalog, IsEntry
  <2>2. Cardinality(Before(es, d)) = Cardinality(Before(es, e))
    BY <1>3
  <2>3. ~(d.file < e.file) /\ ~(e.file < d.file)
    <3>1. d.file < e.file => Cardinality(Before(es, d)) < Cardinality(Before(es, e))
      BY BeforeGrows
    <3>2. e.file < d.file => Cardinality(Before(es, e)) < Cardinality(Before(es, d))
      BY BeforeGrows
    <3>3. Cardinality(Before(es, d)) \in Int
      BY BeforeGrows
    <3> QED BY <2>2, <3>1, <3>2, <3>3
  <2> QED BY <2>1, <2>3 DEF IsCatalog
<1>4. rank \in Injection(es, 0 .. n - 1)
  BY <1>2, <1>3 DEF Injection, IsInjective
<1>5. IsFiniteSet(0 .. n - 1) /\ Cardinality(0 .. n - 1) = n
  <2>1. n - 1 \in Int /\ 0 \in Int
    BY <1>1
  <2>2. IsFiniteSet(0 .. n - 1) /\ Cardinality(0 .. n - 1) = IF 0 > n - 1 THEN 0 ELSE n - 1 - 0 + 1
    BY <2>1, FS_Interval
  <2> QED BY <1>1, <2>2
<1> HIDE DEF n, rank
<1>6. rank \in Surjection(es, 0 .. n - 1)
  BY <1>4, <1>5, FS_Injection DEF n
<1>7. ASSUME NEW i \in 1 .. n
      PROVE  (CHOOSE e \in es : Cardinality(Before(es, e)) = i - 1) \in es
  <2>1. i - 1 \in 0 .. n - 1
    BY <1>1
  <2>2. PICK e \in es : rank[e] = i - 1
    BY <1>6, <2>1 DEF Surjection
  <2>3. Cardinality(Before(es, e)) = i - 1
    BY <2>2 DEF rank
  <2> QED BY <2>3
<1>8. Ordered(es) = [i \in 1 .. n |-> CHOOSE e \in es : Cardinality(Before(es, e)) = i - 1]
  BY DEF Ordered, Before, n
<1>9. Ordered(es) \in [1 .. n -> es]
  BY <1>7, <1>8
<1>10. Ordered(es) \in Seq(es) /\ DOMAIN Ordered(es) = 1 .. n
  BY <1>1, <1>9
<1>11. Len(Ordered(es)) = n
  BY <1>1, <1>10
<1> QED BY <1>9, <1>10, <1>11 DEF n

\* Places are compared by file, then by line.
LEMMA LeastPlace ==
  ASSUME NEW R \in SUBSET (Nat \X Nat), R # {}
  PROVE  \E p \in R : \A q \in R : p = q \/ Precedes(p, q)
<1> DEFINE F == {p[1] : p \in R}
<1>1. F \in SUBSET Nat /\ F # {}
  OBVIOUS
<1>2. PICK f \in F : \A g \in F : f <= g
  BY <1>1, LeastNumber
<1> DEFINE L == {n \in Nat : <<f, n>> \in R}
<1>3. L \in SUBSET Nat /\ L # {}
  <2>1. PICK p \in R : p[1] = f
    BY <1>2
  <2>2. p = <<f, p[2]>> /\ p[2] \in Nat
    BY <2>1
  <2> QED BY <2>1, <2>2
<1>4. PICK m \in L : \A n \in L : m <= n
  BY <1>3, LeastNumber
<1>5. <<f, m>> \in R
  OBVIOUS
<1>6. ASSUME NEW q \in R PROVE <<f, m>> = q \/ Precedes(<<f, m>>, q)
  <2>1. q = <<q[1], q[2]>> /\ q[1] \in Nat /\ q[2] \in Nat /\ f <= q[1] /\ f \in Nat /\ m \in Nat
    BY <1>2
  <2>2. q[1] = f => m <= q[2]
    BY <1>4, <2>1
  <2> QED BY <2>1, <2>2 DEF Precedes
<1> QED BY <1>5, <1>6

\* The parts of a page, named as SearchPage names them.
FirstLine(from, i) == IF i = from[1] THEN from[2] ELSE 1
Spent(fs, from, i) == Cardinality(UNION {{k} \X (1 .. FileSize(fs[k])) : k \in from[1] .. i})
OpenFiles(fs, from) == {i \in from[1] .. Len(fs) :
                         i - from[1] < MaxSearchFiles /\ Spent(fs, from, i) <= MaxSearchSize}
Places(fs, from) == UNION {{i} \X (FirstLine(from, i) .. Len(fs[i].lines)) : i \in OpenFiles(fs, from)}
Hits(fs, from) == {p \in Places(fs, from) : fs[p[1]].lines[p[2]] = "match"}
HitsBefore(fs, from, p) == {h \in Hits(fs, from) : Precedes(h, p)}
ReachedPlaces(fs, from) ==
  {p \in Places(fs, from) : Cardinality(HitsBefore(fs, from, p)) < MaxMatches}

\* The parts of a search page, each from the files opened and the places reached.
LEMMA PageParts ==
  ASSUME NEW fs, NEW from
  PROVE  LET rest == Places(fs, from) \ ReachedPlaces(fs, from)
             closed == (from[1] .. Len(fs)) \ OpenFiles(fs, from)
             page == SearchPage(fs, from)
         IN  /\ page.matches = Hits(fs, from) \cap ReachedPlaces(fs, from)
             /\ page.skipped = {p \in ReachedPlaces(fs, from) : fs[p[1]].lines[p[2]] = "long"}
             /\ page.next = IF rest # {}
                            THEN CHOOSE p \in rest : \A q \in rest : p = q \/ Precedes(p, q)
                            ELSE IF closed # {}
                            THEN <<Least(closed), FirstLine(from, Least(closed))>> ELSE NoCursor
BY DEF SearchPage, FirstLine, Spent, OpenFiles, Places, Hits, HitsBefore, ReachedPlaces

\* Intervals are finite, and 1 .. n has n elements.
LEMMA Intervals ==
  /\ \A a, b \in Int : IsFiniteSet(a .. b)
  /\ \A n \in Nat : Cardinality(1 .. n) = n
<1>1. ASSUME NEW a \in Int, NEW b \in Int PROVE IsFiniteSet(a .. b)
  BY FS_Interval
<1>2. ASSUME NEW n \in Nat PROVE Cardinality(1 .. n) = n
  <2>1. Cardinality(1 .. n) = IF 1 > n THEN 0 ELSE n - 1 + 1
    BY FS_Interval
  <2> QED BY <2>1
<1> QED BY <1>1, <1>2

\* What a search runs over, and where it starts.
IsSearch(fs, from) ==
  /\ Len(fs) \in Nat
  /\ \A i \in 1 .. Len(fs) : IsEntry(fs[i]) /\ FileSize(fs[i]) <= MaxSearchSize
  /\ from = <<from[1], from[2]>> /\ from[1] \in Nat \ {0} /\ from[2] \in Nat \ {0}

\* The files a page opens are those up to some file: what was read only grows.
LEMMA OpenFilesArePrefix ==
  ASSUME NEW fs, NEW from, IsSearch(fs, from), NEW j \in OpenFiles(fs, from),
         NEW k \in from[1] .. j
  PROVE  k \in OpenFiles(fs, from)
<1> DEFINE U(n) == UNION {{i} \X (1 .. FileSize(fs[i])) : i \in from[1] .. n}
<1>1. j \in from[1] .. Len(fs) /\ from[1] \in Nat \ {0} /\ Len(fs) \in Nat /\ MaxSearchSize \in Nat
      /\ MaxSearchFiles \in Nat
  BY ReviewAssumption DEF IsSearch, OpenFiles
<1>2. k \in from[1] .. Len(fs)
  BY <1>1
<1>3. U(j) \subseteq (from[1] .. j) \X (1 .. MaxSearchSize)
  <2>1. ASSUME NEW i \in from[1] .. j PROVE 1 .. FileSize(fs[i]) \subseteq 1 .. MaxSearchSize
    <3>1. i \in 1 .. Len(fs)
      BY <1>1
    <3>2. FileSize(fs[i]) \in Nat /\ FileSize(fs[i]) <= MaxSearchSize
      BY <3>1, FileSizeIsNatural DEF IsSearch, IsEntry
    <3> QED BY <1>1, <3>2
  <2> QED BY <2>1
<1>4. IsFiniteSet((from[1] .. j) \X (1 .. MaxSearchSize))
  <2>1. IsFiniteSet(from[1] .. j) /\ IsFiniteSet(1 .. MaxSearchSize)
    BY <1>1, Intervals
  <2> QED BY <2>1, FS_Product
<1>5. U(k) \subseteq U(j)
  BY <1>1
<1>6. IsFiniteSet(U(j)) /\ IsFiniteSet(U(k)) /\ Cardinality(U(k)) <= Cardinality(U(j))
  <2> HIDE DEF U
  <2>1. IsFiniteSet(U(j))
    BY <1>3, <1>4, FS_Subset
  <2> QED BY <1>5, <2>1, FS_Subset
<1>7. Cardinality(U(j)) \in Nat /\ Cardinality(U(k)) \in Nat
  BY <1>6, FS_CardinalityType
<1>8. Spent(fs, from, j) = Cardinality(U(j)) /\ Spent(fs, from, k) = Cardinality(U(k))
  BY DEF Spent
<1> HIDE DEF U
<1>9. Spent(fs, from, k) <= MaxSearchSize /\ k - from[1] < MaxSearchFiles
  BY <1>1, <1>2, <1>6, <1>7, <1>8 DEF OpenFiles
<1> QED BY <1>2, <1>9 DEF OpenFiles

\* The file a search starts in is opened.
LEMMA FirstFileIsOpen ==
  ASSUME NEW fs, NEW from, IsSearch(fs, from), from[1] <= Len(fs)
  PROVE  from[1] \in OpenFiles(fs, from)
<1> DEFINE i == from[1]
<1>1. i \in 1 .. Len(fs) /\ i \in Nat /\ i .. i = {i}
  BY DEF IsSearch
<1>2. FileSize(fs[i]) \in Nat /\ FileSize(fs[i]) <= MaxSearchSize
  BY <1>1, FileSizeIsNatural DEF IsSearch, IsEntry
<1>3. UNION {{k} \X (1 .. FileSize(fs[k])) : k \in i .. i} = {i} \X (1 .. FileSize(fs[i]))
  BY <1>1
<1>4. Cardinality({i} \X (1 .. FileSize(fs[i]))) = FileSize(fs[i])
  <2>1. IsFiniteSet(1 .. FileSize(fs[i])) /\ Cardinality(1 .. FileSize(fs[i])) = FileSize(fs[i])
    BY <1>2, Intervals
  <2>2. IsFiniteSet({i}) /\ Cardinality({i}) = 1
    BY FS_Singleton
  <2>3. Cardinality({i} \X (1 .. FileSize(fs[i])))
          = Cardinality({i}) * Cardinality(1 .. FileSize(fs[i]))
    BY <2>1, <2>2, FS_Product
  <2> QED BY <1>2, <2>1, <2>2, <2>3
<1>5. Spent(fs, from, i) = FileSize(fs[i])
  BY <1>3, <1>4 DEF Spent
<1>6. i \in i .. Len(fs) /\ i - i < MaxSearchFiles
  BY <1>1, ReviewAssumption
<1> QED BY <1>2, <1>5, <1>6 DEF OpenFiles

\* Where a page may be: lines from its start, of files it opens.
LEMMA PlacesAre ==
  ASSUME NEW fs, NEW from, IsSearch(fs, from), NEW p
  PROVE  p \in Places(fs, from) <=>
           /\ p = <<p[1], p[2]>> /\ p[1] \in OpenFiles(fs, from)
           /\ p[2] \in DOMAIN fs[p[1]].lines /\ ~Precedes(p, from)
<1>1. ASSUME NEW i \in OpenFiles(fs, from)
      PROVE  /\ i \in from[1] .. Len(fs) /\ i \in Nat \ {0} /\ Len(fs[i].lines) \in Nat
             /\ DOMAIN fs[i].lines = 1 .. Len(fs[i].lines)
  BY DEF OpenFiles, IsSearch, IsEntry, Lines
<1>2. from[1] \in Nat \ {0} /\ from[2] \in Nat \ {0}
  BY DEF IsSearch
<1>3. ASSUME NEW i \in OpenFiles(fs, from), NEW n
      PROVE  n \in FirstLine(from, i) .. Len(fs[i].lines) <=>
               n \in 1 .. Len(fs[i].lines) /\ ~Precedes(<<i, n>>, from)
  BY <1>1, <1>2 DEF FirstLine, Precedes
<1>4. p \in Places(fs, from) <=>
        \E i \in OpenFiles(fs, from) : \E n \in FirstLine(from, i) .. Len(fs[i].lines) : p = <<i, n>>
  BY DEF Places
<1> QED BY <1>1, <1>3, <1>4

\* Only finitely many matches precede a place.
LEMMA HitsAreFinite ==
  ASSUME NEW fs, NEW from, IsSearch(fs, from)
  PROVE  \A p : /\ IsFiniteSet(HitsBefore(fs, from, p))
                /\ Cardinality(HitsBefore(fs, from, p)) \in Nat
<1>1. from[1] \in Nat \ {0} /\ Len(fs) \in Nat /\ MaxSearchSize \in Nat
  BY ReviewAssumption DEF IsSearch
<1>2. IsFiniteSet((from[1] .. Len(fs)) \X (1 .. MaxSearchSize))
  <2>1. IsFiniteSet(from[1] .. Len(fs)) /\ IsFiniteSet(1 .. MaxSearchSize)
    BY <1>1, Intervals
  <2> QED BY <2>1, FS_Product
<1>3. ASSUME NEW p \in Places(fs, from)
      PROVE  p \in (from[1] .. Len(fs)) \X (1 .. MaxSearchSize)
  <2>1. /\ p = <<p[1], p[2]>> /\ p[1] \in from[1] .. Len(fs)
        /\ p[2] \in DOMAIN fs[p[1]].lines
    BY PlacesAre DEF OpenFiles
  <2>2. p[1] \in 1 .. Len(fs)
    BY <1>1, <2>1
  <2>3. Len(fs[p[1]].lines) <= FileSize(fs[p[1]]) /\ FileSize(fs[p[1]]) <= MaxSearchSize
        /\ FileSize(fs[p[1]]) \in Nat /\ Len(fs[p[1]].lines) \in Nat
        /\ DOMAIN fs[p[1]].lines = 1 .. Len(fs[p[1]].lines)
    BY <2>2, FileSizeIsNatural DEF IsSearch, IsEntry, Lines
  <2>4. p[2] \in 1 .. MaxSearchSize
    BY <1>1, <2>1, <2>3
  <2> QED BY <2>1, <2>4
<1>4. \A p : HitsBefore(fs, from, p) \in SUBSET ((from[1] .. Len(fs)) \X (1 .. MaxSearchSize))
  BY <1>3 DEF HitsBefore, Hits
<1>5. ASSUME NEW p PROVE IsFiniteSet(HitsBefore(fs, from, p))
  BY <1>2, <1>4, FS_Subset
<1> QED BY <1>5, FS_CardinalityType

\* Places are ordered by file, then line: a strict total order.
LEMMA PrecedesIsOrder ==
  /\ \A p, q \in Nat \X Nat : p = q \/ Precedes(p, q) \/ Precedes(q, p)
  /\ \A p, q \in Nat \X Nat : ~(Precedes(p, q) /\ Precedes(q, p)) /\ ~Precedes(p, p)
  /\ \A p, q, r \in Nat \X Nat : Precedes(p, q) /\ Precedes(q, r) => Precedes(p, r)
BY DEF Precedes

PlacesArePairs(fs, from) == Places(fs, from) \in SUBSET (Nat \X Nat)

\* A place is a pair of a file and a line.
LEMMA PlacesPaired ==
  ASSUME NEW fs, NEW from, IsSearch(fs, from)
  PROVE  PlacesArePairs(fs, from)
<1>1. ASSUME NEW p \in Places(fs, from) PROVE p \in Nat \X Nat
  <2>1. /\ p = <<p[1], p[2]>> /\ p[1] \in from[1] .. Len(fs)
        /\ p[2] \in DOMAIN fs[p[1]].lines
    BY PlacesAre DEF OpenFiles
  <2>2. p[1] \in 1 .. Len(fs)
    BY <2>1 DEF IsSearch
  <2>3. DOMAIN fs[p[1]].lines = 1 .. Len(fs[p[1]].lines)
    BY <2>2 DEF IsSearch, IsEntry, Lines
  <2> QED BY <2>1, <2>2, <2>3
<1> QED BY <1>1 DEF PlacesArePairs

\* What lies before a place that was reached was reached.
LEMMA ReachedIsPrefix ==
  ASSUME NEW fs, NEW from, IsSearch(fs, from), NEW q \in ReachedPlaces(fs, from),
         NEW p \in Places(fs, from), Precedes(p, q)
  PROVE  p \in ReachedPlaces(fs, from)
<1>1. PlacesArePairs(fs, from) /\ q \in Places(fs, from)
  BY PlacesPaired DEF ReachedPlaces
<1>2. HitsBefore(fs, from, p) \in SUBSET HitsBefore(fs, from, q)
  BY <1>1, PrecedesIsOrder DEF HitsBefore, Hits, PlacesArePairs
<1>3. Cardinality(HitsBefore(fs, from, p)) <= Cardinality(HitsBefore(fs, from, q))
  BY <1>2, HitsAreFinite, FS_Subset
<1>4. Cardinality(HitsBefore(fs, from, q)) < MaxMatches
  BY DEF ReachedPlaces
<1>5. MaxMatches \in Nat
  BY ReviewAssumption
<1> QED BY <1>3, <1>4, <1>5, HitsAreFinite DEF ReachedPlaces

\* The line a search starts at is reached.
LEMMA StartIsReached ==
  ASSUME NEW fs, NEW from, IsSearch(fs, from), from \in Places(fs, from)
  PROVE  from \in ReachedPlaces(fs, from)
<1>1. \A h \in Places(fs, from) : ~Precedes(h, from)
  BY PlacesAre
<1>2. HitsBefore(fs, from, from) = {}
  BY <1>1 DEF HitsBefore, Hits
<1>3. Cardinality(HitsBefore(fs, from, from)) = 0
  BY <1>2, FS_EmptySet
<1> QED BY <1>3, ReviewAssumption DEF ReachedPlaces

\* What a reader who goes on at the next cursor does not see again.
Passed(fs, from) ==
  LET next == SearchPage(fs, from).next
  IN {p \in UNION {{i} \X DOMAIN fs[i].lines : i \in from[1] .. Len(fs)} :
        ~Precedes(p, from) /\ (next # NoCursor => Precedes(p, next))}

\* The places a page passes: those from the cursor it was given to the one it gives.
LEMMA PassedAre ==
  ASSUME NEW fs, NEW from, IsSearch(fs, from), NEW p
  PROVE  p \in Passed(fs, from) <=>
           /\ p = <<p[1], p[2]>> /\ p[1] \in from[1] .. Len(fs) /\ p[2] \in DOMAIN fs[p[1]].lines
           /\ ~Precedes(p, from)
           /\ SearchPage(fs, from).next # NoCursor => Precedes(p, SearchPage(fs, from).next)
<1> DEFINE next == SearchPage(fs, from).next
<1>1. p \in Passed(fs, from) <=>
        /\ \E i \in from[1] .. Len(fs) : p \in {i} \X DOMAIN fs[i].lines
        /\ ~Precedes(p, from) /\ (next # NoCursor => Precedes(p, next))
  BY DEF Passed
<1> HIDE DEF next
<1>2. (\E i \in from[1] .. Len(fs) : p \in {i} \X DOMAIN fs[i].lines) <=>
        p = <<p[1], p[2]>> /\ p[1] \in from[1] .. Len(fs) /\ p[2] \in DOMAIN fs[p[1]].lines
  OBVIOUS
<1> QED BY <1>1, <1>2 DEF next

Unreached(fs, from) == Places(fs, from) \ ReachedPlaces(fs, from)
ClosedFiles(fs, from) == (from[1] .. Len(fs)) \ OpenFiles(fs, from)

\* The next cursor is the first place not reached, or the first file not opened.
LEMMA NextCursor ==
  ASSUME NEW fs, NEW from, IsSearch(fs, from), from[1] <= Len(fs)
  PROVE  LET next == SearchPage(fs, from).next
         IN  /\ Unreached(fs, from) # {} =>
                  /\ next \in Unreached(fs, from) /\ next # NoCursor
                  /\ \A q \in Unreached(fs, from) : next = q \/ Precedes(next, q)
             /\ Unreached(fs, from) = {} /\ ClosedFiles(fs, from) # {} =>
                  /\ next = <<next[1], 1>> /\ next # NoCursor /\ next[1] > from[1]
                  /\ next[1] \in ClosedFiles(fs, from)
                  /\ \A i \in ClosedFiles(fs, from) : next[1] <= i
             /\ Unreached(fs, from) = {} /\ ClosedFiles(fs, from) = {} => next = NoCursor
<1> DEFINE next == SearchPage(fs, from).next
           rest == Unreached(fs, from)
           closed == ClosedFiles(fs, from)
<1>1. next = IF rest # {} THEN CHOOSE p \in rest : \A q \in rest : p = q \/ Precedes(p, q)
             ELSE IF closed # {} THEN <<Least(closed), FirstLine(from, Least(closed))>> ELSE NoCursor
  BY PageParts DEF Unreached, ClosedFiles
<1>2. rest \in SUBSET (Nat \X Nat)
  BY PlacesPaired DEF Unreached, PlacesArePairs
<1>3. closed \in SUBSET Nat /\ \A i \in closed : i > from[1]
  <2>1. from[1] \in OpenFiles(fs, from)
    BY FirstFileIsOpen
  <2>2. from[1] \in Nat /\ Len(fs) \in Nat
    BY DEF IsSearch
  <2> QED BY <2>1, <2>2 DEF ClosedFiles
<1>4. ASSUME rest # {}
      PROVE  next \in rest /\ next # NoCursor /\ \A q \in rest : next = q \/ Precedes(next, q)
  <2> HIDE DEF rest, closed, next
  <2>1. \E p \in rest : \A q \in rest : p = q \/ Precedes(p, q)
    BY <1>2, <1>4, LeastPlace
  <2>2. next \in rest /\ \A q \in rest : next = q \/ Precedes(next, q)
    BY <1>1, <1>4, <2>1
  <2>3. next # NoCursor
    <3>1. next[1] \in OpenFiles(fs, from)
      BY <2>2, PlacesAre DEF rest, Unreached
    <3>2. next[1] \in Nat \ {0}
      BY <3>1 DEF OpenFiles, IsSearch
    <3> QED BY <3>2 DEF NoCursor
  <2> QED BY <2>2, <2>3
<1>5. ASSUME rest = {}, closed # {}
      PROVE  /\ next = <<next[1], 1>> /\ next # NoCursor /\ next[1] > from[1]
             /\ next[1] \in closed /\ \A i \in closed : next[1] <= i
  <2> HIDE DEF rest, closed, next
  <2>1. Least(closed) \in closed /\ \A i \in closed : Least(closed) <= i
    BY <1>3, <1>5, LeastIsLeast
  <2>2. next = <<Least(closed), FirstLine(from, Least(closed))>>
    BY <1>1, <1>5
  <2>3. Least(closed) > from[1] /\ from[1] \in Nat
    BY <1>3, <2>1 DEF IsSearch
  <2>4. FirstLine(from, Least(closed)) = 1
    BY <1>3, <2>1, <2>3 DEF FirstLine
  <2> QED BY <2>1, <2>2, <2>3, <2>4 DEF NoCursor
<1>6. rest = {} /\ closed = {} => next = NoCursor
  BY <1>1
<1> QED BY <1>4, <1>5, <1>6

\* A page passes the places it reached, and no others.
LEMMA PassedIsReached ==
  ASSUME NEW fs, NEW from, IsSearch(fs, from), from[1] <= Len(fs)
  PROVE  Passed(fs, from) = ReachedPlaces(fs, from)
<1> DEFINE next == SearchPage(fs, from).next
           rest == Unreached(fs, from)
           closed == ClosedFiles(fs, from)
<1>1. /\ rest # {} => /\ next \in rest /\ next # NoCursor
                      /\ \A q \in rest : next = q \/ Precedes(next, q)
      /\ rest = {} /\ closed # {} => /\ next = <<next[1], 1>> /\ next # NoCursor
                                    /\ next[1] \in closed /\ \A i \in closed : next[1] <= i
      /\ rest = {} /\ closed = {} => next = NoCursor
  BY NextCursor
<1>2. PlacesArePairs(fs, from)
  BY PlacesPaired
<1>3. /\ from[1] \in Nat \ {0} /\ Len(fs) \in Nat
      /\ \A i \in from[1] .. Len(fs) : DOMAIN fs[i].lines \subseteq Nat \ {0}
  <2>1. from[1] \in Nat \ {0} /\ Len(fs) \in Nat
    BY DEF IsSearch
  <2>2. ASSUME NEW i \in from[1] .. Len(fs) PROVE DOMAIN fs[i].lines \subseteq Nat \ {0}
    <3>1. i \in 1 .. Len(fs)
      BY <2>1
    <3>2. DOMAIN fs[i].lines = 1 .. Len(fs[i].lines) /\ Len(fs[i].lines) \in Nat
      BY <3>1 DEF IsSearch, IsEntry, Lines
    <3> QED BY <3>2
  <2> QED BY <2>1, <2>2
<1>4. /\ rest \subseteq Places(fs, from) /\ closed = (from[1] .. Len(fs)) \ OpenFiles(fs, from)
      /\ ReachedPlaces(fs, from) = Places(fs, from) \ rest
  BY DEF Unreached, ClosedFiles, ReachedPlaces
<1>5. OpenFiles(fs, from) \subseteq from[1] .. Len(fs)
  BY DEF OpenFiles
<1> HIDE DEF next, rest, closed
<1>6. ASSUME NEW p \in ReachedPlaces(fs, from) PROVE p \in Passed(fs, from)
  <2>1. /\ p \in Places(fs, from) /\ p \notin rest
        /\ p = <<p[1], p[2]>> /\ p[1] \in OpenFiles(fs, from) /\ p[1] \in from[1] .. Len(fs)
        /\ p[2] \in DOMAIN fs[p[1]].lines /\ ~Precedes(p, from)
    BY <1>4, <1>5, PlacesAre
  <2>2. next # NoCursor => Precedes(p, next)
    <3>1. CASE rest # {}
      <4>1. next \in rest /\ next \in Places(fs, from) /\ next \in Nat \X Nat /\ p \in Nat \X Nat
        BY <1>1, <1>2, <1>4, <2>1, <3>1 DEF PlacesArePairs
      <4>2. ~Precedes(next, p)
        BY <1>4, <2>1, <4>1, ReachedIsPrefix
      <4> QED BY <2>1, <4>1, <4>2, PrecedesIsOrder
    <3>2. CASE rest = {} /\ closed # {}
      <4>1. next = <<next[1], 1>> /\ next[1] \in closed /\ \A i \in closed : next[1] <= i
        BY <1>1, <3>2
      <4>2. ~(next[1] <= p[1])
        <5>1. ASSUME next[1] <= p[1] PROVE FALSE
          <6>1. next[1] \in from[1] .. p[1]
            BY <1>3, <1>4, <2>1, <4>1, <5>1
          <6>2. next[1] \in OpenFiles(fs, from)
            BY <2>1, <6>1, OpenFilesArePrefix
          <6> QED BY <1>4, <4>1, <6>2
        <5> QED BY <5>1
      <4>3. p[1] < next[1]
        BY <1>3, <1>4, <2>1, <4>1, <4>2
      <4> QED BY <4>3 DEF Precedes
    <3>3. CASE rest = {} /\ closed = {}
      BY <1>1, <3>3
    <3> QED BY <3>1, <3>2, <3>3
  <2> QED BY <2>1, <2>2, PassedAre DEF next
<1>7. ASSUME NEW p \in Passed(fs, from) PROVE p \in ReachedPlaces(fs, from)
  <2>1. /\ p = <<p[1], p[2]>> /\ p[1] \in from[1] .. Len(fs) /\ p[2] \in DOMAIN fs[p[1]].lines
        /\ ~Precedes(p, from) /\ (next # NoCursor => Precedes(p, next))
    BY PassedAre DEF next
  <2>2. p[1] \in Nat /\ p[2] \in Nat \ {0} /\ p \in Nat \X Nat
    BY <1>3, <2>1
  <2>3. CASE rest # {}
    <3>1. next \in rest /\ next # NoCursor /\ \A q \in rest : next = q \/ Precedes(next, q)
      BY <1>1, <2>3
    <3>2. Precedes(p, next) /\ next \in Nat \X Nat
      BY <1>2, <1>4, <2>1, <3>1 DEF PlacesArePairs
    <3>3. next[1] \in OpenFiles(fs, from) /\ p[1] \in from[1] .. next[1]
      BY <1>3, <1>4, <1>5, <2>1, <2>2, <3>1, <3>2, PlacesAre DEF Precedes
    <3>4. p[1] \in OpenFiles(fs, from)
      BY <3>3, OpenFilesArePrefix
    <3>5. p \in Places(fs, from)
      BY <2>1, <3>4, PlacesAre
    <3>6. p \notin rest
      BY <2>2, <3>1, <3>2, PrecedesIsOrder
    <3> QED BY <1>4, <3>5, <3>6
  <2>4. CASE rest = {} /\ closed # {}
    <3>1. /\ next = <<next[1], 1>> /\ next # NoCursor /\ next[1] \in closed
          /\ \A i \in closed : next[1] <= i
      BY <1>1, <2>4
    <3>2. p[1] < next[1]
      BY <1>3, <1>4, <2>1, <2>2, <3>1 DEF Precedes
    <3>3. p[1] \in OpenFiles(fs, from)
      BY <1>3, <1>4, <2>1, <3>1, <3>2
    <3> QED BY <1>4, <2>1, <2>4, <3>3, PlacesAre
  <2>5. CASE rest = {} /\ closed = {}
    <3>1. p[1] \in OpenFiles(fs, from)
      BY <1>4, <2>1, <2>5
    <3> QED BY <1>4, <2>1, <2>5, <3>1, PlacesAre
  <2> QED BY <2>3, <2>4, <2>5
<1> QED BY <1>6, <1>7

\* One page leaves nothing out, and its cursor moves on.
LEMMA PageIsComplete ==
  ASSUME NEW fs, NEW from, IsSearch(fs, from), from[1] <= Len(fs)
  PROVE  PagesLeaveNothingOut(fs, from)
<1> DEFINE page == SearchPage(fs, from)
<1>1. {p \in Passed(fs, from) : fs[p[1]].lines[p[2]] # "plain"} = page.matches \cup page.skipped
  <2>1. /\ page.matches = Hits(fs, from) \cap ReachedPlaces(fs, from)
        /\ page.skipped = {p \in ReachedPlaces(fs, from) : fs[p[1]].lines[p[2]] = "long"}
    BY PageParts
  <2>2. Passed(fs, from) = ReachedPlaces(fs, from)
    BY PassedIsReached
  <2> HIDE DEF page
  <2>3. ASSUME NEW p \in ReachedPlaces(fs, from)
        PROVE  /\ p \in Places(fs, from)
               /\ fs[p[1]].lines[p[2]] \in {"plain", "match", "long"}
    <3>1. p \in Places(fs, from) /\ p[1] \in from[1] .. Len(fs) /\ p[2] \in DOMAIN fs[p[1]].lines
      BY PlacesAre DEF ReachedPlaces, OpenFiles
    <3>2. p[1] \in 1 .. Len(fs)
      BY <3>1 DEF IsSearch
    <3>3. fs[p[1]].lines \in Lines
      BY <3>2 DEF IsSearch, IsEntry
    <3> QED BY <3>1, <3>3 DEF Lines
  <2> QED BY <2>1, <2>2, <2>3 DEF Hits
<1>2. page.next # NoCursor => Precedes(from, page.next)
  <2>1. CASE Unreached(fs, from) # {}
    <3> DEFINE next == page.next
    <3>1. next \in Unreached(fs, from)
      BY <2>1, NextCursor
    <3> HIDE DEF next
    <3>2. next \in Places(fs, from) /\ next \notin ReachedPlaces(fs, from)
      BY <3>1 DEF Unreached
    <3>3. next # from
      BY <3>2, StartIsReached
    <3>4. ~Precedes(next, from)
      BY <3>2, PlacesAre
    <3>5. next \in Nat \X Nat /\ from \in Nat \X Nat
      BY <3>2, PlacesPaired DEF PlacesArePairs, IsSearch
    <3>6. Precedes(from, next)
      BY <3>3, <3>4, <3>5, PrecedesIsOrder
    <3> QED BY <3>6 DEF next
  <2>2. CASE Unreached(fs, from) = {} /\ ClosedFiles(fs, from) # {}
    <3>1. page.next[1] > from[1]
      BY <2>2, NextCursor
    <3> QED BY <3>1 DEF Precedes
  <2>3. CASE Unreached(fs, from) = {} /\ ClosedFiles(fs, from) = {}
    BY <2>3, NextCursor
  <2> QED BY <2>1, <2>2, <2>3
<1>3. Passed(fs, from) =
        {p \in UNION {{i} \X DOMAIN fs[i].lines : i \in from[1] .. Len(fs)} :
           ~Precedes(p, from) /\ (page.next # NoCursor => Precedes(p, page.next))}
  BY DEF Passed
<1> QED BY <1>1, <1>2, <1>3 DEF PagesLeaveNothingOut

\* The matches of a page are finitely many, and can be cited.
LEMMA SearchMatches ==
  ASSUME NEW fs, NEW from, IsSearch(fs, from)
  PROVE  LET found == SearchPage(fs, from).matches
         IN  /\ IsFiniteSet(found) /\ Cardinality(found) \in Nat
             /\ \A p \in found : Citation(fs[p[1]], p[2], p[2]) \in Cite
<1> DEFINE found == SearchPage(fs, from).matches
<1>1. found \in SUBSET Hits(fs, from)
  <2>1. found = Hits(fs, from) \cap ReachedPlaces(fs, from)
    BY PageParts
  <2> HIDE DEF found
  <2> QED BY <2>1
<1>2. IsFiniteSet(Hits(fs, from))
  <2>1. HitsBefore(fs, from, <<Len(fs) + 1, 1>>) = Hits(fs, from)
    <3>1. ASSUME NEW p \in Hits(fs, from) PROVE Precedes(p, <<Len(fs) + 1, 1>>)
      <4>1. p[1] \in from[1] .. Len(fs)
        BY PlacesAre DEF Hits, OpenFiles
      <4> QED BY <4>1 DEF IsSearch, Precedes
    <3> QED BY <3>1 DEF HitsBefore
  <2> QED BY <2>1, HitsAreFinite
<1>3. IsFiniteSet(found) /\ Cardinality(found) \in Nat
  <2> HIDE DEF found
  <2> QED BY <1>1, <1>2, FS_Subset, FS_CardinalityType
<1>4. ASSUME NEW p \in found PROVE Citation(fs[p[1]], p[2], p[2]) \in Cite
  <2>1. p \in Places(fs, from)
    BY <1>1 DEF Hits
  <2>2. p[1] \in from[1] .. Len(fs) /\ p[2] \in Nat
    BY <2>1, PlacesAre, PlacesPaired DEF OpenFiles, PlacesArePairs
  <2>3. IsEntry(fs[p[1]])
    BY <2>2 DEF IsSearch
  <2> QED BY <2>2, <2>3 DEF Citation, Cite, IsEntry
<1> QED BY <1>3, <1>4

\* A search returns a result.
LEMMA SearchResult ==
  ASSUME NEW fs, NEW from, IsSearch(fs, from)
  PROVE  Search(fs, from) \in Result
<1> DEFINE page == SearchPage(fs, from)
           r == [ok |-> TRUE, truncated |-> page.skipped # {},
                 cites |-> {Citation(fs[p[1]], p[2], p[2]) : p \in page.matches},
                 size |-> 1 + Cardinality(page.matches)]
<1>1. Cardinality(page.matches) \in Nat /\ \A p \in page.matches : Citation(fs[p[1]], p[2], p[2]) \in Cite
  BY SearchMatches
<1> HIDE DEF page
<1>2. r \in Result
  BY <1>1 DEF Result
<1>3. Bounded(r) \in Result
  BY <1>2, BoundedResult
<1>4. Search(fs, from) = IF fs = << >> THEN Refused ELSE Bounded(r)
  BY DEF Search, page
<1> QED BY <1>3, <1>4 DEF Refused, Result

(* -------------------------------- catalog ------------------------------ *)

\* What a scan analysed is text.
LEMMA VersionsAreText ==
  ASSUME NEW s \in Scans, NEW f \in DOMAIN s
  PROVE  f \in Files /\ f \in Nat /\ s[f] \in Nat /\ Text[f][s[f]] \in Lines
<1>1. f \in Files /\ f \in Nat /\ s[f] \in DOMAIN Text[f] /\ Text[f] \in Seq(Lines)
  BY ReviewAssumption DEF Lines
<1>2. DOMAIN Text[f] = 1 .. Len(Text[f]) /\ Len(Text[f]) \in Nat
  BY <1>1
<1> QED BY <1>1, <1>2

\* The entries captured are a catalog: ordered, and no larger than a search may read.
LEMMA CatalogIsCatalog ==
  ASSUME CatalogOK
  PROVE  IsCatalog(entries)
<1>1. ASSUME NEW e \in entries PROVE IsEntry(e) /\ FileSize(e) <= MaxSearchSize
  <2>1. e.file \in DOMAIN parsed /\ parsed \in Scans /\ e = AsParsed(e.file) /\ FileSize(e) <= MaxFileSize
    BY DEF CatalogOK
  <2>2. IsEntry(e)
    BY <2>1, VersionsAreText DEF AsParsed, IsEntry
  <2>3. FileSize(e) \in Nat
    BY <2>2, FileSizeIsNatural DEF IsEntry
  <2> QED BY <2>1, <2>2, <2>3, ReviewAssumption
<1>2. ASSUME NEW d \in entries, NEW e \in entries, d.file = e.file PROVE d = e
  BY <1>2 DEF CatalogOK
<1> QED BY <1>1, <1>2 DEF CatalogOK, IsCatalog

\* Any cursor into the catalog is one a search can start from.
LEMMA CatalogIsSearched ==
  ASSUME CatalogOK, NEW i \in Nat \ {0}, NEW n \in Nat \ {0}
  PROVE  IsSearch(Ordered(entries), <<i, n>>)
<1>1. IsCatalog(entries)
  BY CatalogIsCatalog
<1>2. /\ Len(Ordered(entries)) = Cardinality(entries)
      /\ \A k \in 1 .. Cardinality(entries) : Ordered(entries)[k] \in entries
  BY <1>1, OrderedEntries
<1>3. Cardinality(entries) \in Nat
  BY FS_CardinalityType DEF CatalogOK
<1> QED BY <1>1, <1>2, <1>3 DEF IsSearch, IsCatalog

\* Every tool request gets a result, a refusal included.
LEMMA ExecuteResult ==
  ASSUME CatalogOK, NEW q \in Requests
  PROVE  Execute(q) \in Result
<1>1. q.file \in Nat /\ q.first \in Nat \ {0} /\ q.last \in Nat
  BY ReviewAssumption
<1>2. ASSUME \E e \in entries : e.file = q.file
      PROVE  Read(CHOOSE e \in entries : e.file = q.file, q.first, q.last) \in Result
  <2>1. PICK e \in entries : e = CHOOSE d \in entries : d.file = q.file
    BY <1>2
  <2>2. IsEntry(e)
    BY CatalogIsCatalog DEF IsCatalog
  <2> QED BY <1>1, <2>1, <2>2, ReadResult
<1>3. ASSUME q.file > 0 PROVE Search(Ordered(entries), <<q.file, q.first>>) \in Result
  BY <1>1, <1>3, CatalogIsSearched, SearchResult
<1>4. [ok |-> TRUE, truncated |-> FALSE, cites |-> {}, size |-> 1] \in Result /\ Refused \in Result
  BY DEF Refused, Result
<1> QED BY <1>2, <1>3, <1>4 DEF Execute

(* Only capturing and binding change the catalog, only an edit the disk.   *)

\* Once bound, the catalog is changed by no step of a review.
LEMMA OthersKeepCatalog ==
  ASSUME ReviewStep, ~Capture, ~Bind
  PROVE  UNCHANGED <<catalog, files>>
<1>1. CASE StartStage
  BY <1>1 DEF StartStage, catalog, files
<1>2. ASSUME NEW ok \in BOOLEAN, Narrate(ok) PROVE UNCHANGED <<catalog, files>>
  BY <1>2 DEF Narrate, catalog, files
<1>3. CASE PromptLimit
  BY <1>3 DEF PromptLimit, catalog, files
<1>4. CASE TurnFails("invalid_response")
  BY <1>4 DEF TurnFails, catalog, files
<1>5. ASSUME NEW c \in Cites, TurnFinal(c) PROVE UNCHANGED <<catalog, files>>
  BY <1>5 DEF TurnFinal, catalog, files
<1>6. ASSUME NEW b \in Batches, TurnTools(b) PROVE UNCHANGED <<catalog, files>>
  BY <1>6 DEF TurnTools, catalog, files
<1>7. CASE StageTool
  BY <1>7 DEF StageTool, catalog, files
<1>8. CASE NextStage
  BY <1>8 DEF NextStage, catalog, files
<1>9. CASE FinishRun
  BY <1>9 DEF FinishRun, catalog, files
<1>10. CASE AskPromptLimit
  BY <1>10 DEF AskPromptLimit, FindingKeeps, catalog, files
<1>11. ASSUME NEW code, AskFails(code) PROVE UNCHANGED <<catalog, files>>
  BY <1>11 DEF AskFails, FindingKeeps, catalog, files
<1>12. ASSUME NEW v, NEW c, AskAnswers(v, c) PROVE UNCHANGED <<catalog, files>>
  BY <1>12 DEF AskAnswers, FindingKeeps, catalog, files
<1>13. ASSUME NEW b \in Batches, AskTools(b) PROVE UNCHANGED <<catalog, files>>
  BY <1>13 DEF AskTools, FindingKeeps, catalog, files
<1>14. CASE FindingTool
  BY <1>14 DEF FindingTool, FindingKeeps, catalog, files
<1>15. CASE RoundEnds
  BY <1>15 DEF RoundEnds, FindingKeeps, catalog, files
<1>16. ASSUME NEW v, NEW c, NEW more, LastAnswer(v, c, more) PROVE UNCHANGED <<catalog, files>>
  BY <1>16 DEF LastAnswer, FindingKeeps, catalog, files
<1>17. ASSUME NEW x, Decide(x) PROVE UNCHANGED <<catalog, files>>
  BY <1>17 DEF Decide, catalog, files
<1> QED BY <1>1, <1>2, <1>3, <1>4, <1>5, <1>6, <1>7, <1>8, <1>9, <1>10, <1>11, <1>12, <1>13, <1>14,
           <1>15, <1>16, <1>17 DEF ReviewStep

\* Capture admits a file only as it was parsed, within the limits.
LEMMA CaptureKeepsCatalog ==
  ASSUME CatalogOK, DiskOK, Capture
  PROVE  CatalogOK'
<1> DEFINE f == Least(todo)
<1>1. todo \in SUBSET Nat /\ todo # {} /\ todo \subseteq Files
  BY VersionsAreText DEF CatalogOK, Capture
<1>2. f \in todo /\ f \in DOMAIN parsed /\ f \in Files
  BY <1>1, LeastIsLeast DEF CatalogOK
<1>3. UNCHANGED <<parsed, scan>> /\ todo' = todo \ {f}
  BY DEF Capture
<1>4. entries' = IF WhyNotAdmitted(f) = {} THEN entries \cup {Admitted(f)} ELSE entries
  BY DEF Capture
<1> HIDE DEF f
<1>5. ASSUME WhyNotAdmitted(f) = {}
      PROVE  /\ Admitted(f) = AsParsed(f) /\ ~(Cardinality(entries) >= MaxSourceFiles)
             /\ FileSize(AsParsed(f)) <= MaxFileSize
  <2>1. /\ ~(Cardinality(entries) >= MaxSourceFiles) /\ disk[f] = parsed[f]
        /\ ~(FileSize(Admitted(f)) > MaxFileSize)
    BY <1>5 DEF WhyNotAdmitted
  <2>2. Admitted(f) = AsParsed(f)
    BY <2>1 DEF Admitted, AsParsed
  <2>3. AsParsed(f).lines \in Lines
    BY <1>2, VersionsAreText DEF AsParsed, CatalogOK
  <2>4. FileSize(AsParsed(f)) \in Nat
    BY <2>3, FileSizeIsNatural
  <2> QED BY <2>1, <2>2, <2>4, ReviewAssumption
<1>6. IsFiniteSet(entries) /\ Cardinality(entries) \in Nat /\ Cardinality(entries) <= MaxSourceFiles
  BY FS_CardinalityType DEF CatalogOK
<1>7. IsFiniteSet(entries') /\ Cardinality(entries') <= MaxSourceFiles
  <2>1. CASE WhyNotAdmitted(f) = {}
    <3>1. /\ IsFiniteSet(entries \cup {Admitted(f)})
          /\ Cardinality(entries \cup {Admitted(f)}) <= Cardinality(entries) + 1
      BY <1>6, FS_AddElement
    <3>2. Cardinality(entries \cup {Admitted(f)}) \in Nat
      BY <3>1, FS_CardinalityType
    <3> QED BY <1>4, <1>5, <1>6, <2>1, <3>1, <3>2, ReviewAssumption
  <2>2. CASE WhyNotAdmitted(f) # {}
    BY <1>4, <1>6, <2>2
  <2> QED BY <2>1, <2>2
<1>8. ASSUME NEW e \in entries'
      PROVE  e.file \in DOMAIN parsed /\ e = AsParsed(e.file) /\ FileSize(e) <= MaxFileSize
  <2>1. CASE e \in entries
    BY <2>1 DEF CatalogOK
  <2>2. CASE e \notin entries
    <3>1. e = AsParsed(f) /\ FileSize(e) <= MaxFileSize
      BY <1>4, <1>5, <2>2
    <3>2. e.file = f
      BY <3>1 DEF AsParsed
    <3> QED BY <1>2, <3>1, <3>2
  <2> QED BY <2>1, <2>2
<1>9. \A g : AsParsed(g)' = AsParsed(g)
  BY <1>3 DEF AsParsed
<1> QED BY <1>3, <1>7, <1>8, <1>9 DEF CatalogOK

\* Binding to the reviewed scan only takes entries away.
LEMMA BindKeepsCatalog ==
  ASSUME CatalogOK, Bind
  PROVE  CatalogOK'
<1>1. UNCHANGED <<parsed, scan, todo>> /\ entries' \subseteq entries
  BY DEF Bind, Bound, files
<1>2. IsFiniteSet(entries') /\ Cardinality(entries') <= Cardinality(entries)
  BY <1>1, FS_Subset DEF CatalogOK
<1>3. Cardinality(entries') \in Nat /\ Cardinality(entries) \in Nat
  BY <1>2, FS_CardinalityType DEF CatalogOK
<1>4. \A g : AsParsed(g)' = AsParsed(g)
  BY <1>1 DEF AsParsed
<1>5. Cardinality(entries') <= MaxSourceFiles
  BY <1>2, <1>3, ReviewAssumption DEF CatalogOK
<1> QED BY <1>1, <1>2, <1>4, <1>5 DEF CatalogOK

\* The catalog and the files keep their invariant in every step, edits included.
LEMMA CatalogStep ==
  ASSUME CatalogOK, DiskOK, [Next]_vars
  PROVE  CatalogOK' /\ DiskOK'
<1>1. ASSUME UNCHANGED <<catalog, files>> PROVE CatalogOK' /\ DiskOK'
  <2>1. UNCHANGED <<parsed, scan, entries, todo, disk>>
    BY <1>1 DEF catalog, files
  <2> QED BY <2>1 DEF CatalogOK, DiskOK, AsParsed
<1>2. CASE Capture
  <2>1. disk' = disk
    BY <1>2 DEF Capture
  <2> QED BY <1>2, <2>1, CaptureKeepsCatalog DEF DiskOK
<1>3. CASE Bind
  <2>1. disk' = disk
    BY <1>3 DEF Bind, files
  <2> QED BY <1>3, <2>1, BindKeepsCatalog DEF DiskOK
<1>4. ASSUME NEW f \in Files, NEW v \in DOMAIN Text[f] \cup {0}, Edit(f, v)
      PROVE  CatalogOK' /\ DiskOK'
  <2>1. UNCHANGED <<catalog, todo>> /\ disk' = [disk EXCEPT ![f] = v]
    BY <1>4 DEF Edit
  <2>2. v \in Nat
    <3>1. Text[f] \in Seq(Seq({"plain", "match", "long"}))
      BY ReviewAssumption
    <3>2. DOMAIN Text[f] \subseteq Nat
      BY <3>1
    <3> QED BY <3>2
  <2>3. DiskOK'
    BY <2>1, <2>2 DEF DiskOK
  <2>4. UNCHANGED <<parsed, scan, entries, todo>>
    BY <2>1 DEF catalog
  <2> QED BY <2>3, <2>4 DEF CatalogOK, AsParsed
<1>5. CASE ReviewStep /\ ~Capture /\ ~Bind
  BY <1>1, <1>5, OthersKeepCatalog
<1>6. CASE UNCHANGED vars
  BY <1>1, <1>6 DEF vars
<1> QED BY <1>2, <1>3, <1>4, <1>5, <1>6 DEF Next, Done

(* ------------------------------ the session ---------------------------- *)

\* A review goes through the phases of its own kind.
LEMMA PhasesStep ==
  ASSUME Phases, [Next]_vars
  PROVE  Phases'
<1>1. CASE Capture
  BY <1>1 DEF Capture, Phases, catalog, files, session, outcome
<1>2. CASE Bind
  BY <1>2 DEF Bind, Phases, catalog, files, session, outcome
<1>3. CASE StartStage
  BY <1>3 DEF StartStage, NoSession, Phases, catalog, files, session, outcome
<1>4. ASSUME NEW ok \in BOOLEAN, Narrate(ok) PROVE Phases'
  BY <1>4 DEF Narrate, Close, Phases, catalog, files, session, outcome
<1>5. CASE PromptLimit
  BY <1>5 DEF PromptLimit, Close, Asks, Phases, catalog, files, session, outcome
<1>6. CASE TurnFails("invalid_response")
  BY <1>6 DEF TurnFails, Close, Asks, Phases, catalog, files, session, outcome
<1>7. ASSUME NEW c \in Cites, TurnFinal(c) PROVE Phases'
  BY <1>7 DEF TurnFinal, Close, Asks, Phases, catalog, files, session, outcome
<1>8. ASSUME NEW b \in Batches, TurnTools(b) PROVE Phases'
  BY <1>8 DEF TurnTools, Close, Asks, Phases, catalog, files, session, outcome
<1>9. CASE StageTool
  BY <1>9 DEF StageTool, Close, Phases, catalog, files, session, outcome
<1>10. CASE NextStage
  BY <1>10 DEF NextStage, NoSession, Phases, catalog, files, session, outcome
<1>11. CASE FinishRun
  BY <1>11 DEF FinishRun, Phases, catalog, files, session, outcome
<1>12. CASE AskPromptLimit
  BY <1>12 DEF AskPromptLimit, Leave, Stops, FindingKeeps, Phases, catalog, files, session, outcome
<1>13. ASSUME NEW code \in {"model_error", "invalid_response"}, AskFails(code) PROVE Phases'
  BY <1>13 DEF AskFails, Leave, Stops, FindingKeeps, Phases, catalog, files, session, outcome
<1>14. ASSUME NEW v \in {"positive", "none"}, NEW c \in Cites, AskAnswers(v, c) PROVE Phases'
  BY <1>14 DEF AskAnswers, Asks, FindingKeeps, Phases, catalog, files, session, outcome
<1>15. ASSUME NEW b \in Batches, AskTools(b) PROVE Phases'
  BY <1>15 DEF AskTools, Asks, FindingKeeps, Phases, catalog, files, session, outcome
<1>16. CASE FindingTool
  BY <1>16 DEF FindingTool, FindingKeeps, Phases, catalog, files, session, outcome
<1>17. CASE RoundEnds
  BY <1>17 DEF RoundEnds, Leave, Stops, FindingKeeps, Phases, catalog, files, session, outcome
<1>18. ASSUME NEW v \in {"positive", "none"}, NEW c \in Cites, NEW more \in BOOLEAN, LastAnswer(v, c, more)
       PROVE  Phases'
  BY <1>18 DEF LastAnswer, FindingKeeps, Phases, catalog, files, session, outcome
<1>19. ASSUME NEW x \in Findings, Decide(x) PROVE Phases'
  BY <1>19 DEF Decide, Phases, catalog, files, session, outcome
<1>20. ASSUME NEW f \in Files, NEW v \in DOMAIN Text[f] \cup {0}, Edit(f, v) PROVE Phases'
  BY <1>20 DEF Edit, Phases, catalog, files, session, outcome
<1>21. CASE UNCHANGED vars
  BY <1>21 DEF vars, Phases, catalog, files, session, outcome
<1> QED BY <1>1, <1>2, <1>3, <1>4, <1>5, <1>6, <1>7, <1>8, <1>9, <1>10, <1>11, <1>12, <1>13, <1>14,
           <1>15, <1>16, <1>17, <1>18, <1>19, <1>20, <1>21 DEF Next, ReviewStep, Done

\* From the moment of binding, every entry is of the scan under review.
LEMMA BoundStep ==
  ASSUME Phases, IsBound, [Next]_vars
  PROVE  IsBound'
<1>1. CASE Capture
  BY <1>1 DEF Capture, Phases, IsBound, catalog, files, session, outcome
<1>2. CASE Bind
  BY <1>2 DEF Bind, Phases, IsBound, catalog, files, session, outcome, Bound
<1>3. CASE StartStage
  BY <1>3 DEF StartStage, NoSession, Phases, IsBound, catalog, files, session, outcome
<1>4. ASSUME NEW ok \in BOOLEAN, Narrate(ok) PROVE IsBound'
  BY <1>4 DEF Narrate, Close, Phases, IsBound, catalog, files, session, outcome
<1>5. CASE PromptLimit
  BY <1>5 DEF PromptLimit, Close, Asks, Phases, IsBound, catalog, files, session, outcome
<1>6. CASE TurnFails("invalid_response")
  BY <1>6 DEF TurnFails, Close, Asks, Phases, IsBound, catalog, files, session, outcome
<1>7. ASSUME NEW c \in Cites, TurnFinal(c) PROVE IsBound'
  BY <1>7 DEF TurnFinal, Close, Asks, Phases, IsBound, catalog, files, session, outcome
<1>8. ASSUME NEW b \in Batches, TurnTools(b) PROVE IsBound'
  BY <1>8 DEF TurnTools, Close, Asks, Phases, IsBound, catalog, files, session, outcome
<1>9. CASE StageTool
  BY <1>9 DEF StageTool, Close, Phases, IsBound, catalog, files, session, outcome
<1>10. CASE NextStage
  BY <1>10 DEF NextStage, NoSession, Phases, IsBound, catalog, files, session, outcome
<1>11. CASE FinishRun
  BY <1>11 DEF FinishRun, Phases, IsBound, catalog, files, session, outcome
<1>12. CASE AskPromptLimit
  BY <1>12 DEF AskPromptLimit, Leave, Stops, FindingKeeps, Phases, IsBound, catalog, files, session,
     outcome
<1>13. ASSUME NEW code \in {"model_error", "invalid_response"}, AskFails(code) PROVE IsBound'
  BY <1>13 DEF AskFails, Leave, Stops, FindingKeeps, Phases, IsBound, catalog, files, session, outcome
<1>14. ASSUME NEW v \in {"positive", "none"}, NEW c \in Cites, AskAnswers(v, c) PROVE IsBound'
  BY <1>14 DEF AskAnswers, Asks, FindingKeeps, Phases, IsBound, catalog, files, session, outcome
<1>15. ASSUME NEW b \in Batches, AskTools(b) PROVE IsBound'
  BY <1>15 DEF AskTools, Asks, FindingKeeps, Phases, IsBound, catalog, files, session, outcome
<1>16. CASE FindingTool
  BY <1>16 DEF FindingTool, FindingKeeps, Phases, IsBound, catalog, files, session, outcome
<1>17. CASE RoundEnds
  BY <1>17 DEF RoundEnds, Leave, Stops, FindingKeeps, Phases, IsBound, catalog, files, session, outcome
<1>18. ASSUME NEW v \in {"positive", "none"}, NEW c \in Cites, NEW more \in BOOLEAN, LastAnswer(v, c, more)
       PROVE  IsBound'
  BY <1>18 DEF LastAnswer, FindingKeeps, Phases, IsBound, catalog, files, session, outcome
<1>19. ASSUME NEW x \in Findings, Decide(x) PROVE IsBound'
  BY <1>19 DEF Decide, Phases, IsBound, catalog, files, session, outcome
<1>20. ASSUME NEW f \in Files, NEW v \in DOMAIN Text[f] \cup {0}, Edit(f, v) PROVE IsBound'
  BY <1>20 DEF Edit, Phases, IsBound, catalog, files, session, outcome
<1>21. CASE UNCHANGED vars
  BY <1>21 DEF vars, Phases, IsBound, catalog, files, session, outcome
<1> QED BY <1>1, <1>2, <1>3, <1>4, <1>5, <1>6, <1>7, <1>8, <1>9, <1>10, <1>11, <1>12, <1>13, <1>14,
           <1>15, <1>16, <1>17, <1>18, <1>19, <1>20, <1>21 DEF Next, ReviewStep, Done

CountTypes == round \in Nat \ {0} /\ modelCalls \in Nat /\ toolCalls \in Nat /\ evidence \in Nat

\* Each round makes at most one call; a finding may add a last one.
LEMMA CallsStep ==
  ASSUME Phases, SessionTypes, CallsCounted, [Next]_vars
  PROVE  CallsCounted'
<1>a. Phases /\ CallsCounted /\ CountTypes /\ MaxRounds \in Nat \ {0}
  BY ReviewAssumption DEF SessionTypes, CountTypes
<1>1. CASE Capture
  BY <1>1, <1>a DEF Capture, Phases, CallsCounted, CountTypes, catalog, files, session, outcome
<1>2. CASE Bind
  <2>1. UNCHANGED <<round, modelCalls, loop>> /\ modelCalls = 0 /\ pc' \in {"stage", "ask"}
    BY <1>2, <1>a DEF Bind, CallsCounted, session
  <2> QED BY <2>1, <1>a DEF CallsCounted, CountTypes
<1>3. CASE StartStage
  <2>1. round' = 1 /\ modelCalls' = 0 /\ pc' \in {"narrate", "closed", "ask"}
    BY <1>3 DEF StartStage, NoSession
  <2> QED BY <2>1, <1>a DEF CallsCounted, CountTypes
<1>4. ASSUME NEW ok \in BOOLEAN, Narrate(ok) PROVE CallsCounted'
  <2>1. round' = round /\ modelCalls' = 1 /\ pc' = "closed"
    BY <1>4 DEF Narrate, Close
  <2> QED BY <2>1, <1>a DEF CallsCounted, CountTypes
<1>5. CASE PromptLimit
  BY <1>5, <1>a DEF PromptLimit, Close, Asks, Phases, CallsCounted, CountTypes, catalog, files,
     session, outcome
<1>6. CASE TurnFails("invalid_response")
  BY <1>6, <1>a DEF TurnFails, Close, Asks, Phases, CallsCounted, CountTypes, catalog, files,
     session, outcome
<1>7. ASSUME NEW c \in Cites, TurnFinal(c) PROVE CallsCounted'
  BY <1>7, <1>a DEF TurnFinal, Close, Asks, Phases, CallsCounted, CountTypes, catalog, files,
     session, outcome
<1>8. ASSUME NEW b \in Batches, TurnTools(b) PROVE CallsCounted'
  BY <1>8, <1>a DEF TurnTools, Close, Asks, Phases, CallsCounted, CountTypes, catalog, files,
     session, outcome
<1>9. CASE StageTool
  BY <1>9, <1>a DEF StageTool, Close, Phases, CallsCounted, CountTypes, catalog, files, session, outcome
<1>10. CASE NextStage
  <2>1. round' = 1 /\ modelCalls' = 0 /\ pc' = "stage"
    BY <1>10 DEF NextStage, NoSession
  <2> QED BY <2>1, <1>a DEF CallsCounted, CountTypes
<1>11. CASE FinishRun
  BY <1>11, <1>a DEF FinishRun, Phases, CallsCounted, CountTypes, catalog, files, session, outcome
<1>12. CASE AskPromptLimit
  BY <1>12, <1>a DEF AskPromptLimit, Leave, Stops, FindingKeeps, Phases, CallsCounted, CountTypes,
     catalog, files, session, outcome
<1>13. ASSUME NEW code \in {"model_error", "invalid_response"}, AskFails(code) PROVE CallsCounted'
  BY <1>13, <1>a DEF AskFails, Leave, Stops, FindingKeeps, Phases, CallsCounted, CountTypes,
     catalog, files, session, outcome
<1>14. ASSUME NEW v \in {"positive", "none"}, NEW c \in Cites, AskAnswers(v, c) PROVE CallsCounted'
  BY <1>14, <1>a DEF AskAnswers, Asks, FindingKeeps, Phases, CallsCounted, CountTypes, catalog,
     files, session, outcome
<1>15. ASSUME NEW b \in Batches, AskTools(b) PROVE CallsCounted'
  BY <1>15, <1>a DEF AskTools, Asks, FindingKeeps, Phases, CallsCounted, CountTypes, catalog, files,
     session, outcome
<1>16. CASE FindingTool
  BY <1>16, <1>a DEF FindingTool, FindingKeeps, Phases, CallsCounted, CountTypes, catalog, files,
     session, outcome
<1>17. CASE RoundEnds
  BY <1>17, <1>a DEF RoundEnds, Leave, Stops, FindingKeeps, Phases, CallsCounted, CountTypes,
     catalog, files, session, outcome
<1>18. ASSUME NEW v \in {"positive", "none"}, NEW c \in Cites, NEW more \in BOOLEAN, LastAnswer(v, c, more)
       PROVE  CallsCounted'
  BY <1>18, <1>a DEF LastAnswer, FindingKeeps, Phases, CallsCounted, CountTypes, catalog, files,
     session, outcome
<1>19. ASSUME NEW x \in Findings, Decide(x) PROVE CallsCounted'
  BY <1>19, <1>a DEF Decide, Phases, CallsCounted, CountTypes, catalog, files, session, outcome
<1>20. ASSUME NEW f \in Files, NEW v \in DOMAIN Text[f] \cup {0}, Edit(f, v) PROVE CallsCounted'
  BY <1>20, <1>a DEF Edit, Phases, CallsCounted, CountTypes, catalog, files, session, outcome
<1>21. CASE UNCHANGED vars
  BY <1>21 DEF vars, Phases, CallsCounted, CountTypes, catalog, files, session, outcome
<1> QED BY <1>1, <1>2, <1>3, <1>4, <1>5, <1>6, <1>7, <1>8, <1>9, <1>10, <1>11, <1>12, <1>13, <1>14,
           <1>15, <1>16, <1>17, <1>18, <1>19, <1>20, <1>21 DEF Next, ReviewStep, Done

\* Nothing of a stage reaches the next one.
LEMMA FreshStep ==
  ASSUME Phases, Fresh, [Next]_vars
  PROVE  Fresh'
<1>1. CASE Capture
  BY <1>1 DEF Capture, Phases, Fresh, catalog, files, session, outcome
<1>2. CASE Bind
  BY <1>2 DEF Bind, Phases, Fresh, catalog, files, session, outcome
<1>3. CASE StartStage
  BY <1>3 DEF StartStage, NoSession, Phases, Fresh, catalog, files, session, outcome
<1>4. ASSUME NEW ok \in BOOLEAN, Narrate(ok) PROVE Fresh'
  BY <1>4 DEF Narrate, Close, Phases, Fresh, catalog, files, session, outcome
<1>5. CASE PromptLimit
  BY <1>5 DEF PromptLimit, Close, Asks, Phases, Fresh, catalog, files, session, outcome
<1>6. CASE TurnFails("invalid_response")
  BY <1>6 DEF TurnFails, Close, Asks, Phases, Fresh, catalog, files, session, outcome
<1>7. ASSUME NEW c \in Cites, TurnFinal(c) PROVE Fresh'
  BY <1>7 DEF TurnFinal, Close, Asks, Phases, Fresh, catalog, files, session, outcome
<1>8. ASSUME NEW b \in Batches, TurnTools(b) PROVE Fresh'
  BY <1>8 DEF TurnTools, Close, Asks, Phases, Fresh, catalog, files, session, outcome
<1>9. CASE StageTool
  BY <1>9 DEF StageTool, Close, Phases, Fresh, catalog, files, session, outcome
<1>10. CASE NextStage
  BY <1>10 DEF NextStage, NoSession, Phases, Fresh, catalog, files, session, outcome
<1>11. CASE FinishRun
  BY <1>11 DEF FinishRun, Phases, Fresh, catalog, files, session, outcome
<1>12. CASE AskPromptLimit
  BY <1>12 DEF AskPromptLimit, Leave, Stops, FindingKeeps, Phases, Fresh, catalog, files, session,
     outcome
<1>13. ASSUME NEW code \in {"model_error", "invalid_response"}, AskFails(code) PROVE Fresh'
  BY <1>13 DEF AskFails, Leave, Stops, FindingKeeps, Phases, Fresh, catalog, files, session, outcome
<1>14. ASSUME NEW v \in {"positive", "none"}, NEW c \in Cites, AskAnswers(v, c) PROVE Fresh'
  BY <1>14 DEF AskAnswers, Asks, FindingKeeps, Phases, Fresh, catalog, files, session, outcome
<1>15. ASSUME NEW b \in Batches, AskTools(b) PROVE Fresh'
  BY <1>15 DEF AskTools, Asks, FindingKeeps, Phases, Fresh, catalog, files, session, outcome
<1>16. CASE FindingTool
  BY <1>16 DEF FindingTool, FindingKeeps, Phases, Fresh, catalog, files, session, outcome
<1>17. CASE RoundEnds
  BY <1>17 DEF RoundEnds, Leave, Stops, FindingKeeps, Phases, Fresh, catalog, files, session, outcome
<1>18. ASSUME NEW v \in {"positive", "none"}, NEW c \in Cites, NEW more \in BOOLEAN, LastAnswer(v, c, more)
       PROVE  Fresh'
  BY <1>18 DEF LastAnswer, FindingKeeps, Phases, Fresh, catalog, files, session, outcome
<1>19. ASSUME NEW x \in Findings, Decide(x) PROVE Fresh'
  BY <1>19 DEF Decide, Phases, Fresh, catalog, files, session, outcome
<1>20. ASSUME NEW f \in Files, NEW v \in DOMAIN Text[f] \cup {0}, Edit(f, v) PROVE Fresh'
  BY <1>20 DEF Edit, Phases, Fresh, catalog, files, session, outcome
<1>21. CASE UNCHANGED vars
  BY <1>21 DEF vars, Phases, Fresh, catalog, files, session, outcome
<1> QED BY <1>1, <1>2, <1>3, <1>4, <1>5, <1>6, <1>7, <1>8, <1>9, <1>10, <1>11, <1>12, <1>13, <1>14,
           <1>15, <1>16, <1>17, <1>18, <1>19, <1>20, <1>21 DEF Next, ReviewStep, Done

\* Taking the first request leaves the others.
LEMMA TakeOne ==
  ASSUME NEW s \in Seq(Requests), s # << >>
  PROVE  Head(s) \in Requests /\ Tail(s) \in Seq(Requests) /\ Len(Tail(s)) = Len(s) - 1
OBVIOUS

\* A result shown is the last one, after those already shown.
LEMMA ShowOne ==
  ASSUME NEW rs \in Seq(ShownResult), NEW x \in ShownResult
  PROVE  /\ Append(rs, x) \in Seq(ShownResult) /\ Len(Append(rs, x)) = Len(rs) + 1
         /\ DOMAIN Append(rs, x) = 1 .. Len(rs) + 1 /\ DOMAIN rs = 1 .. Len(rs) /\ Len(rs) \in Nat
         /\ Append(rs, x)[Len(rs) + 1] = x
         /\ \A i \in 1 .. Len(rs) : Append(rs, x)[i] = rs[i]
OBVIOUS

Over(r) == evidence + r.size > MaxEvidence
Kept(r) == IF Over(r) THEN OverLimit ELSE r
Answered(q) == IF q \in DOMAIN cache THEN cache[q] ELSE Execute(q)
Issuable(r) == {c \in r.cites : ValidCitation(entries, c)}

\* What running a tool changes, in a stage and for a finding.
ToolRuns(q, r) ==
  /\ results' = Append(results, Shown(q, Kept(r)))
  /\ shown' = shown + Kept(r).size
  /\ evidence' = (IF Over(r) THEN evidence ELSE evidence + r.size)
  /\ cache' \in {cache, Stored(q, Kept(r))}
  /\ issued' \in {issued, issued \cup Issuable(Kept(r))}
  /\ (issued' # issued => Kept(r).ok)

\* A stage runs the tool at the head of its requests.
LEMMA StageToolRuns ==
  ASSUME StageTool, NEW q, q = Head(pending)
  PROVE  ToolRuns(q, Answered(q))
BY DEF StageTool, ToolRuns, Answered, Over, Kept, Issuable

\* So does a review of a finding, or it refuses the request and keeps everything.
LEMMA FindingToolRuns ==
  ASSUME FindingTool, NEW q, q = Head(pending)
  PROVE  \/ ToolRuns(q, Answered(q))
         \/ UNCHANGED <<results, shown, evidence, cache, issued>>
BY DEF FindingTool, ToolRuns, Answered, Over, Kept, Issuable

\* What is kept of an answer is a result.
LEMMA KeptResult ==
  ASSUME CatalogOK, SessionTypes, NEW q \in Requests
  PROVE  Answered(q) \in Result /\ Kept(Answered(q)) \in Result
<1>1. Answered(q) \in Result
  BY ExecuteResult DEF Answered, SessionTypes
<1>2. OverLimit \in Result
  BY DEF OverLimit, Result
<1> QED BY <1>1, <1>2 DEF Kept

RunTypes ==
  /\ evidence \in Nat /\ evidence <= MaxEvidence /\ shown \in Nat /\ results \in Seq(ShownResult)
  /\ issued \subseteq Cite /\ \A q \in DOMAIN cache : q \in Requests /\ cache[q] \in Result

\* Running a tool adds one result, and takes back nothing issued or shown.
LEMMA ToolKeepsTypes ==
  ASSUME CatalogOK, SessionTypes, evidence <= MaxEvidence, NEW q \in Requests,
         ToolRuns(q, Answered(q))
  PROVE  /\ RunTypes' /\ issued \subseteq issued' /\ Len(results') = Len(results) + 1
         /\ \A i \in DOMAIN results : i \in DOMAIN results' /\ results'[i] = results[i]
         /\ Len(results) + 1 \in DOMAIN results'
         /\ results'[Len(results) + 1] = Shown(q, Kept(Answered(q)))
         /\ \A i \in DOMAIN results' : i \in DOMAIN results \/ i = Len(results) + 1
<1> DEFINE r == Answered(q)
           kept == Kept(r)
<1>1. r \in Result /\ kept \in Result
  BY KeptResult
<1>2. /\ results' = Append(results, Shown(q, kept)) /\ shown' = shown + kept.size
      /\ evidence' = (IF evidence + r.size > MaxEvidence THEN evidence ELSE evidence + r.size)
      /\ cache' \in {cache, Stored(q, kept)}
      /\ issued' \in {issued, issued \cup Issuable(kept)}
  BY DEF ToolRuns, Over
<1> HIDE DEF r, kept
<1>3. Shown(q, kept) \in ShownResult
  BY <1>1 DEF Shown, ShownResult, Result
<1>4. results \in Seq(ShownResult) /\ shown \in Nat /\ evidence \in Nat /\ issued \subseteq Cite
      /\ \A p \in DOMAIN cache : p \in Requests /\ cache[p] \in Result
  BY DEF SessionTypes
<1>5. r.size \in Nat /\ kept.size \in Nat /\ kept.cites \subseteq Cite /\ MaxEvidence \in Nat
  BY <1>1, ReviewAssumption DEF Result
<1>6. evidence' \in Nat /\ evidence' <= MaxEvidence /\ shown' \in Nat
  BY <1>2, <1>4, <1>5
<1>7. issued' \subseteq Cite /\ issued \subseteq issued'
  BY <1>2, <1>4, <1>5 DEF Issuable
<1>8. \A p \in DOMAIN cache' : p \in Requests /\ cache'[p] \in Result
  BY <1>1, <1>2, <1>4 DEF Stored
<1>9. /\ results' \in Seq(ShownResult) /\ Len(results') = Len(results) + 1
      /\ DOMAIN results' = 1 .. Len(results) + 1 /\ DOMAIN results = 1 .. Len(results) /\ Len(results) \in Nat
      /\ results'[Len(results) + 1] = Shown(q, kept)
      /\ \A i \in 1 .. Len(results) : results'[i] = results[i]
  BY <1>2, <1>3, <1>4, ShowOne
<1>10. RunTypes'
  BY <1>6, <1>7, <1>8, <1>9 DEF RunTypes
<1>11. /\ \A i \in DOMAIN results : i \in DOMAIN results' /\ results'[i] = results[i]
       /\ Len(results) + 1 \in DOMAIN results'
       /\ \A i \in DOMAIN results' : i \in DOMAIN results \/ i = Len(results) + 1
  BY <1>9
<1> QED BY <1>7, <1>9, <1>10, <1>11 DEF r, kept

\* A tool runs only while a request is pending, and takes it.
LEMMA FirstPending ==
  ASSUME SessionTypes, ToolsCounted, StageTool \/ FindingTool
  PROVE  /\ pending # << >> /\ pending \in Seq(Requests) /\ Head(pending) \in Requests
         /\ pending' = Tail(pending) /\ Tail(pending) \in Seq(Requests)
         /\ Len(pending') = Len(pending) - 1 /\ Len(pending) \in Nat
<1>1. pending # << >> /\ pending' = Tail(pending)
  BY DEF ToolsCounted, StageTool, FindingTool
<1>2. pending \in Seq(Requests)
  BY DEF SessionTypes
<1> QED BY <1>1, <1>2, TakeOne

\* A turn's requests, cut to what is left.
LEMMA CutRequests ==
  ASSUME NEW b \in Batches, NEW n \in Nat
  PROVE  LET cut == IF Len(b) > n THEN SubSeq(b, 1, n) ELSE b
         IN  cut \in Seq(Requests) /\ Len(cut) <= n /\ Len(cut) \in Nat
<1>1. b \in Seq(Requests) /\ Len(b) \in Nat
  BY ReviewAssumption
<1>2. CASE Len(b) > n
  <2>1. SubSeq(b, 1, n) \in Seq(Requests) /\ Len(SubSeq(b, 1, n)) = n
    BY <1>1, <1>2
  <2> QED BY <1>2, <2>1
<1>3. CASE ~(Len(b) > n)
  BY <1>1, <1>3
<1> QED BY <1>2, <1>3

\* A new session is a session.
LEMMA FreshSession ==
  ASSUME NoSession
  PROVE  SessionTypes'
BY DEF NoSession, SessionTypes

\* The session keeps its types in every step.
LEMMA SessionStep ==
  ASSUME Types, ToolsCounted, [Next]_vars
  PROVE  SessionTypes'
<1>a. Types /\ CatalogOK /\ SessionTypes /\ ToolsCounted
  BY DEF Types
<1>b. SessionTypes
  BY DEF Types
<1>1. CASE Capture
  BY <1>1, <1>b DEF Capture, SessionTypes, session, outcome
<1>2. CASE Bind
  BY <1>2, <1>b DEF Bind, SessionTypes, session, outcome
<1>3. CASE StartStage
  BY <1>3, FreshSession DEF StartStage
<1>4. ASSUME NEW ok \in BOOLEAN, Narrate(ok) PROVE SessionTypes'
  BY <1>4, <1>a DEF Narrate, SessionTypes
<1>5. CASE PromptLimit
  BY <1>5, <1>b DEF PromptLimit, Close, Asks, SessionTypes, session, outcome
<1>6. CASE TurnFails("invalid_response")
  BY <1>6, <1>b DEF TurnFails, Close, Asks, SessionTypes, session, outcome
<1>7. ASSUME NEW c \in Cites, TurnFinal(c) PROVE SessionTypes'
  BY <1>7, <1>b DEF TurnFinal, Close, Asks, SessionTypes, session, outcome
<1>8. ASSUME NEW b \in Batches, TurnTools(b) PROVE SessionTypes'
  <2>1. /\ UNCHANGED <<round, toolCalls, evidence, shown, results, issued, cited, cache>>
        /\ modelCalls' = modelCalls + 1 /\ pending' \in {pending, b}
    BY <1>8 DEF TurnTools, Close
  <2>2. b \in Seq(Requests)
    BY ReviewAssumption
  <2> QED BY <1>a, <2>1, <2>2 DEF SessionTypes
<1>9. CASE StageTool
  <2> DEFINE q == Head(pending)
  <2>1. q \in Requests /\ pending' \in Seq(Requests)
    BY <1>9, <1>a, FirstPending
  <2>2. ToolRuns(q, Answered(q))
    BY <1>9, StageToolRuns
  <2>3. /\ toolCalls' \in {toolCalls, toolCalls + 1} /\ UNCHANGED <<modelCalls, cited>>
        /\ round' \in {round, round + 1}
    BY <1>9 DEF StageTool, Close
  <2> HIDE DEF q
  <2>4. ASSUME ToolRuns(q, Answered(q)) PROVE RunTypes' /\ issued \subseteq issued'
    BY <1>a, <2>1, <2>4, ToolKeepsTypes DEF ToolsCounted, Types
  <2> QED BY <1>a, <2>1, <2>2, <2>3, <2>4 DEF SessionTypes, RunTypes
<1>10. CASE NextStage
  BY <1>10, FreshSession DEF NextStage
<1>11. CASE FinishRun
  BY <1>11, <1>b DEF FinishRun, SessionTypes, session, outcome
<1>12. CASE AskPromptLimit
  BY <1>12, <1>b DEF AskPromptLimit, Leave, Stops, FindingKeeps, SessionTypes, session, outcome
<1>13. ASSUME NEW code \in {"model_error", "invalid_response"}, AskFails(code) PROVE SessionTypes'
  BY <1>13, <1>b DEF AskFails, Leave, Stops, FindingKeeps, SessionTypes, session, outcome
<1>14. ASSUME NEW v \in {"positive", "none"}, NEW c \in Cites, AskAnswers(v, c) PROVE SessionTypes'
  BY <1>14, <1>b DEF AskAnswers, Asks, FindingKeeps, SessionTypes, session, outcome
<1>15. ASSUME NEW b \in Batches, AskTools(b) PROVE SessionTypes'
  <2>1. /\ UNCHANGED <<round, toolCalls, evidence, shown, results, issued, cited, cache>>
        /\ modelCalls' = modelCalls + 1
        /\ pending' = IF Len(b) > MaxToolCalls - toolCalls THEN SubSeq(b, 1, MaxToolCalls - toolCalls) ELSE b
    BY <1>15 DEF AskTools, FindingKeeps
  <2>2. MaxToolCalls - toolCalls \in Nat
    <3>1. toolCalls + Len(pending) <= MaxToolCalls /\ pending \in Seq(Requests) /\ toolCalls \in Nat
      BY <1>15, <1>a DEF ToolsCounted, SessionTypes, Types, Phases, AskTools, Asks
    <3>2. Len(pending) \in Nat /\ MaxToolCalls \in Nat
      BY <3>1, ReviewAssumption
    <3> QED BY <3>1, <3>2
  <2>3. pending' \in Seq(Requests)
    BY <2>1, <2>2, CutRequests
  <2> QED BY <1>a, <2>1, <2>3 DEF SessionTypes
<1>16. CASE FindingTool
  <2> DEFINE q == Head(pending)
  <2>1. q \in Requests /\ pending' \in Seq(Requests)
    BY <1>16, <1>a, FirstPending
  <2>2. ToolRuns(q, Answered(q)) \/ UNCHANGED <<results, shown, evidence, cache, issued>>
    BY <1>16, FindingToolRuns
  <2>3. toolCalls' = toolCalls + 1 /\ UNCHANGED <<modelCalls, cited, round>>
    BY <1>16 DEF FindingTool, FindingKeeps
  <2> HIDE DEF q
  <2>4. ASSUME ToolRuns(q, Answered(q)) PROVE RunTypes' /\ issued \subseteq issued'
    BY <1>a, <2>1, <2>4, ToolKeepsTypes DEF ToolsCounted, Types
  <2> QED BY <1>a, <2>1, <2>2, <2>3, <2>4 DEF SessionTypes, RunTypes
<1>17. CASE RoundEnds
  BY <1>17, <1>b DEF RoundEnds, Leave, Stops, FindingKeeps, SessionTypes, session, outcome
<1>18. ASSUME NEW v \in {"positive", "none"}, NEW c \in Cites, NEW more \in BOOLEAN, LastAnswer(v, c, more)
       PROVE  SessionTypes'
  BY <1>18, <1>b DEF LastAnswer, FindingKeeps, SessionTypes, session, outcome
<1>19. ASSUME NEW x \in Findings, Decide(x) PROVE SessionTypes'
  BY <1>19, <1>b DEF Decide, SessionTypes, session, outcome
<1>20. ASSUME NEW f \in Files, NEW v \in DOMAIN Text[f] \cup {0}, Edit(f, v) PROVE SessionTypes'
  BY <1>20, <1>b DEF Edit, SessionTypes, session, outcome
<1>21. CASE UNCHANGED vars
  BY <1>21, <1>b DEF vars, SessionTypes, session, outcome
<1> QED BY <1>1, <1>2, <1>3, <1>4, <1>5, <1>6, <1>7, <1>8, <1>9, <1>10, <1>11, <1>12, <1>13, <1>14,
           <1>15, <1>16, <1>17, <1>18, <1>19, <1>20, <1>21 DEF Next, ReviewStep, Done

\* A new session has requested nothing.
LEMMA FreshTools ==
  ASSUME NoSession, loop' = loop, pc' # "tools"
  PROVE  ToolsCounted'
<1>1. toolCalls' = 0 /\ results' = << >> /\ pending' = << >> /\ evidence' = 0
  BY DEF NoSession
<1>2. Len(results') = 0 /\ Len(pending') = 0
  BY <1>1
<1>3. MaxToolCalls \in Nat /\ MaxEvidence \in Nat
  BY ReviewAssumption
<1> QED BY <1>1, <1>2, <1>3 DEF ToolsCounted

\* Tools requested, shown and pending stay within the limit of a review.
LEMMA ToolsStep ==
  ASSUME Types, ToolsCounted, [Next]_vars
  PROVE  ToolsCounted'
<1>a. Types /\ CatalogOK /\ SessionTypes /\ ToolsCounted
  BY DEF Types
<1>b. /\ toolCalls \in Nat /\ Len(results) \in Nat /\ Len(pending) \in Nat /\ evidence \in Nat
      /\ MaxToolCalls \in Nat /\ MaxEvidence \in Nat /\ Len(<< >>) = 0 /\ ToolsCounted /\ Phases
  <2>1. MaxToolCalls \in Nat /\ MaxEvidence \in Nat
    BY ReviewAssumption
  <2>2. results \in Seq(ShownResult) /\ pending \in Seq(Requests) /\ toolCalls \in Nat /\ evidence \in Nat
    BY <1>a DEF SessionTypes
  <2>3. Len(results) \in Nat /\ Len(pending) \in Nat
    BY <2>2
  <2>4. Len(<< >>) = 0
    OBVIOUS
  <2> QED BY <1>a, <2>1, <2>2, <2>3, <2>4 DEF Types
<1>1. CASE Capture
  BY <1>1, <1>b DEF Capture, ToolsCounted, Phases, session, outcome, catalog, files
<1>2. CASE Bind
  BY <1>2, <1>b DEF Bind, ToolsCounted, Phases, session, outcome, catalog, files
<1>3. CASE StartStage
  <2>1. NoSession /\ loop' = loop /\ pc' # "tools"
    BY <1>3 DEF StartStage
  <2> QED BY <2>1, FreshTools
<1>4. ASSUME NEW ok \in BOOLEAN, Narrate(ok) PROVE ToolsCounted'
  BY <1>4, <1>b DEF Narrate, Close, ToolsCounted, Phases, session, outcome, catalog, files
<1>5. CASE PromptLimit
  BY <1>5, <1>b DEF PromptLimit, Close, Asks, ToolsCounted, Phases, session, outcome, catalog, files
<1>6. CASE TurnFails("invalid_response")
  BY <1>6, <1>b DEF TurnFails, Close, Asks, ToolsCounted, Phases, session, outcome, catalog, files
<1>7. ASSUME NEW c \in Cites, TurnFinal(c) PROVE ToolsCounted'
  BY <1>7, <1>b DEF TurnFinal, Close, Asks, ToolsCounted, Phases, session, outcome, catalog, files
<1>8. ASSUME NEW b \in Batches, TurnTools(b) PROVE ToolsCounted'
  <2>1. /\ UNCHANGED <<toolCalls, evidence, results, loop>> /\ loop = "stages" /\ pending = << >>
        /\ \/ pc' = "closed" /\ UNCHANGED pending
           \/ pc' = "tools" /\ pending' = b /\ ~(Len(results) + Len(b) > MaxToolCalls)
    BY <1>8, <1>a DEF TurnTools, Close, Asks, ToolsCounted
  <2>2. b \in Seq(Requests) /\ b # << >> /\ Len(b) \in Nat
    BY ReviewAssumption
  <2> QED BY <1>b, <2>1, <2>2 DEF ToolsCounted
<1>9. CASE StageTool
  <2> DEFINE q == Head(pending)
  <2>1. /\ q \in Requests /\ Len(pending') = Len(pending) - 1 /\ Len(pending) \in Nat
        /\ pending' = Tail(pending) /\ pending # << >> /\ pending \in Seq(Requests)
    BY <1>9, <1>a, FirstPending
  <2>2. ToolRuns(q, Answered(q))
    BY <1>9, StageToolRuns
  <2>3. /\ toolCalls' \in {toolCalls, toolCalls + 1} /\ loop' = loop /\ loop = "stages"
        /\ pc' = "closed" \/ (pc' = "ask" /\ Len(pending) = 1) \/ (pc' = "tools" /\ Len(pending) # 1)
    BY <1>9 DEF StageTool, Close
  <2> HIDE DEF q
  <2>4. Len(results') = Len(results) + 1 /\ evidence' <= MaxEvidence
    BY <1>a, <2>1, <2>2, ToolKeepsTypes DEF ToolsCounted, RunTypes
  <2>5. /\ Len(pending) = 1 => pending' = << >>
        /\ Len(pending) # 1 => pending' # << >>
    BY <2>1
  <2> QED BY <1>a, <1>b, <2>1, <2>3, <2>4, <2>5 DEF ToolsCounted
<1>10. CASE NextStage
  <2>1. NoSession /\ loop' = loop /\ pc' # "tools"
    BY <1>10 DEF NextStage
  <2> QED BY <2>1, FreshTools
<1>11. CASE FinishRun
  BY <1>11, <1>b DEF FinishRun, ToolsCounted, Phases, session, outcome, catalog, files
<1>12. CASE AskPromptLimit
  BY <1>12, <1>b DEF AskPromptLimit, Leave, Stops, FindingKeeps, ToolsCounted, Phases, session,
     outcome, catalog, files
<1>13. ASSUME NEW code \in {"model_error", "invalid_response"}, AskFails(code) PROVE ToolsCounted'
  BY <1>13, <1>b DEF AskFails, Leave, Stops, FindingKeeps, ToolsCounted, Phases, session, outcome,
     catalog, files
<1>14. ASSUME NEW v \in {"positive", "none"}, NEW c \in Cites, AskAnswers(v, c) PROVE ToolsCounted'
  BY <1>14, <1>b DEF AskAnswers, Asks, FindingKeeps, ToolsCounted, Phases, session, outcome,
     catalog, files
<1>15. ASSUME NEW b \in Batches, AskTools(b) PROVE ToolsCounted'
  <2>1. /\ UNCHANGED <<toolCalls, evidence, results, loop>> /\ loop = "finding" /\ pc' = "tools"
        /\ pending = << >> /\ toolCalls + Len(pending) <= MaxToolCalls /\ Len(results) <= toolCalls
        /\ pending' = IF Len(b) > MaxToolCalls - toolCalls THEN SubSeq(b, 1, MaxToolCalls - toolCalls) ELSE b
    BY <1>15, <1>a DEF AskTools, FindingKeeps, Asks, ToolsCounted
  <2>2. MaxToolCalls - toolCalls \in Nat
    BY <1>b, <2>1
  <2>3. Len(pending') <= MaxToolCalls - toolCalls /\ Len(pending') \in Nat
    BY <2>1, <2>2, CutRequests
  <2> QED BY <1>b, <2>1, <2>2, <2>3 DEF ToolsCounted
<1>16. CASE FindingTool
  <2> DEFINE q == Head(pending)
  <2>1. /\ q \in Requests /\ Len(pending') = Len(pending) - 1 /\ Len(pending) \in Nat
    BY <1>16, <1>a, FirstPending
  <2>2. ToolRuns(q, Answered(q)) \/ UNCHANGED <<results, shown, evidence, cache, issued>>
    BY <1>16, FindingToolRuns
  <2>3. toolCalls' = toolCalls + 1 /\ UNCHANGED <<loop, pc>> /\ loop = "finding" /\ pc = "tools"
    BY <1>16 DEF FindingTool, FindingKeeps
  <2> HIDE DEF q
  <2>4. Len(results') \in {Len(results), Len(results) + 1} /\ evidence' <= MaxEvidence
    <3>1. CASE ToolRuns(q, Answered(q))
      BY <1>a, <2>1, <3>1, ToolKeepsTypes DEF ToolsCounted, RunTypes
    <3>2. CASE UNCHANGED <<results, shown, evidence, cache, issued>>
      BY <1>a, <3>2 DEF ToolsCounted
    <3> QED BY <2>2, <3>1, <3>2
  <2> QED BY <1>a, <1>b, <2>1, <2>3, <2>4 DEF ToolsCounted
<1>17. CASE RoundEnds
  BY <1>17, <1>b DEF RoundEnds, Leave, Stops, FindingKeeps, ToolsCounted, Phases, session, outcome,
     catalog, files
<1>18. ASSUME NEW v \in {"positive", "none"}, NEW c \in Cites, NEW more \in BOOLEAN, LastAnswer(v, c, more)
       PROVE  ToolsCounted'
  BY <1>18, <1>b DEF LastAnswer, FindingKeeps, ToolsCounted, Phases, session, outcome, catalog, files
<1>19. ASSUME NEW x \in Findings, Decide(x) PROVE ToolsCounted'
  BY <1>19, <1>b DEF Decide, ToolsCounted, Phases, session, outcome, catalog, files
<1>20. ASSUME NEW f \in Files, NEW v \in DOMAIN Text[f] \cup {0}, Edit(f, v) PROVE ToolsCounted'
  BY <1>20, <1>b DEF Edit, ToolsCounted, Phases, session, outcome, catalog, files
<1>21. CASE UNCHANGED vars
  BY <1>21, <1>b DEF vars, ToolsCounted, Phases, session, outcome, catalog, files
<1> QED BY <1>1, <1>2, <1>3, <1>4, <1>5, <1>6, <1>7, <1>8, <1>9, <1>10, <1>11, <1>12, <1>13, <1>14,
           <1>15, <1>16, <1>17, <1>18, <1>19, <1>20, <1>21 DEF Next, ReviewStep, Done

\* What a tool issues was shown by its result.
LEMMA ToolIssues ==
  ASSUME CatalogOK, SessionTypes, ToolsCounted, IssuedOK, NEW q \in Requests,
         ToolRuns(q, Answered(q)), entries' = entries
  PROVE  IssuedOK'
<1> DEFINE kept == Kept(Answered(q))
           last == Len(results) + 1
<1>1. /\ \A i \in DOMAIN results : i \in DOMAIN results' /\ results'[i] = results[i]
      /\ last \in DOMAIN results' /\ results'[last] = Shown(q, kept)
  BY ToolKeepsTypes DEF ToolsCounted
<1>2. issued' \in {issued, issued \cup Issuable(kept)} /\ (issued' # issued => kept.ok)
  BY DEF ToolRuns
<1> HIDE DEF kept, last
<1>3. ASSUME NEW c \in issued'
      PROVE  /\ ValidCitation(entries, c)
             /\ \E i \in DOMAIN results' : results'[i].ok /\ c \in results'[i].cites
  <2>1. CASE c \in issued
    BY <1>1, <2>1 DEF IssuedOK
  <2>2. CASE c \notin issued
    <3>1. c \in Issuable(kept) /\ kept.ok
      BY <1>2, <2>2
    <3>2. c \in kept.cites /\ ValidCitation(entries, c)
      BY <3>1 DEF Issuable
    <3>3. Shown(q, kept).ok = kept.ok /\ Shown(q, kept).cites = kept.cites
      BY DEF Shown
    <3> QED BY <1>1, <3>1, <3>2, <3>3
  <2> QED BY <2>1, <2>2
<1> QED BY <1>3 DEF IssuedOK

\* What is issued was returned by a successful tool, of admitted text.
LEMMA IssuedStep ==
  ASSUME Types, ToolsCounted, Fresh, IssuedOK, [Next]_vars
  PROVE  IssuedOK'
<1>a. CatalogOK /\ SessionTypes /\ ToolsCounted /\ IssuedOK
  BY DEF Types
<1>1. CASE Capture
  <2>1. issued' = {}
    BY <1>1 DEF Capture, Fresh, session
  <2> QED BY <2>1 DEF IssuedOK
<1>2. CASE Bind
  <2>1. issued' = {}
    BY <1>2 DEF Bind, Fresh, session
  <2> QED BY <2>1 DEF IssuedOK
<1>3. CASE StartStage
  <2>1. issued' = {}
    BY <1>3 DEF StartStage, NoSession
  <2> QED BY <2>1 DEF IssuedOK
<1>4. ASSUME NEW ok \in BOOLEAN, Narrate(ok) PROVE IssuedOK'
  <2>1. UNCHANGED <<issued, results, entries>>
    BY <1>4 DEF Narrate, Close, catalog, session
  <2> QED BY <2>1 DEF IssuedOK
<1>5. CASE PromptLimit
  <2>1. UNCHANGED <<issued, results, entries>>
    BY <1>5 DEF PromptLimit, Close, Asks, catalog, session
  <2> QED BY <2>1 DEF IssuedOK
<1>6. CASE TurnFails("invalid_response")
  <2>1. UNCHANGED <<issued, results, entries>>
    BY <1>6 DEF TurnFails, Close, Asks, catalog, session
  <2> QED BY <2>1 DEF IssuedOK
<1>7. ASSUME NEW c \in Cites, TurnFinal(c) PROVE IssuedOK'
  <2>1. UNCHANGED <<issued, results, entries>>
    BY <1>7 DEF TurnFinal, Close, Asks, catalog, session
  <2> QED BY <2>1 DEF IssuedOK
<1>8. ASSUME NEW b \in Batches, TurnTools(b) PROVE IssuedOK'
  <2>1. UNCHANGED <<issued, results, entries>>
    BY <1>8 DEF TurnTools, Close, Asks, catalog, session
  <2> QED BY <2>1 DEF IssuedOK
<1>9. CASE StageTool
  <2> DEFINE q == Head(pending)
  <2>1. q \in Requests /\ entries' = entries
    BY <1>9, <1>a, FirstPending DEF StageTool, catalog
  <2>2. ToolRuns(q, Answered(q))
    BY <1>9, StageToolRuns
  <2> HIDE DEF q
  <2> QED BY <1>a, <2>1, <2>2, ToolIssues
<1>10. CASE NextStage
  <2>1. issued' = {}
    BY <1>10 DEF NextStage, NoSession
  <2> QED BY <2>1 DEF IssuedOK
<1>11. CASE FinishRun
  <2>1. UNCHANGED <<issued, results, entries>>
    BY <1>11 DEF FinishRun, catalog, session
  <2> QED BY <2>1 DEF IssuedOK
<1>12. CASE AskPromptLimit
  <2>1. UNCHANGED <<issued, results, entries>>
    BY <1>12 DEF AskPromptLimit, Leave, Stops, FindingKeeps, catalog, session
  <2> QED BY <2>1 DEF IssuedOK
<1>13. ASSUME NEW code \in {"model_error", "invalid_response"}, AskFails(code) PROVE IssuedOK'
  <2>1. UNCHANGED <<issued, results, entries>>
    BY <1>13 DEF AskFails, Leave, Stops, FindingKeeps, catalog, session
  <2> QED BY <2>1 DEF IssuedOK
<1>14. ASSUME NEW v \in {"positive", "none"}, NEW c \in Cites, AskAnswers(v, c) PROVE IssuedOK'
  <2>1. UNCHANGED <<issued, results, entries>>
    BY <1>14 DEF AskAnswers, Asks, FindingKeeps, catalog, session
  <2> QED BY <2>1 DEF IssuedOK
<1>15. ASSUME NEW b \in Batches, AskTools(b) PROVE IssuedOK'
  <2>1. UNCHANGED <<issued, results, entries>>
    BY <1>15 DEF AskTools, Asks, FindingKeeps, catalog, session
  <2> QED BY <2>1 DEF IssuedOK
<1>16. CASE FindingTool
  <2> DEFINE q == Head(pending)
  <2>1. q \in Requests /\ entries' = entries
    BY <1>16, <1>a, FirstPending DEF FindingTool, FindingKeeps, catalog
  <2>2. ToolRuns(q, Answered(q)) \/ UNCHANGED <<results, shown, evidence, cache, issued>>
    BY <1>16, FindingToolRuns
  <2> HIDE DEF q
  <2>3. CASE ToolRuns(q, Answered(q))
    BY <1>a, <2>1, <2>3, ToolIssues
  <2>4. CASE UNCHANGED <<results, shown, evidence, cache, issued>>
    BY <2>1, <2>4 DEF IssuedOK
  <2> QED BY <2>2, <2>3, <2>4
<1>17. CASE RoundEnds
  <2>1. UNCHANGED <<issued, results, entries>>
    BY <1>17 DEF RoundEnds, Leave, Stops, FindingKeeps, catalog, session
  <2> QED BY <2>1 DEF IssuedOK
<1>18. ASSUME NEW v \in {"positive", "none"}, NEW c \in Cites, NEW more \in BOOLEAN, LastAnswer(v, c, more)
       PROVE  IssuedOK'
  <2>1. UNCHANGED <<issued, results, entries>>
    BY <1>18 DEF LastAnswer, FindingKeeps, catalog, session
  <2> QED BY <2>1 DEF IssuedOK
<1>19. ASSUME NEW x \in Findings, Decide(x) PROVE IssuedOK'
  <2>1. UNCHANGED <<issued, results, entries>>
    BY <1>19 DEF Decide, catalog, session
  <2> QED BY <2>1 DEF IssuedOK
<1>20. ASSUME NEW f \in Files, NEW v \in DOMAIN Text[f] \cup {0}, Edit(f, v) PROVE IssuedOK'
  <2>1. UNCHANGED <<issued, results, entries>>
    BY <1>20 DEF Edit, catalog, session
  <2> QED BY <2>1 DEF IssuedOK
<1>21. CASE UNCHANGED vars
  BY <1>21 DEF vars, IssuedOK, session, catalog
<1> QED BY <1>1, <1>2, <1>3, <1>4, <1>5, <1>6, <1>7, <1>8, <1>9, <1>10, <1>11, <1>12, <1>13, <1>14,
           <1>15, <1>16, <1>17, <1>18, <1>19, <1>20, <1>21 DEF Next, ReviewStep, Done

\* A stage that closes without a gap had whole results of a whole catalog, and cited
\* what it had to cover; a gap downgrades it.
LEMMA StageStep ==
  ASSUME Types, ToolsCounted, StageHolds, [Next]_vars
  PROVE  StageHolds'
<1>a. CatalogOK /\ SessionTypes /\ ToolsCounted /\ StageHolds /\ Phases
  BY DEF Types
<1>1. CASE Capture
  <2>1. UNCHANGED <<loop, pc, statuses>> /\ pc = "capture"
    BY <1>1 DEF Capture
  <2> QED BY <1>a, <2>1 DEF StageHolds
<1>2. CASE Bind
  <2>1. UNCHANGED <<loop, statuses>> /\ (loop = "stages" => pc' = "stage")
    BY <1>2 DEF Bind
  <2> QED BY <1>a, <2>1 DEF StageHolds
<1>3. CASE StartStage
  <2>1. \A r : InitialStatus(r) \in StageStatus /\ Downgrade(InitialStatus(r)) \in StageStatus
               /\ Downgrade(InitialStatus(r)) # "completed"
    BY DEF InitialStatus, Downgrade, StageStatus
  <2>2. /\ UNCHANGED <<loop, statuses, backend, omissions>> /\ results' = << >>
        /\ pc' \in {"closed", "narrate", "ask"} /\ status' \in StageStatus
        /\ backend = "turns" =>
             \/ pc' = "closed" /\ gaps' # {} /\ status' # "completed"
             \/ pc' = "ask" /\ (gaps' = {} => omissions = {})
    BY <1>3, <2>1 DEF StartStage, NoSession, catalog
  <2>3. Whole'
    BY <2>2 DEF Whole
  <2> QED BY <1>a, <2>2, <2>3 DEF StageHolds
<1>4. ASSUME NEW ok \in BOOLEAN, Narrate(ok) PROVE StageHolds'
  <2>1. UNCHANGED <<loop, statuses, backend>> /\ pc' = "closed" /\ backend = "narrative"
        /\ status' \in {status, Downgrade(status)} /\ (loop = "stages" => status \in StageStatus)
    BY <1>4, <1>a DEF Narrate, Close, StageHolds, Phases
  <2> QED BY <1>a, <2>1 DEF StageHolds, Downgrade, StageStatus
<1>5. CASE PromptLimit
  <2>1. /\ UNCHANGED <<loop, statuses, backend>> /\ pc' = "closed" /\ gaps' # {} /\ loop = "stages"
        /\ status' = Downgrade(status) /\ status \in StageStatus
    BY <1>5, <1>a DEF PromptLimit, Close, Asks, StageHolds, Phases
  <2> QED BY <1>a, <2>1 DEF StageHolds, Downgrade, StageStatus
<1>6. CASE TurnFails("invalid_response")
  <2>1. /\ UNCHANGED <<loop, statuses, backend>> /\ pc' = "closed" /\ gaps' # {} /\ loop = "stages"
        /\ status' = Downgrade(status) /\ status \in StageStatus
    BY <1>6, <1>a DEF TurnFails, Close, Asks, StageHolds, Phases
  <2> QED BY <1>a, <2>1 DEF StageHolds, Downgrade, StageStatus
<1>7. ASSUME NEW c \in Cites, TurnFinal(c) PROVE StageHolds'
  <2> DEFINE all == gaps \cup CoverageGaps(cited')
                    \cup (IF c \subseteq issued THEN {} ELSE {"invalid_source_citations"})
                    \cup (IF cited' # {} THEN {} ELSE {"source_citations_required"})
  <2>1. /\ UNCHANGED <<loop, statuses, backend, omissions, results, stage, entries>> /\ pc' = "closed"
        /\ loop = "stages" /\ backend = "turns" /\ pc = "ask" /\ stop' = "final" /\ gaps' = all
        /\ status' = (IF all = {} THEN status ELSE Downgrade(status)) /\ status \in StageStatus
    BY <1>7, <1>a DEF TurnFinal, Close, Asks, StageHolds, Phases, catalog
  <2>2. all = {} => gaps = {} /\ CoverageGaps(cited') = {} /\ cited' # {}
    OBVIOUS
  <2>3. CoverageGaps(cited)' = CoverageGaps(cited')
    BY <2>1 DEF CoverageGaps, FindingLocation
  <2>4. Whole' <=> Whole
    BY <2>1 DEF Whole
  <2> HIDE DEF all
  <2>5. status' \in StageStatus /\ (status' = "completed" => all = {})
    BY <2>1 DEF Downgrade, StageStatus
  <2> QED BY <1>a, <2>1, <2>2, <2>3, <2>4, <2>5 DEF StageHolds
<1>8. ASSUME NEW b \in Batches, TurnTools(b) PROVE StageHolds'
  <2>1. /\ UNCHANGED <<loop, statuses, backend, omissions, results>> /\ loop = "stages" /\ pc = "ask"
        /\ \/ pc' = "closed" /\ gaps' # {} /\ status' = Downgrade(status)
           \/ pc' = "tools" /\ UNCHANGED <<gaps, status>>
    BY <1>8 DEF TurnTools, Close, Asks, catalog
  <2>2. Whole' <=> Whole
    BY <2>1 DEF Whole
  <2> QED BY <1>a, <2>1, <2>2 DEF StageHolds, Downgrade, StageStatus
<1>9. CASE StageTool
  <2> DEFINE q == Head(pending)
           kept == Kept(Answered(q))
  <2>1. q \in Requests
    BY <1>9, <1>a, FirstPending
  <2>2. ToolRuns(q, Answered(q))
    BY <1>9, StageToolRuns
  <2>3. /\ UNCHANGED <<loop, statuses, backend, omissions>> /\ loop = "stages" /\ pc = "tools"
        /\ \/ pc' = "closed" /\ gaps' # {} /\ status' = Downgrade(status)
           \/ pc' \in {"ask", "tools"} /\ status' = status
        /\ gaps' = {} => gaps = {} /\ kept.ok /\ ~kept.truncated
    BY <1>9 DEF StageTool, Close, Kept, Over, Answered, catalog
  <2>4. gaps' = {} => Whole'
    <3>1. /\ \A i \in DOMAIN results : results'[i] = results[i]
          /\ results'[Len(results) + 1] = Shown(q, kept)
          /\ \A i \in DOMAIN results' : i \in DOMAIN results \/ i = Len(results) + 1
      BY <1>a, <2>1, <2>2, ToolKeepsTypes DEF ToolsCounted
    <3> HIDE DEF q, kept
    <3>2. Shown(q, kept).ok = kept.ok /\ Shown(q, kept).truncated = kept.truncated
      BY DEF Shown
    <3>3. gaps = {} => Whole
      BY <1>a, <2>3 DEF StageHolds, Phases
    <3> QED BY <2>3, <3>1, <3>2, <3>3 DEF Whole
  <2> HIDE DEF q, kept
  <2> QED BY <1>a, <2>3, <2>4 DEF StageHolds, Downgrade, StageStatus, Phases
<1>10. CASE NextStage
  <2>1. /\ UNCHANGED <<loop, backend>> /\ loop = "stages" /\ pc' = "stage" /\ status \in StageStatus
        /\ statuses' = Append(statuses, status) /\ statuses \in Seq(StageStatus)
    BY <1>10, <1>a DEF NextStage, StageHolds, Phases
  <2>2. statuses' \in Seq(StageStatus)
    BY <2>1
  <2> QED BY <2>1, <2>2 DEF StageHolds
<1>11. CASE FinishRun
  <2>1. UNCHANGED <<loop, backend, statuses>> /\ pc' = "done" /\ status' = RunStatus
    BY <1>11 DEF FinishRun
  <2>2. RunStatus' = RunStatus
    BY <2>1 DEF RunStatus
  <2> QED BY <1>a, <2>1, <2>2 DEF StageHolds, Phases
<1>12. CASE AskPromptLimit
  <2>1. loop' = loop /\ loop = "finding"
    BY <1>12, <1>a DEF AskPromptLimit, FindingKeeps, Asks, Phases
  <2> QED BY <2>1 DEF StageHolds
<1>13. ASSUME NEW code \in {"model_error", "invalid_response"}, AskFails(code) PROVE StageHolds'
  <2>1. loop' = loop /\ loop = "finding"
    BY <1>13, <1>a DEF AskFails, FindingKeeps, Asks, Phases
  <2> QED BY <2>1 DEF StageHolds
<1>14. ASSUME NEW v \in {"positive", "none"}, NEW c \in Cites, AskAnswers(v, c) PROVE StageHolds'
  <2>1. loop' = loop /\ loop = "finding"
    BY <1>14, <1>a DEF AskAnswers, FindingKeeps, Asks, Phases
  <2> QED BY <2>1 DEF StageHolds
<1>15. ASSUME NEW b \in Batches, AskTools(b) PROVE StageHolds'
  <2>1. loop' = loop /\ loop = "finding"
    BY <1>15, <1>a DEF AskTools, FindingKeeps, Asks, Phases
  <2> QED BY <2>1 DEF StageHolds
<1>16. CASE FindingTool
  <2>1. loop' = loop /\ loop = "finding"
    BY <1>16, <1>a DEF FindingTool, FindingKeeps, Asks, Phases
  <2> QED BY <2>1 DEF StageHolds
<1>17. CASE RoundEnds
  <2>1. loop' = loop /\ loop = "finding"
    BY <1>17, <1>a DEF RoundEnds, FindingKeeps, Asks, Phases
  <2> QED BY <2>1 DEF StageHolds
<1>18. ASSUME NEW v \in {"positive", "none"}, NEW c \in Cites, NEW more \in BOOLEAN, LastAnswer(v, c, more)
       PROVE  StageHolds'
  <2>1. loop' = loop /\ loop = "finding"
    BY <1>18, <1>a DEF LastAnswer, FindingKeeps, Asks, Phases
  <2> QED BY <2>1 DEF StageHolds
<1>19. ASSUME NEW x \in Findings, Decide(x) PROVE StageHolds'
  <2>1. loop' = loop /\ loop = "finding"
    BY <1>19, <1>a DEF Decide, Phases
  <2> QED BY <2>1 DEF StageHolds
<1>20. ASSUME NEW f \in Files, NEW v \in DOMAIN Text[f] \cup {0}, Edit(f, v) PROVE StageHolds'
  <2>1. UNCHANGED <<loop, pc, status, backend, gaps, omissions, results, stop, cited, stage, entries, statuses>>
    BY <1>20 DEF Edit, catalog, session, outcome
  <2> QED BY <1>a, <2>1 DEF StageHolds, Whole, CoverageGaps, FindingLocation, RunStatus
<1>21. CASE UNCHANGED vars
  <2>1. UNCHANGED <<loop, pc, status, backend, gaps, omissions, results, stop, cited, stage, entries, statuses>>
    BY <1>21 DEF vars, catalog, session, outcome
  <2> QED BY <1>a, <2>1 DEF StageHolds, Whole, CoverageGaps, FindingLocation, RunStatus
<1> QED BY <1>1, <1>2, <1>3, <1>4, <1>5, <1>6, <1>7, <1>8, <1>9, <1>10, <1>11, <1>12, <1>13, <1>14,
           <1>15, <1>16, <1>17, <1>18, <1>19, <1>20, <1>21 DEF Next, ReviewStep, Done

\* A finding is decided only by a review that no limit cut short.
LEMMA FindingStep ==
  ASSUME Types, FindingHolds, [Next]_vars
  PROVE  FindingHolds'
<1>a. FindingHolds /\ Phases
  BY DEF Types
<1>1. CASE Capture
  <2>1. UNCHANGED <<loop, verdict, stop, gaps, pc>> /\ pc = "capture"
    BY <1>1 DEF Capture, outcome
  <2> QED BY <1>a, <2>1 DEF FindingHolds
<1>2. CASE Bind
  <2>1. /\ UNCHANGED <<loop, verdict>> /\ pc = "capture"
        /\ gaps' \subseteq {"source_omissions"}
    BY <1>2 DEF Bind
  <2> QED BY <1>a, <2>1 DEF FindingHolds
<1>3. CASE StartStage
  <2>1. loop' = loop /\ loop = "stages" /\ verdict' = verdict
    BY <1>3, <1>a DEF StartStage, Asks, Phases, outcome
  <2> QED BY <1>a, <2>1 DEF FindingHolds
<1>4. ASSUME NEW ok \in BOOLEAN, Narrate(ok) PROVE FindingHolds'
  <2>1. loop' = loop /\ loop = "stages" /\ verdict' = verdict
    BY <1>4, <1>a DEF Narrate, Asks, Phases, outcome
  <2> QED BY <1>a, <2>1 DEF FindingHolds
<1>5. CASE PromptLimit
  <2>1. loop' = loop /\ loop = "stages" /\ verdict' = verdict
    BY <1>5, <1>a DEF PromptLimit, Asks, Phases, outcome
  <2> QED BY <1>a, <2>1 DEF FindingHolds
<1>6. CASE TurnFails("invalid_response")
  <2>1. loop' = loop /\ loop = "stages" /\ verdict' = verdict
    BY <1>6, <1>a DEF TurnFails, Asks, Phases, outcome
  <2> QED BY <1>a, <2>1 DEF FindingHolds
<1>7. ASSUME NEW c \in Cites, TurnFinal(c) PROVE FindingHolds'
  <2>1. loop' = loop /\ loop = "stages" /\ verdict' = verdict
    BY <1>7, <1>a DEF TurnFinal, Asks, Phases, outcome
  <2> QED BY <1>a, <2>1 DEF FindingHolds
<1>8. ASSUME NEW b \in Batches, TurnTools(b) PROVE FindingHolds'
  <2>1. loop' = loop /\ loop = "stages" /\ verdict' = verdict
    BY <1>8, <1>a DEF TurnTools, Asks, Phases, outcome
  <2> QED BY <1>a, <2>1 DEF FindingHolds
<1>9. CASE StageTool
  <2>1. loop' = loop /\ loop = "stages" /\ verdict' = verdict
    BY <1>9, <1>a DEF StageTool, Asks, Phases, outcome
  <2> QED BY <1>a, <2>1 DEF FindingHolds
<1>10. CASE NextStage
  <2>1. loop' = loop /\ loop = "stages" /\ verdict' = verdict
    BY <1>10, <1>a DEF NextStage, Asks, Phases, outcome
  <2> QED BY <1>a, <2>1 DEF FindingHolds
<1>11. CASE FinishRun
  <2>1. loop' = loop /\ loop = "stages" /\ verdict' = verdict
    BY <1>11, <1>a DEF FinishRun, Asks, Phases, outcome
  <2> QED BY <1>a, <2>1 DEF FindingHolds
<1>12. CASE AskPromptLimit
  <2>1. /\ UNCHANGED <<loop, verdict>> /\ loop = "finding" /\ pc # "done"
        /\ stop' = "final_review" => stop = "final_review" /\ gaps' = gaps
    BY <1>12 DEF AskPromptLimit, Leave, Stops, FindingKeeps
  <2>2. verdict # "positive"
    BY <1>a, <2>1 DEF FindingHolds
  <2> QED BY <1>a, <2>1, <2>2 DEF FindingHolds
<1>13. ASSUME NEW code \in {"model_error", "invalid_response"}, AskFails(code) PROVE FindingHolds'
  <2>1. /\ UNCHANGED <<loop, verdict>> /\ loop = "finding" /\ pc # "done"
        /\ stop' = "final_review" => stop = "final_review" /\ gaps' = gaps
    BY <1>13 DEF AskFails, Leave, Stops, FindingKeeps
  <2>2. verdict # "positive"
    BY <1>a, <2>1 DEF FindingHolds
  <2> QED BY <1>a, <2>1, <2>2 DEF FindingHolds
<1>14. ASSUME NEW v \in {"positive", "none"}, NEW c \in Cites, AskAnswers(v, c) PROVE FindingHolds'
  <2>1. /\ UNCHANGED <<loop, verdict>> /\ loop = "finding" /\ pc # "done"
        /\ stop' = "final_review" => stop = "final_review" /\ gaps' = gaps
    BY <1>14 DEF AskAnswers, Asks, FindingKeeps
  <2>2. verdict # "positive"
    BY <1>a, <2>1 DEF FindingHolds
  <2> QED BY <1>a, <2>1, <2>2 DEF FindingHolds
<1>15. ASSUME NEW b \in Batches, AskTools(b) PROVE FindingHolds'
  <2>1. /\ UNCHANGED <<loop, verdict>> /\ loop = "finding" /\ pc # "done"
        /\ stop' = "final_review" => stop = "final_review" /\ gaps' = gaps
    BY <1>15 DEF AskTools, Asks, FindingKeeps
  <2>2. verdict # "positive"
    BY <1>a, <2>1 DEF FindingHolds
  <2> QED BY <1>a, <2>1, <2>2 DEF FindingHolds
<1>16. CASE FindingTool
  <2>1. /\ UNCHANGED <<loop, verdict>> /\ loop = "finding" /\ pc # "done"
        /\ stop' = "final_review" => stop = "final_review" /\ gaps' \subseteq gaps \cup {"tool_error_or_truncation"}
    BY <1>16 DEF FindingTool, FindingKeeps
  <2>2. verdict # "positive"
    BY <1>a, <2>1 DEF FindingHolds
  <2> QED BY <1>a, <2>1, <2>2 DEF FindingHolds
<1>17. CASE RoundEnds
  <2>1. /\ UNCHANGED <<loop, verdict>> /\ loop = "finding" /\ pc # "done"
        /\ stop' = "final_review" => stop = "final_review" /\ gaps' = gaps
    BY <1>17 DEF RoundEnds, Leave, Stops, FindingKeeps
  <2>2. verdict # "positive"
    BY <1>a, <2>1 DEF FindingHolds
  <2> QED BY <1>a, <2>1, <2>2 DEF FindingHolds
<1>18. ASSUME NEW v \in {"positive", "none"}, NEW c \in Cites, NEW more \in BOOLEAN, LastAnswer(v, c, more)
       PROVE  FindingHolds'
  <2>1. /\ UNCHANGED <<loop, verdict>> /\ loop = "finding" /\ pc # "done"
        /\ stop' = "final_review" => stop = "final_review" /\ gaps' = gaps
    BY <1>18 DEF LastAnswer, FindingKeeps
  <2>2. verdict # "positive"
    BY <1>a, <2>1 DEF FindingHolds
  <2> QED BY <1>a, <2>1, <2>2 DEF FindingHolds
<1>19. ASSUME NEW x \in Findings, Decide(x) PROVE FindingHolds'
  <2> DEFINE valid == answer.cites \cap issued
             reason == IF answer.cites \subseteq issued THEN stop ELSE "invalid_citation"
             decided == answer.verdict \in {"positive", "negative"}
  <2>1. /\ UNCHANGED <<loop, entries, results>> /\ pc' = "done" /\ loop = "finding" /\ pc = "decide"
        /\ cited' = valid /\ stop' = reason
        /\ gaps' = gaps \cup (IF reason = "invalid_citation" THEN {"invalid_citation"} ELSE {})
                        \cup (IF decided /\ ~Supported(x, valid) THEN {"unsupported"} ELSE {})
        /\ verdict' = (IF decided /\ Supported(x, valid) /\ reason = "final_review"
                       THEN answer.verdict ELSE "needs_review")
    BY <1>19, <1>a DEF Decide, Phases, catalog, session
  <2>2. reason = "final_review" => stop = "final_review"
    OBVIOUS
  <2> HIDE DEF valid, reason, decided
  <2>3. Supported(x, cited)' <=> Supported(x, valid)
    BY <2>1 DEF Supported, FindingLocation
  <2>4. stop' = "final_review" => {"tool_limit", "round_limit", "invalid_request"} \cap gaps' = {}
    BY <1>a, <2>1, <2>2 DEF FindingHolds
  <2>5. verdict' = "positive" => stop' = "final_review" /\ Supported(x, cited)'
    BY <2>1, <2>3
  <2> QED BY <2>1, <2>4, <2>5 DEF FindingHolds
<1>20. ASSUME NEW f \in Files, NEW v \in DOMAIN Text[f] \cup {0}, Edit(f, v) PROVE FindingHolds'
  <2>1. UNCHANGED <<loop, pc, gaps, results, stop, cited, entries, verdict>>
    BY <1>20 DEF Edit, catalog, session, outcome
  <2> QED BY <1>a, <2>1 DEF FindingHolds, Supported, FindingLocation
<1>21. CASE UNCHANGED vars
  <2>1. UNCHANGED <<loop, pc, gaps, results, stop, cited, entries, verdict>>
    BY <1>21 DEF vars, catalog, session, outcome
  <2> QED BY <1>a, <2>1 DEF FindingHolds, Supported, FindingLocation
<1> QED BY <1>1, <1>2, <1>3, <1>4, <1>5, <1>6, <1>7, <1>8, <1>9, <1>10, <1>11, <1>12, <1>13, <1>14,
           <1>15, <1>16, <1>17, <1>18, <1>19, <1>20, <1>21 DEF Next, ReviewStep, Done

(* ------------------------------- theorems ------------------------------ *)

\* The inductive invariant holds initially ...
LEMMA HoldsInit ==
  ASSUME Init
  PROVE  ReviewHolds
<1>1. /\ scan \in Scans /\ parsed \in Scans /\ todo = DOMAIN parsed /\ entries = {}
      /\ loop \in {"stages", "finding"} /\ (loop = "finding" => parsed = scan)
      /\ backend \in {"none", "narrative", "single", "turns"} /\ (loop = "finding" => backend = "turns")
  BY DEF Init
<1>2. /\ pc = "capture" /\ round = 1 /\ modelCalls = 0 /\ toolCalls = 0 /\ evidence = 0 /\ shown = 0
      /\ issued = {} /\ gaps = {} /\ stop = "" /\ status = "" /\ cited = {} /\ verdict = "none"
  BY DEF Init
<1>3. results = << >> /\ pending = << >> /\ cache = << >> /\ statuses = << >>
  BY DEF Init
<1>4. CatalogOK
  <2>1. IsFiniteSet(entries) /\ Cardinality(entries) = 0
    BY <1>1, FS_EmptySet
  <2>2. MaxSourceFiles \in Nat
    BY ReviewAssumption
  <2>3. Cardinality(entries) <= MaxSourceFiles
    BY <2>1, <2>2
  <2> QED BY <1>1, <2>1, <2>3 DEF CatalogOK
<1>5. DiskOK
  <2>1. parsed \in Scans /\ disk = [f \in Files |-> IF f \in DOMAIN parsed THEN parsed[f] ELSE 0]
    BY DEF Init
  <2>2. ASSUME NEW f \in Files PROVE disk[f] \in Nat /\ (disk[f] # 0 => disk[f] \in DOMAIN Text[f])
    <3>1. CASE f \in DOMAIN parsed
      BY <2>1, <3>1, VersionsAreText, ReviewAssumption
    <3>2. CASE f \notin DOMAIN parsed
      BY <2>1, <3>2
    <3> QED BY <3>1, <3>2
  <2> QED BY <2>1, <2>2 DEF DiskOK
<1>6. SessionTypes
  <2>1. results \in Seq(ShownResult) /\ pending \in Seq(Requests)
    BY <1>3
  <2>2. DOMAIN cache = {}
    BY <1>3
  <2>3. round = 1 /\ modelCalls = 0 /\ toolCalls = 0 /\ evidence = 0 /\ shown = 0
    BY <1>2
  <2>4. issued = {} /\ cited = {}
    BY <1>2
  <2>5. round \in Nat \ {0} /\ modelCalls \in Nat /\ toolCalls \in Nat /\ evidence \in Nat /\ shown \in Nat
    BY <2>3
  <2>6. issued \subseteq Cite /\ cited \subseteq issued
    BY <2>4
  <2> QED BY <2>1, <2>2, <2>5, <2>6 DEF SessionTypes
<1>7. Phases
  BY <1>1, <1>2 DEF Phases
<1>8. IsBound /\ Fresh /\ IssuedOK /\ FindingHolds
  BY <1>1, <1>2, <1>3 DEF IsBound, Fresh, IssuedOK, FindingHolds
<1>9. StageHolds
  <2>1. statuses \in Seq(StageStatus)
    BY <1>3
  <2> QED BY <1>2, <2>1 DEF StageHolds
<1>10. CallsCounted
  <2>1. pc = "capture" /\ round = 1 /\ modelCalls = 0
    BY <1>2
  <2>2. MaxRounds \in Nat /\ MaxRounds > 0
    BY ReviewAssumption
  <2> QED BY <2>1, <2>2 DEF CallsCounted
<1>11. ToolsCounted
  <2>1. Len(results) = 0 /\ Len(pending) = 0 /\ MaxToolCalls \in Nat /\ MaxEvidence \in Nat
    BY <1>3, ReviewAssumption
  <2>2. pc = "capture" /\ pending = << >> /\ toolCalls = 0 /\ evidence = 0
    BY <1>2, <1>3
  <2> QED BY <2>1, <2>2 DEF ToolsCounted
<1> QED BY <1>4, <1>5, <1>6, <1>7, <1>8, <1>9, <1>10, <1>11 DEF ReviewHolds, Types

\* ... and every step keeps it,
LEMMA HoldsStep ==
  ASSUME ReviewHolds, [Next]_vars
  PROVE  ReviewHolds'
<1>1. /\ CatalogOK /\ DiskOK /\ SessionTypes /\ Phases /\ Types /\ IsBound /\ CallsCounted
      /\ ToolsCounted /\ Fresh /\ IssuedOK /\ StageHolds /\ FindingHolds
  BY DEF ReviewHolds, Types
<1>2. CatalogOK' /\ DiskOK'
  BY <1>1, CatalogStep
<1>3. SessionTypes' /\ ToolsCounted'
  BY <1>1, SessionStep, ToolsStep
<1>4. Phases' /\ IsBound' /\ Fresh' /\ CallsCounted'
  BY <1>1, PhasesStep, BoundStep, FreshStep, CallsStep
<1>5. IssuedOK' /\ StageHolds' /\ FindingHolds'
  BY <1>1, IssuedStep, StageStep, FindingStep
<1> QED BY <1>2, <1>3, <1>4, <1>5 DEF ReviewHolds, Types

\* so that it always holds.
LEMMA AlwaysHolds == Spec => []ReviewHolds
<1>1. Init => ReviewHolds
  BY HoldsInit
<1>2. ReviewHolds /\ [Next]_vars => ReviewHolds'
  BY HoldsStep
<1> QED BY <1>1, <1>2, PTL DEF Spec

\* Calls, tool requests and evidence stay within the limits of a review, and
\* what the executor issued names admitted text.
LEMMA HoldsBudgets ==
  ASSUME ReviewHolds
  PROVE  ReviewInvariant
<1>1. modelCalls <= round + (IF loop = "finding" THEN 1 ELSE 0)
  <2>1. CallsCounted /\ Phases /\ round \in Nat /\ modelCalls \in Nat
    BY DEF ReviewHolds, Types, SessionTypes
  <2> QED BY <2>1 DEF CallsCounted, Phases
<1>2. toolCalls <= MaxToolCalls /\ Len(results) + Len(pending) <= MaxToolCalls
  <2>1. /\ ToolsCounted /\ Phases /\ toolCalls \in Nat /\ results \in Seq(ShownResult)
        /\ pending \in Seq(Requests)
    BY DEF ReviewHolds, Types, SessionTypes
  <2>2. Len(results) \in Nat /\ Len(pending) \in Nat /\ MaxToolCalls \in Nat
    BY <2>1, ReviewAssumption
  <2> QED BY <2>1, <2>2 DEF ToolsCounted, Phases
<1> QED BY <1>1, <1>2 DEF ReviewHolds, Types, CatalogOK, SessionTypes, CallsCounted, ToolsCounted,
                          IssuedOK, ReviewInvariant

\* A review makes no more model calls, tool requests and rounds, and uses no more
\* evidence, than its limits allow, whatever the model answers.
THEOREM BudgetsHold == Spec => []ReviewInvariant
BY AlwaysHolds, HoldsBudgets, PTL

\* A citation that was issued is of a file of the reviewed scan, in the version
\* the scan analysed, within its text, and a successful tool returned it.
LEMMA IssuedIsGrounded ==
  ASSUME ReviewHolds, NEW c \in issued
  PROVE  /\ c.file \in DOMAIN scan /\ c.digest = scan[c.file]
         /\ c.last <= Len(Text[c.file][scan[c.file]])
         /\ \E i \in DOMAIN results : results[i].ok /\ c \in results[i].cites
<1>1. ValidCitation(entries, c) /\ \E i \in DOMAIN results : results[i].ok /\ c \in results[i].cites
  BY DEF ReviewHolds, IssuedOK
<1>2. PICK e \in entries : c.last <= Len(e.lines) /\ c = Citation(e, c.first, c.last)
  BY <1>1 DEF ValidCitation
<1>3. c.file = e.file /\ c.digest = e.digest
  BY <1>2 DEF Citation
<1>4. e.file \in DOMAIN parsed /\ e.digest = parsed[e.file] /\ e.lines = Text[e.file][parsed[e.file]]
  <2>1. e.file \in DOMAIN parsed /\ e = AsParsed(e.file)
    BY DEF ReviewHolds, Types, CatalogOK
  <2> QED BY <2>1 DEF AsParsed
<1>5. e.file \in DOMAIN scan /\ e.digest = scan[e.file]
  <2>1. IsBound /\ Fresh /\ Phases
    BY DEF ReviewHolds, Types
  <2>2. CASE loop = "finding"
    BY <1>4, <2>1, <2>2 DEF IsBound
  <2>3. CASE loop = "stages"
    <3>1. backend = "turns" /\ pc # "capture"
      BY <2>1, <2>3 DEF Fresh
    <3> QED BY <2>1, <2>3, <3>1 DEF IsBound
  <2> QED BY <2>1, <2>2, <2>3 DEF Phases
<1> QED BY <1>1, <1>2, <1>3, <1>4, <1>5

\* Every citation a review keeps is one that a successful tool of that review
\* returned, of the very version the reviewed scan analysed.
THEOREM Grounded == Spec => []CitationsAreGrounded
<1>1. ReviewHolds => CitationsAreGrounded
  <2> SUFFICES ASSUME ReviewHolds, NEW c \in cited
      PROVE  /\ c.file \in DOMAIN scan /\ c.digest = scan[c.file]
             /\ c.last <= Len(Text[c.file][scan[c.file]])
             /\ \E i \in DOMAIN results : results[i].ok /\ c \in results[i].cites
    BY DEF CitationsAreGrounded
  <2>1. c \in issued
    BY DEF ReviewHolds, Types, SessionTypes
  <2> QED BY <2>1, IssuedIsGrounded
<1> QED BY <1>1, AlwaysHolds, PTL

\* Nothing is reported as reviewed that was not: a completed stage cited all it
\* had to cover from whole results, a completed run has only completed stages,
\* and a decided finding is covered by what its verdict cites.
THEOREM CompleteReviews == Spec => []CompleteReviewsCover
<1>1. ASSUME ReviewHolds PROVE CompleteReviewsCover
  <2>1. StageHolds /\ FindingHolds /\ Phases /\ Types /\ ToolsCounted
    BY <1>1 DEF ReviewHolds, Types
  <2>2. \A c \in cited : c.digest = scan[c.file]
    BY <1>1, IssuedIsGrounded DEF ReviewHolds, Types, SessionTypes
  <2>3. ASSUME pc = "closed", status = "completed", backend = "turns"
        PROVE  /\ stop = "final" /\ omissions = {} /\ cited # {}
               /\ \A i \in DOMAIN results : results[i].ok /\ ~results[i].truncated
               /\ Roles[stage] \in {"static", "synthesis"} =>
                    \A x \in Findings : \E c \in cited : Covers(c, x) /\ c.digest = scan[c.file]
    <3>1. loop = "stages"
      BY <2>1, <2>3 DEF Phases
    <3>2. gaps = {}
      BY <2>1, <2>3, <3>1 DEF StageHolds
    <3>3. stop = "final" /\ omissions = {} /\ cited # {} /\ Whole /\ CoverageGaps(cited) = {}
      BY <2>1, <2>3, <3>1, <3>2 DEF StageHolds
    <3>4. Roles[stage] \in {"static", "synthesis"} =>
            \A x \in Findings : \E c \in cited : Covers(c, x)
      BY <3>3 DEF CoverageGaps
    <3> QED BY <2>2, <3>3, <3>4 DEF Whole
  <2>4. ASSUME pc = "done", loop = "stages", status = "completed"
        PROVE  \A i \in DOMAIN statuses : statuses[i] = "completed"
    <3>1. status = RunStatus /\ statuses \in Seq(StageStatus)
      BY <2>1, <2>4 DEF StageHolds
    <3> DEFINE held == {statuses[i] : i \in DOMAIN statuses}
    <3>2. "waiting_approval" \notin held /\ "partial" \notin held
      BY <2>4, <3>1 DEF RunStatus
    <3>3. \A i \in DOMAIN statuses : statuses[i] \in StageStatus
      BY <3>1
    <3> QED BY <3>2, <3>3 DEF StageStatus
  <2>5. ASSUME verdict = "positive"
        PROVE  /\ "tool_limit" \notin gaps /\ "round_limit" \notin gaps /\ "invalid_request" \notin gaps
               /\ Len(results) > 0 /\ toolCalls <= MaxToolCalls
               /\ \E x \in Findings, c \in cited : Covers(c, x) /\ c.digest = scan[c.file]
    <3>1. PICK x \in Findings : loop = "finding" /\ stop = "final_review" /\ Supported(x, cited)
      BY <2>1, <2>5 DEF FindingHolds
    <3>2. {"tool_limit", "round_limit", "invalid_request"} \cap gaps = {}
      BY <2>1, <3>1 DEF FindingHolds
    <3>3. (\E i \in DOMAIN results : TRUE) /\ \E c \in cited : Covers(c, x)
      BY <3>1 DEF Supported
    <3>4. Len(results) > 0
      <4>1. results \in Seq(ShownResult)
        BY <2>1 DEF Types, SessionTypes
      <4> QED BY <3>3, <4>1
    <3>5. toolCalls <= MaxToolCalls
      BY <1>1, HoldsBudgets DEF ReviewInvariant
    <3> QED BY <2>2, <3>2, <3>3, <3>4, <3>5
  <2> QED BY <2>3, <2>4, <2>5 DEF CompleteReviewsCover
<1> QED BY <1>1, AlwaysHolds, PTL

\* From wherever it starts, a search page returns or counts every matching line
\* up to the cursor it hands out, and that cursor lies further on.
THEOREM SearchShowsAll == Spec => []SearchMissesNothing
<1>1. ASSUME ReviewHolds PROVE SearchMissesNothing
  <2> SUFFICES ASSUME NEW i \in DOMAIN Ordered(entries), NEW n \in 1 .. 4
      PROVE  PagesLeaveNothingOut(Ordered(entries), <<i, n>>)
    BY DEF SearchMissesNothing
  <2>1. CatalogOK
    BY <1>1 DEF ReviewHolds, Types
  <2>2. IsCatalog(entries)
    BY <2>1, CatalogIsCatalog
  <2>3. /\ i \in 1 .. Cardinality(entries) /\ Len(Ordered(entries)) = Cardinality(entries)
        /\ Cardinality(entries) \in Nat
    BY <2>1, <2>2, OrderedEntries, FS_CardinalityType DEF CatalogOK
  <2>4. i \in Nat \ {0} /\ n \in Nat \ {0} /\ i <= Len(Ordered(entries))
    BY <2>3
  <2>5. IsSearch(Ordered(entries), <<i, n>>) /\ <<i, n>>[1] <= Len(Ordered(entries))
    BY <2>1, <2>4, CatalogIsSearched
  <2> QED BY <2>5, PageIsComplete
<1> QED BY <1>1, AlwaysHolds, PTL
=============================================================================
