----------------------------- MODULE SourceTools -----------------------------
(***************************************************************************)
(* The read-only source tools of an AI review: admitted source files, the  *)
(* ranges a read returns, the pages of a search, and the citations they    *)
(* issue.                                                                  *)
(*                                                                         *)
(* A line is "plain", "match" (it holds the query) or "long" (it holds the *)
(* query and is too long to return from a search).  An entry is an         *)
(* admitted file, [file, digest, lines].  SHA-256 is injective, so a       *)
(* citation is the range it names; its excerpt digest follows from it.     *)
(***************************************************************************)
EXTENDS Integers, Sequences, FiniteSets

CONSTANTS MaxReadLines, MaxReadSize,        \* MAX_READ_LINES, MAX_READ_BYTES
          MaxSearchFiles, MaxSearchSize,    \* MAX_SEARCH_FILES, MAX_SEARCH_BYTES
          MaxMatches,                       \* MAX_SEARCH_MATCHES
          MaxOutput                         \* max_output_bytes of the registry

\* The bytes of lines a..b: a long line takes three.
SizeOf(lines, a, b) ==
  Cardinality(a..b) + 2 * Cardinality({n \in a..b : lines[n] = "long"})

FileSize(e) == SizeOf(e.lines, 1, Len(e.lines))

Least(S) == CHOOSE x \in S : \A y \in S : x <= y

Citation(e, a, b) == [file |-> e.file, digest |-> e.digest, first |-> a, last |-> b]

ValidCitation(entries, c) ==
  \E e \in entries :
    /\ 1 <= c.first /\ c.first <= c.last /\ c.last <= Len(e.lines)
    /\ c.last - c.first < MaxReadLines
    /\ c = Citation(e, c.first, c.last)

\* A result: ok, truncated, the citations issued and the bytes it takes.
Refused == [ok |-> FALSE, truncated |-> FALSE, cites |-> {}, size |-> 1]

\* Outputs over the registry's limit keep their size only.
Bounded(r) ==
  IF r.size > MaxOutput
  THEN [ok |-> TRUE, truncated |-> TRUE, cites |-> {}, size |-> 1] ELSE r

\* source_read of lines a to b: whole lines up to both limits.
Read(e, a, b) ==
  LET wanted == IF b < Len(e.lines) THEN b ELSE Len(e.lines)
      fits == {n \in a..wanted : n < a + MaxReadLines /\ SizeOf(e.lines, a, n) <= MaxReadSize}
      last == a + Cardinality(fits) - 1
  IN IF a > Len(e.lines) \/ a > b THEN Refused
     ELSE Bounded([ok |-> TRUE, truncated |-> last < wanted,
                   cites |-> IF fits = {} THEN {} ELSE {Citation(e, a, last)},
                   size |-> 1 + SizeOf(e.lines, a, last)])

NoCursor == <<0, 0>>

Precedes(p, q) == p[1] < q[1] \/ (p[1] = q[1] /\ p[2] < q[2])

\* Mutant of SearchPage: the next cursor is after the line the page stopped at.
SearchPageSkipping(files, from) ==
  LET first(i) == IF i = from[1] THEN from[2] ELSE 1
      places == UNION {{i} \X (first(i)..Len(files[i].lines)) : i \in from[1]..Len(files)}
      hits == {p \in places : files[p[1]].lines[p[2]] = "match"}
      reached == {p \in places : Cardinality({h \in hits : Precedes(h, p)}) < MaxMatches}
      rest == places \ reached
      stopped == CHOOSE p \in rest : \A q \in rest : p = q \/ Precedes(p, q)
  IN [matches |-> hits \cap reached,
      skipped |-> {p \in reached : files[p[1]].lines[p[2]] = "long"},
      next |-> IF rest # {} THEN <<stopped[1], stopped[2] + 1>> ELSE NoCursor]

\* source_search over the files of a prefix from a cursor, a file and a line:
\* the page it returns and the cursor it hands out.
SearchPage(files, from) ==
  LET first(i) == IF i = from[1] THEN from[2] ELSE 1
      spent(i) == Cardinality(UNION {{k} \X (1..FileSize(files[k])) : k \in from[1]..i})
      open == {i \in from[1]..Len(files) :
                 i - from[1] < MaxSearchFiles /\ spent(i) <= MaxSearchSize}
      places == UNION {{i} \X (first(i)..Len(files[i].lines)) : i \in open}
      hits == {p \in places : files[p[1]].lines[p[2]] = "match"}
      reached == {p \in places : Cardinality({h \in hits : Precedes(h, p)}) < MaxMatches}
      rest == places \ reached
      closed == (from[1]..Len(files)) \ open
  IN [matches |-> hits \cap reached,
      skipped |-> {p \in reached : files[p[1]].lines[p[2]] = "long"},
      next |-> IF rest # {} THEN CHOOSE p \in rest : \A q \in rest : p = q \/ Precedes(p, q)
               ELSE IF closed # {} THEN <<Least(closed), first(Least(closed))>>
               ELSE NoCursor]

Search(files, from) ==
  LET page == SearchPage(files, from)
  IN IF files = << >> THEN Refused
     ELSE Bounded([ok |-> TRUE, truncated |-> page.skipped # {},
                   cites |-> {Citation(files[p[1]], p[2], p[2]) : p \in page.matches},
                   size |-> 1 + Cardinality(page.matches)])

\* A page reports or counts as skipped every matching line from its cursor to
\* the next one, and that one lies further on: no page, byte or file limit
\* makes a reader who follows the cursors miss a match.
PagesLeaveNothingOut(files, from) ==
  LET page == SearchPage(files, from)
      passed == {p \in UNION {{i} \X DOMAIN files[i].lines : i \in from[1]..Len(files)} :
                   ~Precedes(p, from) /\ (page.next # NoCursor => Precedes(p, page.next))}
  IN /\ {p \in passed : files[p[1]].lines[p[2]] # "plain"} = page.matches \cup page.skipped
     /\ page.next # NoCursor => Precedes(from, page.next)

=============================================================================
