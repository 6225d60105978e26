---------------------------- MODULE MCScanEngine ----------------------------
(* Small instances of ScanEngine. *)
EXTENDS ScanEngine

Text(bad, limit, hs) == [kind |-> "text", broken |-> bad, queryLimit |-> limit, hits |-> hs]
Held(k) == [kind |-> k, broken |-> FALSE, queryLimit |-> FALSE, hits |-> {}]
Hit(r, o, l, sev, conf, block, def) ==
  [rule |-> r, order |-> o, line |-> l, severity |-> sev, confidence |-> conf,
   blocking |-> block, taint |-> block, defenses |-> def, sourceless |-> FALSE]

\* One occurrence found twice, blocking and advisory; and a second line.
Twice == Text(FALSE, FALSE, {Hit(1, 1, 1, 1, 9500, FALSE, {}),
                             Hit(1, 2, 1, 1, 9000, TRUE, {"auth", "sanitizer"})})
Many == Text(FALSE, FALSE, {Hit(1, 1, 1, 1, 9500, FALSE, {}), Hit(1, 2, 2, 1, 8000, TRUE, {}),
                            Hit(2, 3, 3, 2, 7000, FALSE, {}), Hit(2, 4, 4, 2, 200, FALSE, {})})
Clean == Text(FALSE, FALSE, {})
Broken == Text(TRUE, FALSE, {})
Deep == Text(FALSE, TRUE, {})

MCContents == {Twice, Many, Clean, Broken, Deep, Held("absent"), Held("unreadable"),
               Held("large"), Held("link")}
Pair(a, b) == [f \in Files |-> CASE f = 1 -> a [] f = 2 -> b [] OTHER -> Held("absent")]
MCTrees == {Pair(Twice, Clean), Pair(Many, Held("absent"))}
MCPathKind == [f \in Files |-> IF f = 3 THEN "unsupported" ELSE "source"]
MCImports == {<<1, 2>>}
MCExternal == {[file |-> 1, confidence |-> 9000,
                hit |-> Hit(3, 9, 9, 1, 9000, FALSE, {})]}
\* Up to two results, each for a finding of a batch of two or for none.
MCAnswers ==
  LET entries == {[idx |-> i, verdict |-> v, fix |-> v = "TRUE_POSITIVE"] :
                    i \in 0..2, v \in {"TRUE_POSITIVE", "FALSE_POSITIVE", "invalid"}}
  IN {<< >>} \cup {<<e>> : e \in entries} \cup {<<d, e>> : d, e \in entries}
=============================================================================
