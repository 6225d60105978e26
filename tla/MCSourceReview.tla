---------------------------- MODULE MCSourceReview ----------------------------
(***************************************************************************)
(* The instance of SourceReview that TLC checks: two files, a finding in   *)
(* each, two stages of which one must cover the findings.                  *)
(***************************************************************************)
EXTENDS SourceReview

MCText == << << <<"plain", "match", "match">>, <<"match", "plain">> >>,
             << <<"match", "plain">>, <<"match", "long">> >> >>
MCRoles == <<"static", "dynamic">>
MCScans == {<<1, 1>>, <<2, 2>>, <<1>>}
MCFindings == {[file |-> 1, first |-> 2, last |-> 2, traced |-> TRUE],
               [file |-> 2, first |-> 1, last |-> 1, traced |-> TRUE]}
ReadAll == [tool |-> "read", file |-> 1, first |-> 1, last |-> 3]
ReadEnd == [tool |-> "read", file |-> 1, first |-> 2, last |-> 2]
SearchFrom(f, n) == [tool |-> "search", file |-> f, first |-> n, last |-> 0]
Other(t) == [tool |-> t, file |-> 0, first |-> 1, last |-> 0]
MCRequests ==
  {ReadAll, ReadEnd, SearchFrom(1, 1), SearchFrom(2, 1), Other("context"), Other("malformed")}
MCBatches == {<<q>> : q \in MCRequests} \cup {<<ReadEnd, ReadEnd>>, <<SearchFrom(1, 1), SearchFrom(2, 1)>>,
                       <<ReadAll, Other("malformed"), Other("context")>>}
MCInvented == {[file |-> 1, digest |-> 1, first |-> 1, last |-> 3]}
=============================================================================
