------------------------------- MODULE MCSql --------------------------------
(***************************************************************************)
(* How the functions of module SqlQueries run, as far as the text of their *)
(* queries goes: a value is tainted when its text holds something that is  *)
(* not written in the source.  Nothing here models code: it is the         *)
(* yardstick.                                                              *)
(***************************************************************************)
EXTENDS SqlQueries

Input == [tainted |-> TRUE, obj |-> 0]
Fixed == [tainted |-> FALSE, obj |-> 0]
IsObject(value) == value.obj # 0

\* m is a state of the machine: variables, objects, how the last statement
\* ended, the queries made, and whether the way here is one of those below that
\* the analyzer is known to leave out.
Start ==
  [env |-> [v \in SqlNames |-> Input], heap |-> <<>>, how |-> "next", queries |-> {}, omitted |-> FALSE]

FieldOf(m, value, f) ==
  IF IsObject(value) /\ f \in DOMAIN m.heap[value.obj] THEN m.heap[value.obj][f] ELSE Input

SetField(m, value, f, x) ==
  [m EXCEPT !.heap[value.obj] = [g \in DOMAIN @ \cup {f} |-> IF g = f THEN x ELSE @[g]]]

RECURSIVE Evaluate(_, _), EvaluateAll(_, _)
\* The outcomes [m, value] of an expression.
EvaluateAll(es, m) ==
  IF es = <<>> THEN {[m |-> m, values |-> <<>>]}
  ELSE UNION {{[m |-> q.m, values |-> <<r.value>> \o q.values] : q \in EvaluateAll(Tail(es), r.m)} :
                r \in Evaluate(Head(es), m)}

Touched(m, values) ==
  {SetField(m, v, f, Input) : <<v, f>> \in
     UNION {{v} \X (DOMAIN m.heap[v.obj]) : v \in {v \in ToSet(values) : IsObject(v)}}}

Evaluate(e, m) ==
  LET Each(es, Of(_)) == {[m |-> r.m, value |-> Of(r.values)] : r \in EvaluateAll(es, m)}
      Mixed(values) == [tainted |-> \E i \in DOMAIN values : values[i].tainted, obj |-> 0]
      names == SetToSeq(DOMAIN e.fields)
  IN  CASE e.kind = "text" -> {[m |-> m, value |-> Fixed]}
        [] e.kind = "name" -> {[m |-> m, value |-> m.env[e.var]]}
        [] e.kind = "plus" -> Each(<<e.left, e.right>>, Mixed)
        [] e.kind = "minus" -> Each(<<e.left, e.right>>, Mixed)
        [] e.kind = "choice" -> (IF e.truth = "false" THEN {} ELSE Evaluate(e.yes, m))
                                \cup (IF e.truth = "true" THEN {} ELSE Evaluate(e.no, m))
        [] e.kind = "object" ->
             {[m |-> [r.m EXCEPT !.heap = Append(@, [f \in DOMAIN e.fields |->
                        r.values[CHOOSE i \in DOMAIN names : names[i] = f]])],
               value |-> [tainted |-> FALSE, obj |-> Len(r.m.heap) + 1]] :
                r \in EvaluateAll([i \in DOMAIN names |-> e.fields[names[i]]], m)}
        [] e.kind = "member" -> {[m |-> m, value |-> FieldOf(m, m.env[e.owner], e.field)]}
        [] e.kind = "format" -> Each(<<e.text>> \o (IF e.holes THEN e.args ELSE <<>>), Mixed)
        [] e.kind = "wrapped" -> Evaluate(e.arg, m)
        [] e.kind = "call" -> UNION {{[m |-> n, value |-> Input] : n \in {r.m}
                                      \cup Touched(r.m, r.values)} :
                                       r \in EvaluateAll(e.args, m)}
        [] OTHER -> {[m |-> m, value |-> Input]}

(* ---- what the analyzer leaves out -------------------------------------------- *)

RECURSIVE Changes(_)
\* The variables some statements change; "heap" where they change an object.
Changes(ss) ==
  UNION {CASE s.kind = "assign" -> (IF s.field = "" THEN {s.var} ELSE {"heap"})
                                   \cup (IF s.right.kind = "call" THEN {"heap"} ELSE {})
           [] s.kind = "augment" -> {s.var}
           [] s.kind = "destructure" -> s.vars
           [] s.kind = "if" -> Changes(s.then) \cup Changes(s.other)
           [] s.kind \in {"loop", "block"} -> Changes(s.body)
           [] s.kind = "switch" -> UNION {Changes(s.cases[i]) : i \in DOMAIN s.cases}
           [] s.kind = "try" -> Changes(s.body) \cup Changes(s.other) \cup Changes(s.final)
                                \cup UNION {Changes(s.handlers[i]) : i \in DOMAIN s.handlers}
           [] OTHER -> {} : s \in ToSet(ss)}

\* An exception between two changes of a variable leaves the middle value.
LosesMiddle(body, i) ==
  Changes(SubSeq(body, 1, i - 1)) \cap Changes(SubSeq(body, i, Len(body))) # {}

\* A value that needs three rounds of a loop to come through.
LongChain(body) ==
  Cardinality({i \in DOMAIN body : body[i].kind = "assign" /\ body[i].right.kind = "name"}) > 1

RECURSIVE Parts(_)
\* The statements with those inside them.
Parts(ss) ==
  UNION {{s} \cup CASE s.kind = "if" -> Parts(s.then) \cup Parts(s.other)
                    [] s.kind \in {"loop", "block"} -> Parts(s.body)
                    [] s.kind = "switch" -> Parts(FlattenSeq(s.cases))
                    [] s.kind = "try" -> Parts(s.body \o FlattenSeq(s.handlers) \o s.other \o s.final)
                    [] OTHER -> {} : s \in ToSet(ss)}

\* An object is changed through a variable that a branch assigns: where the
\* branches leave an object and something else, the analyzer forgets that the
\* variable may hold the object and drops the change.
ForgetsObject(body) ==
  LET changing == {s \in Parts(body) : s.kind = "assign" /\ (s.field # "" \/ s.right.kind = "call")}
      through == {s.var : s \in {s \in changing : s.field # ""}}
                 \cup {n.var : n \in UNION {ToSet(s.right.args) : s \in {s \in changing : s.right.kind = "call"}}}
      choosing == {s \in Parts(body) : s.kind = "assign" /\ s.right.kind = "choice"}
      branched == Changes(SelectSeq(body, LAMBDA s : s.kind \in {"if", "loop", "switch", "try"}))
  IN  through \cap (branched \cup {s.var : s \in choosing}) # {}

(* ---- running ------------------------------------------------------------------ *)

RECURSIVE Exec(_, _), ExecAll(_, _), Iterate(_, _, _)
ExecAll(ss, m) ==
  IF ss = <<>> \/ m.how # "next" THEN {m}
  ELSE UNION {ExecAll(Tail(ss), n) : n \in Exec(Head(ss), m)}

Iterate(body, m, left) ==
  LET rounds == {[n EXCEPT !.omitted = @ \/ (left = 1 /\ LongChain(body))] : n \in {m}}
      after == UNION {ExecAll(body, n) : n \in rounds}
  IN  {m} \cup (IF left = 0 THEN {}
                ELSE {[n EXCEPT !.how = "next"] : n \in {n \in after : n.how = "leave"}}
                     \cup {n \in after : n.how = "raise"}
                     \cup UNION {Iterate(body, n, left - 1) : n \in {n \in after : n.how = "next"}})

Raises(body, m) ==
  {[n EXCEPT !.how = "raise", !.omitted = @ \/ LosesMiddle(body, i)] : <<i, n>> \in
     UNION {{i} \X {n \in ExecAll(SubSeq(body, 1, i - 1), m) : n.how = "next"} : i \in DOMAIN body}}

ExecTry(s, m) ==
  LET raised == Raises(s.body, m)
      fine == UNION {ExecAll(s.other, n) : n \in ExecAll(s.body, m)}
      caught == UNION {ExecAll(s.handlers[i], [n EXCEPT !.how = "next"]) :
                         <<i, n>> \in (DOMAIN s.handlers) \X raised}
      uncaught == IF s.handlers = <<>> THEN {[n EXCEPT !.omitted = TRUE] : n \in raised} ELSE {}
      Finish(n) == {IF f.how = "next" THEN [f EXCEPT !.how = n.how] ELSE f :
                      f \in ExecAll(s.final, [n EXCEPT !.how = "next"])}
  IN  UNION {Finish(n) : n \in fine \cup caught \cup uncaught}

\* Into any case, and on into the next while cases fall through.
ExecSwitch(s, m) ==
  LET EnteredAt(i) == {[n EXCEPT !.how = IF @ = "break" THEN "next" ELSE @] :
                    n \in ExecAll(IF s.falls THEN FlattenSeq(SubSeq(s.cases, i, Len(s.cases)))
                                  ELSE s.cases[i], m)}
  IN  {m} \cup UNION {EnteredAt(i) : i \in DOMAIN s.cases}

Assigned(s, r) ==
  LET held == r.m.env[s.var]
  IN  CASE s.field = "" -> {[r.m EXCEPT !.env[s.var] = r.value]}
        [] s.field # "" /\ ~IsObject(held) -> {r.m}
        [] OTHER -> {SetField(r.m, held, f, r.value) :
                       f \in IF s.field = "?" THEN DOMAIN r.m.heap[held.obj] \cup {"sql"}
                             ELSE {s.field}}

QueryText(m, value) ==
  LET keys == {"sql", "text"} \cap DOMAIN m.heap[value.obj]
  IN  IF ~IsObject(value) THEN value.tainted
      ELSE keys = {} \/ \E k \in keys : m.heap[value.obj][k].tainted

Exec(s, m) ==
  CASE s.kind = "assign" -> UNION {Assigned(s, r) : r \in Evaluate(s.right, m)}
    [] s.kind = "augment" ->
         {[r.m EXCEPT !.env[s.var] = [tainted |-> @.tainted \/ r.value.tainted, obj |-> 0]] : r \in Evaluate(s.right, m)}
    [] s.kind = "destructure" -> {[m EXCEPT !.env = [v \in SqlNames |-> IF v \in s.vars THEN Input
                                                                        ELSE @[v]]]}
    [] s.kind = "query" -> {[r.m EXCEPT !.queries = @
                             \cup {[at |-> s.at, tainted |-> QueryText(r.m, r.value),
                                                             omitted |-> r.m.omitted]}] : r \in Evaluate(s.arg, m)}
    [] s.kind = "block" ->
         LET inside == [m EXCEPT !.env = [v \in SqlNames |-> IF v \in s.declares THEN Fixed
                                                             ELSE @[v]]]
         IN  {[n EXCEPT !.env = [v \in SqlNames |-> IF v \in s.declares THEN m.env[v] ELSE @[v]]] :
                n \in ExecAll(s.body, inside)}
    [] s.kind = "if" -> (IF s.truth = "false" THEN {} ELSE ExecAll(s.then, m))
                        \cup (IF s.truth = "true" THEN {} ELSE ExecAll(s.other, m))
    [] s.kind = "try" -> ExecTry(s, m)
    [] s.kind = "switch" -> ExecSwitch(s, m)
    [] s.kind = "loop" -> Iterate(s.body, m, 3)
    [] s.kind = "break" -> {[m EXCEPT !.how = "break"]}
    [] s.kind = "leave" -> {[m EXCEPT !.how = "leave", !.omitted = TRUE]}
    [] OTHER -> {m}

\* Having given up, the analyzer leaves on record what the first walk of a loop
\* said of its queries.
GivesUpInLoop(body) == Walked(body).limited /\ \E s \in Parts(body) : s.kind = "loop"

\* A query on record as constant never runs with anything but text of the source.
ConstantIsFixed(body, queries) ==
  LET verdict == AnnotateSqlQueries(body, queries)
  IN  (~ForgetsObject(body) /\ ~GivesUpInLoop(body)) =>
        \A m \in ExecAll(body, Start) : \A q \in m.queries :
          q.tainted /\ ~q.omitted => verdict[q.at] # "constant"

(***************************************************************************)
(* The instance that is checked.                                           *)
(***************************************************************************)

E(kind) == [kind |-> kind]
T == [kind |-> "text", sql |-> TRUE]
N(v) == [kind |-> "name", var |-> v]
Plus(a, b) == [kind |-> "plus", left |-> a, right |-> b]
Obj(id, f) == [kind |-> "object", id |-> id, fields |-> [sql |-> f]]
Mem(v) == [kind |-> "member", owner |-> v, field |-> "sql"]
Put(v, e) == [kind |-> "assign", var |-> v, field |-> "", right |-> e]
PutField(v, f, e) == [kind |-> "assign", var |-> v, field |-> f, right |-> e]
Query(at, e) == [kind |-> "query", at |-> at, arg |-> e]
CallWith(v) == Put("z", [kind |-> "call", args |-> <<N(v)>>])

Simple == {Put("x", T), Put("x", E("other")), Put("y", N("x")), Put("x", N("y")),
           Put("x", Plus(N("x"), N("y"))), Put("x", Obj(1, T)), Put("y", Obj(2, E("other"))),
           PutField("x", "sql", T), PutField("y", "sql", N("z")), PutField("x", "?", E("other")), CallWith("x"),
           Put("x", [kind |-> "choice", truth |-> "unknown", yes |-> T, no |-> N("y")]),
           [kind |-> "augment", var |-> "x", right |-> N("y")],
           Put("x", [kind |-> "format", text |-> T, holes |-> TRUE, args |-> <<N("y")>>])}
Few ==
  {Put("x", T), Put("x", E("other")), Put("y", N("x")), PutField("x", "sql", E("other")),
   Put("x", N("y"))}

If(t, a, b) == [kind |-> "if", truth |-> t, then |-> a, other |-> b]
Loop(a) == [kind |-> "loop", body |-> a]
Try(a, h, o, f) == [kind |-> "try", body |-> a, handlers |-> h, other |-> o, final |-> f]
Switch(c, f) == [kind |-> "switch", cases |-> c, falls |-> f]
Block(a) == [kind |-> "block", body |-> a, declares |-> {"x"}]
Q == Query(1, N("x"))
Break == E("break")

Compounds ==
  {If(t, <<a>>, b) : t \in {"true", "false", "unknown"}, a \in Few,
   b \in {<<>>, <<Put("x", T)>>, <<Put("y", T), Q>>}}
    \cup {Loop(<<a, b>>) : a \in Few, b \in Simple} \cup {Loop(<<a, Q, b>>) : a \in Few, b \in Few}
    \cup {Loop(<<a, If("unknown", <<E("leave")>>, <<>>), b>>) : a \in Few, b \in Few}
    \cup {Try(<<a, b>>, h, <<>>, f) : a \in Few, b \in Few,
            h \in {<<>>, <<<<Q>>>>, <<<<Put("y", T)>>>>}, f \in {<<>>, <<Q>>, <<Put("x", N("y"))>>}}
    \cup {Try(<<a>>, <<<<b>>>>, <<d>>, <<>>) : a \in Few, b \in Few, d \in Few}
    \cup {Switch(<<<<a>> \o k, <<b, Q>>>>, f) : a \in Few, b \in Few, k \in {<<>>, <<Break>>},
          f \in BOOLEAN}
    \cup {Block(<<a, Q>>) : a \in Simple}
    \cup {[kind |-> "function", body |-> <<a>>] : a \in Few}

SqlPrograms == {<<a, b, c, d, Query(3, N("x"))>> : a \in Few,
                b \in {Put("y", T), Put("y", Obj(2, T)),
                       Put("y", N("x"))}, c \in Compounds, d \in {Query(4, N("x")), Query(2, Mem("x")), Put("x", N("y"))}}
               \cup {<<a, b, c, Query(2, Mem("x")), Query(3, N("x"))>> : a \in Simple, b \in Simple,
                     c \in Simple}
               \cup {<<Put("z", T), Put("y", T), Put("x", T),
                      Loop(<<Put("x", N("y")), Put("y", N("z")),
                             Put("z", E("other"))>>), Query(3, N("x"))>>}
               \cup {<<Put("x", T), Put("y", T), Loop(<<a, Loop(<<b, Q, c>>)>>)>> : a \in Few,
                     b \in Few, c \in Few}

SqlHolds(body) == ConstantIsFixed(body, 1..4)
=============================================================================
