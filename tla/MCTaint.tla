------------------------------ MODULE MCTaint -------------------------------
(***************************************************************************)
(* What a program of module Taint does when it runs, and what the analysis *)
(* promises about it.  A value carries the sources it was made from, each  *)
(* with the sink types it was cleaned for on the way; an object is a       *)
(* number.  Nothing here models code: it is the yardstick.                 *)
(***************************************************************************)
EXTENDS Taint

Value(marks, obj) == [marks |-> marks, obj |-> obj]
Nothing == Value({}, 0)
Mark(o, safe) == [origin |-> o, safe |-> safe]

\* r.vars: the variables of the running function; r.heap, r.next: the objects;
\* r.hits: the sinks reached; r.result: the value returned.
Load(r, access) ==
  IF ~IsField(access) THEN At(r.vars, Head(access), Nothing)
  ELSE LET base == At(r.vars, Head(access), Nothing)
       IN  At(r.heap, <<base.obj, Tail(access)>>, Value(base.marks, 0))

Joined(values) == UNION {values[k].marks : k \in DOMAIN values}

Computed(r, fn, i) ==
  LET s == Body(fn)[i]
      right == RightSide(s)
      values == [k \in DOMAIN right |-> Load(r, right[k])]
      read == IF s.source THEN {Mark(LineSource(fn, i), {})} ELSE {}
      fetched == IF s.model.role = "source" THEN {Mark(LineSource(fn, i), {})} ELSE {}
      cleaned == {Mark(k.origin, k.safe \cup (IF s.model.role = "sanitizer" THEN s.model.types
                                              ELSE {})
                                        \cup (IF s.clean THEN {Everything} ELSE {}))
                  : k \in Joined(values) \cup read \cup fetched}
  IN  IF s.new THEN Value({}, r.next)
      ELSE Value(cleaned, IF Len(right) = 1 /\ ~s.calls THEN values[1].obj ELSE 0)

Store(r, lhs, value) ==
  IF lhs = <<>> THEN r
  ELSE IF ~IsField(lhs) THEN [r EXCEPT !.vars = Put(@, Head(lhs), value)]
  ELSE LET obj == At(r.vars, Head(lhs), Nothing).obj
       IN  IF obj = 0 THEN r ELSE [r EXCEPT !.heap = Put(@, <<obj, Tail(lhs)>>, value)]

Reached(r, fn, i) ==
  LET s == Body(fn)[i]
      given == IF s.index = 0 THEN s.recv
               ELSE IF s.index \in DOMAIN s.args THEN s.args[s.index] ELSE <<>>
      marks == (IF given = <<>> THEN {} ELSE Load(r, given).marks)
               \cup (IF s.source /\ s.index = 1 THEN {Mark(LineSource(fn, i), {})} ELSE {})
  IN  {[origin |-> k.origin, fn |-> fn, at |-> i, type |-> s.sink, safe |-> k.safe] :
         k \in {k \in marks : s.sink # "none" /\ ~FixedQuery(s, s.sink, s.index)}}

RECURSIVE Execute(_, _, _, _)
\* Runs the statements of fn from the i-th on; Deep bounds recursive calls.
Execute(r, fn, i, deep) ==
  IF i > Len(Body(fn)) THEN r
  ELSE
    LET s == Body(fn)[i]
        g == s.targets[1]
        argument(k) == Load(r, s.args[k])
        frame == [v \in Range(Parameters(g)) \cup {"this"} |->
                    IF v = "this" THEN (IF s.recv = <<>> THEN Nothing ELSE Load(r, s.recv))
                    ELSE argument(CHOOSE k \in DOMAIN s.args : Parameters(g)[k] = v)]
        hit == [r EXCEPT !.hits = @ \cup Reached(r, fn, i)]
        called == Execute([hit EXCEPT !.vars = frame, !.result = Nothing], g, 1, deep - 1)
        value == IF s.targets # <<>> THEN called.result ELSE Computed(hit, fn, i)
        after == IF s.targets # <<>> THEN [called EXCEPT !.vars = r.vars, !.result = r.result]
                 ELSE [hit EXCEPT !.next = @ + 1]
        built == IF s.model.role = "propagator" /\ "receiver" \in s.model.outputs
                 THEN Store(after, s.recv, Value(Load(r, s.recv).marks \cup Joined([k \in DOMAIN s.args |-> argument(k)]), 0))
                 ELSE after
        done == Store(built, s.lhs, value)
    IN  IF s.targets # <<>> /\ deep = 0 THEN r
        ELSE IF s.ret THEN [done EXCEPT !.result = value]
        ELSE Execute(done, fn, i + 1, deep)

\* Every entry point runs by itself, its parameters coming from outside.
Started(fn) ==
  [vars |-> [v \in Range(Parameters(fn)) |-> Value({Mark(ParameterSource(fn, v), {})}, 0)],
   heap |-> [k \in {} |-> 0], next |-> 1, hits |-> {}, result |-> Nothing]

Hits == UNION {Execute(Started(fn), fn, 1, 3).hits : fn \in {fn \in Functions : program[fn].entry}}

(* ---- what the analysis does not follow --------------------------------- *)

Writes == {<<fn, i>> \in Functions \X (1..10) : i \in DOMAIN Body(fn) /\ IsField(Body(fn)[i].lhs)}
FieldAt(w) == Tail(Body(w[1])[w[2]].lhs)

\* No field is assigned by two statements: the heap keeps one value of a field
\* for all statements, so a later write hides what a call in between saw.
WrittenOnce == \A v, w \in Writes : FieldAt(v) = FieldAt(w) => v = w

TaintDone == Settled /\ ~truncated

ReportedAs(h, safe) ==
  \E k \in DOMAIN flows : /\ k.origin = h.origin /\ k.fn = h.fn /\ k.at = h.at /\ k.type = h.type
                          /\ flows[k].safe = safe

\* When the analysis finishes within its bounds, every sink a run reaches with
\* tainted data has a flow from that source, unsanitized if the data was never
\* cleaned, through locals, fields, arguments, receivers and returns.
FlowsAreFound ==
  (TaintDone /\ WrittenOnce) =>
    \A h \in Hits : \/ ReportedAs(h, {})
                    \/ h.safe # {} /\ ReportedAs(h, {h.type})

(***************************************************************************)
(* The instance that is checked.                                           *)
(***************************************************************************)

X == <<"x">>  Y == <<"y">>  P == <<"p">>  XF == <<"x", "f">>  YF == <<"y", "f">> PF == <<"p", "f">>
TF == <<"this", "f">>
External(args) == [Plain EXCEPT !.calls = TRUE, !.args = args]
Internal(args) == [External(args) EXCEPT !.targets = <<1>>]
Sink(a) == [External(<<a>>) EXCEPT !.sink = "sql"]
MainStatements == {
  [Plain EXCEPT !.lhs = X, !.new = TRUE],
  [Plain EXCEPT !.lhs = XF, !.source = TRUE],
  [Plain EXCEPT !.lhs = Y, !.source = TRUE],
  [Plain EXCEPT !.lhs = Y, !.args = <<X>>],
  [Plain EXCEPT !.lhs = X, !.args = <<Y, P>>],
  [Plain EXCEPT !.lhs = YF, !.args = <<P>>],
  [Plain EXCEPT !.lhs = Y, !.args = <<XF>>],
  [External(<<Y>>) EXCEPT !.lhs = Y, !.clean = TRUE],
  [External(<<Y>>) EXCEPT !.lhs = Y,
   !.model = [role |-> "sanitizer", types |-> {"xss"}, inputs |-> {1}, outputs |-> {"return"}]],
  [External(<<P>>) EXCEPT !.recv = X,
   !.model = [role |-> "propagator", types |-> {}, inputs |-> {1}, outputs |-> {"receiver"}]],
  [Internal(<<Y>>) EXCEPT !.lhs = Y],
  [Internal(<<X>>) EXCEPT !.lhs = X],
  [Internal(<<P>>) EXCEPT !.recv = X],
  Sink(Y), Sink(XF), Sink(YF) }
Openings == {s \in MainStatements : ~s.calls /\ s.args \in {<<>>, <<Y, P>>}}
CalleeBodies == {
  <<[Plain EXCEPT !.ret = TRUE, !.args = <<P>>]>>,
  <<[Plain EXCEPT !.lhs = Y, !.args = <<P>>], [Plain EXCEPT !.ret = TRUE, !.args = <<Y>>]>>,
  <<[Plain EXCEPT !.ret = TRUE, !.new = TRUE]>>,
  <<[Plain EXCEPT !.lhs = PF, !.source = TRUE], [Plain EXCEPT !.ret = TRUE, !.args = <<P>>]>>,
  <<[Plain EXCEPT !.lhs = TF, !.args = <<P>>]>>,
  <<[Internal(<<P>>) EXCEPT !.lhs = Y], [Plain EXCEPT !.ret = TRUE, !.args = <<Y, PF>>]>>,
  <<Sink(PF)>>, <<Sink(P), [Plain EXCEPT !.ret = TRUE, !.args = <<PF>>]>> }
Fn(params, method, entry, body) ==
  [params |-> params, method |-> method, entry |-> entry, body |-> body]
TwoFunctions ==
  {<<Fn(<<"p">>, TRUE, FALSE, c), Fn(<<"p">>, FALSE, TRUE, <<a, b, d, e>>)>> :
     c \in CalleeBodies, a \in Openings, b \in MainStatements, d \in MainStatements, e \in {Sink(Y), Sink(XF), Sink(YF)} }
=============================================================================
