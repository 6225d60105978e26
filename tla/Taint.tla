------------------------------- MODULE Taint -------------------------------
(***************************************************************************)
(* StructuredTaintAnalyzer (scanner/taint_v2.py): the bounded global taint *)
(* analysis.  A program is a sequence of functions, a function a sequence  *)
(* of statements in line order; the analysis evaluates every active        *)
(* (function, call string) context over and over, keeping taints and       *)
(* points-to sets of parameters, returns and heap fields, until nothing    *)
(* changes or the round limit is met.                                      *)
(*                                                                         *)
(* Parsing is abstracted: a statement is a record that says what the       *)
(* regular expressions of the code find in its text, an access the         *)
(* sequence of a base variable and field names, a path its length.         *)
(***************************************************************************)
EXTENDS Integers, Sequences, FiniteSets, TLC, SequencesExt

CONSTANTS Programs,       \* the programs analysed: sequences of functions
          ContextDepth,   \* call sites kept in a call string
          MaxContexts,    \* bound on the active contexts
          MaxIterations   \* bound on the rounds

ASSUME TaintAssumption == /\ ContextDepth \in 1..4
                          /\ MaxContexts \in Nat \ {0}
                          /\ MaxIterations \in Nat \ {0}

VARIABLES program,    \* the program under analysis
          facts,      \* what the contexts have told each other
          contexts,   \* the active contexts
          agenda,     \* the contexts this round still has to evaluate
          round,      \* the number of the round; 0 before the first
          before,     \* the signature at the beginning of the round
          flows,      \* the flows recorded in this round
          truncated   \* a bound was hit

taintVars == <<program, facts, contexts, agenda, round, before, flows, truncated>>

(* ---- programs: what the parser and the graphs hand to the analyzer ---- *)

\* A library model of a call: source, sink, sanitizer or propagator.  Inputs
\* are argument positions, 0 the receiver; outputs are "return", "receiver".
NoModel == [role |-> "none", types |-> {}, inputs |-> {}, outputs |-> {}]

\* A statement with nothing in it: lhs, the accesses on its right, the call it
\* makes (its possible targets, receiver and the position of its sink), and
\* whether it allocates, reads a source, sanitizes or returns.
Plain == [lhs |-> <<>>, args |-> <<>>, calls |-> FALSE, targets |-> <<>>, recv |-> <<>>,
          model |-> NoModel, sink |-> "none", index |-> 1, constant |-> FALSE,
          new |-> FALSE, source |-> FALSE, clean |-> FALSE, ret |-> FALSE]

Functions == DOMAIN program
Body(fn) == program[fn].body
Parameters(fn) == program[fn].params
IsParameter(fn, v) == v \in Range(Parameters(fn))

At(f, k, default) == IF k \in DOMAIN f THEN f[k] ELSE default
Put(f, k, v) == (k :> v) @@ f

(* ---- traces: origin -> [safe, len] ------------------------------------ *)

Untainted == [o \in {} |-> 0]
SourceTrace == [safe |-> {}, len |-> 1]
Everything == "*"

\* An unsanitized path beats a sanitized one, then the shorter path wins.
Better(a, b) == \/ a.safe = {} /\ b.safe # {}
                \/ (a.safe = {}) = (b.safe = {}) /\ a.len < b.len

Merge(target, incoming) ==
  [o \in DOMAIN target \cup DOMAIN incoming |->
     IF o \notin DOMAIN target \/ (o \in DOMAIN incoming /\ Better(incoming[o], target[o]))
     THEN incoming[o] ELSE target[o]]

MergeAll(maps) == FoldLeft(Merge, Untainted, maps)

AppendStep(traces) == [o \in DOMAIN traces |-> [traces[o] EXCEPT !.len = @ + 1]]
AppendSteps(traces, n) == [o \in DOMAIN traces |-> [traces[o] EXCEPT !.len = @ + n]]
MarkSanitized(traces) == [o \in DOMAIN traces |-> [traces[o] EXCEPT !.safe = {Everything}]]
MarkSanitizedFor(traces, types) ==
  [o \in DOMAIN traces |-> [traces[o] EXCEPT !.safe = @ \cup types]]

(* ---- contexts, objects and heap keys ---------------------------------- *)

Site(fn, i) == 10 * fn + i
NextCallString(cs, fn, i) ==
  LET longer == Append(cs, Site(fn, i))
  IN  SubSeq(longer, Len(longer) - Min({Len(longer), ContextDepth}) + 1, Len(longer))

Object(kind, fn, cs, i, base) == [kind |-> kind, fn |-> fn, cs |-> cs, at |-> i, base |-> base]
Allocation(fn, cs, i) == Object("allocation", fn, cs, i, "")
ReturnAllocation(fn, cs, i) == Object("allocation", fn, cs, i, "return")
Unknown(fn, cs, base) == Object("unknown", fn, cs, 0, base)
DefaultThis(fn) == Object("type", fn, <<>>, 0, "this")

\* What one evaluation of a context works on: m.taint and m.points are the
\* locals, m.sites the objects that came back from calls; the rest is shared.
Objects(m, fn, cs, base) ==
  LET known == At(m.points, base, {}) IN IF known = {} THEN {Unknown(fn, cs, base)} ELSE known

ValueKeys(m, fn, cs, access) == {<<o, Tail(access)>> : o \in Objects(m, fn, cs, Head(access))}

IsField(access) == Len(access) > 1
StrongUpdate(keys) == \E k \in keys : keys = {k} /\ k[1].kind = "allocation"

(* ---- expressions ------------------------------------------------------- *)

FieldTraces(m, fn, access, key) ==
  AppendSteps(At(m.facts.heap, key, Untainted),
              1 + (IF key[1] \in m.sites THEN 1 ELSE 0)
                + (IF IsParameter(fn, Head(access)) THEN 1 ELSE 0))

AccessTraces(m, fn, cs, access) ==
  IF ~IsField(access) THEN At(m.taint, Head(access), Untainted)
  ELSE Merge(AppendStep(At(m.taint, Head(access), Untainted)),
             MergeAll([k \in 1..Cardinality(ValueKeys(m, fn, cs, access)) |->
                         FieldTraces(m, fn, access, SetToSeq(ValueKeys(m, fn, cs, access))[k])]))

LineSource(fn, i) == <<fn, i, "line">>
ParameterSource(fn, v) == <<fn, 0, v>>

SourcesOf(fn, i) ==
  IF Body(fn)[i].source THEN LineSource(fn, i) :> SourceTrace ELSE Untainted

ExpressionTraces(m, fn, cs, accesses, sources) ==
  Merge(MergeAll([k \in DOMAIN accesses |-> AccessTraces(m, fn, cs, accesses[k])]), sources)

AccessPoints(m, fn, cs, access) ==
  IF IsField(access)
  THEN UNION {At(m.facts.fields, k, {}) : k \in ValueKeys(m, fn, cs, access)}
  ELSE At(m.points, Head(access), {})

ExpressionPoints(m, fn, cs, accesses) ==
  UNION {AccessPoints(m, fn, cs, accesses[k]) : k \in DOMAIN accesses}

\* The accesses in the text of the right side: the receiver and the arguments.
RightSide(s) == (IF s.recv = <<>> THEN <<>> ELSE <<s.recv>>) \o s.args

(* ---- writes ------------------------------------------------------------ *)

WriteTraces(m, fn, cs, lhs, traces) ==
  IF ~IsField(lhs) THEN [m EXCEPT !.taint = Put(@, Head(lhs), traces)]
  ELSE LET keys == ValueKeys(m, fn, cs, lhs)
       IN  [m EXCEPT !.facts.heap =
              [k \in keys |-> IF StrongUpdate(keys) THEN traces
                              ELSE Merge(At(@, k, Untainted), traces)] @@ @]

WritePoints(m, fn, cs, lhs, points) ==
  IF ~IsField(lhs) THEN [m EXCEPT !.points = Put(@, Head(lhs), points)]
  ELSE LET keys == ValueKeys(m, fn, cs, lhs)
       IN  [m EXCEPT !.facts.fields =
              [k \in keys |-> IF StrongUpdate(keys) THEN points
                              ELSE At(@, k, {}) \cup points] @@ @]

(* ---- sinks ------------------------------------------------------------- *)

\* A query selected as constant text takes no syntax from its values.
FixedQuery(s, type, index) == type = "sql" /\ index = 1 /\ s.constant

SinkStates(s, type, index, arguments, receiver) ==
  IF FixedQuery(s, type, index) THEN Untainted
  ELSE IF index = 0 THEN receiver
  ELSE IF index > Len(arguments) THEN Untainted
  ELSE arguments[index]

FlowKey(o, fn, i, type, cs) == [origin |-> o, fn |-> fn, at |-> i, type |-> type, cs |-> cs]

RecordSinkFlows(m, fn, i, cs, type, index, arguments, receiver) ==
  LET states == SinkStates(Body(fn)[i], type, index, arguments, receiver)
      Flow(o) == [safe |-> IF {type, Everything} \cap states[o].safe = {} THEN {} ELSE {type},
                  len |-> states[o].len + 1]
      found == {FlowKey(o, fn, i, type, cs) : o \in DOMAIN states}
  IN  [m EXCEPT !.flows = Merge(@, [k \in found |-> Flow(k.origin)])]

(* ---- calls ------------------------------------------------------------- *)

\* A source in the text of a call is taken to stand in its first argument.
ArgumentStates(m, fn, i, cs) ==
  [k \in DOMAIN Body(fn)[i].args |->
     ExpressionTraces(m, fn, cs, <<Body(fn)[i].args[k]>>,
                      IF k = 1 THEN SourcesOf(fn, i) ELSE Untainted)]
ReceiverState(m, fn, i, cs) ==
  IF Body(fn)[i].recv = <<>> THEN Untainted
  ELSE ExpressionTraces(m, fn, cs, <<Body(fn)[i].recv>>, Untainted)

ModelInput(model, arguments, receiver, fn, i) ==
  IF model.role = "source" THEN LineSource(fn, i) :> SourceTrace
  ELSE Merge(MergeAll([k \in DOMAIN arguments |->
                         IF k \in model.inputs THEN arguments[k] ELSE Untainted]),
             IF 0 \in model.inputs THEN receiver ELSE Untainted)

\* A library model records a sink, or carries its inputs (cleaned for the types
\* of a sanitizer) to the receiver and to the value of the call.
ModelPropagates(model, arguments, receiver, fn, i) ==
  LET moved == AppendStep(ModelInput(model, arguments, receiver, fn, i))
  IN  IF model.role = "sanitizer" THEN MarkSanitizedFor(moved, model.types) ELSE moved

ApplyLibraryModel(m, fn, i, cs, arguments, receiver) ==
  LET s == Body(fn)[i]
      model == s.model
      moved == ModelPropagates(model, arguments, receiver, fn, i)
      returned == IF "return" \in model.outputs THEN moved ELSE Untainted
  IN  IF model.role = "none" THEN m
      ELSE IF model.role = "sink"
      THEN FoldLeft(LAMBDA n, type : RecordSinkFlows(n, fn, i, cs, type, s.index, arguments, Untainted),
                    m, SetToSeq(model.types))
      ELSE [(IF "receiver" \in model.outputs /\ s.recv # <<>>
             THEN WriteTraces(m, fn, cs, s.recv, Merge(receiver, moved)) ELSE m)
            EXCEPT !.value = Merge(@, returned),
                   !.internal = @ \/ "return" \in model.outputs]

CanActivate(m, context) == context \in m.contexts \/ Cardinality(m.contexts) < MaxContexts

\* Arguments and the receiver go to the target's parameters, what its context
\* has returned so far becomes a value of the call.
PassArguments(f, g, cs, arguments, points, s, receiverPoints) ==
  LET passed == 1..Min({Len(arguments), Len(Parameters(g))})
      Key(v) == <<g, cs, v>>
      P(k) == Parameters(g)[k]
  IN  [f EXCEPT
        !.taints = [q \in {Key(P(k)) : k \in passed} |->
                      LET k == CHOOSE k \in passed : Key(P(k)) = q
                      IN  Merge(At(@, q, Untainted), AppendStep(arguments[k]))] @@ @,
        !.points = (LET old == @ IN
                    [q \in {Key(P(k)) : k \in passed} \cup (IF s.recv = <<>> THEN {}
                                                            ELSE {Key("this")}) |->
                       At(old, q, {}) \cup
                       (IF q = Key("this") THEN receiverPoints
                        ELSE points[CHOOSE k \in passed : Key(P(k)) = q])] @@ old)]

CallTarget(m, g, fn, i, cs, arguments, points, receiverPoints) ==
  LET s == Body(fn)[i]
      callee == NextCallString(cs, fn, i)
      returned == AppendStep(At(m.facts.returns, <<g, callee>>, Untainted))
      objects == At(m.facts.returned, <<g, callee>>, {})
  IN  IF ~CanActivate(m, <<g, callee>>) THEN [m EXCEPT !.truncated = TRUE]
      ELSE [m EXCEPT !.contexts = @ \cup {<<g, callee>>},
                     !.internal = TRUE,
                     !.facts = PassArguments(@, g, callee, arguments, points, s, receiverPoints),
                     !.value = Merge(@, returned),
                     !.objects = @ \cup objects,
                     !.sites = @ \cup objects]

EvaluateCall(m, fn, i, cs) ==
  LET s == Body(fn)[i]
      arguments == ArgumentStates(m, fn, i, cs)
      points == [k \in DOMAIN s.args |-> AccessPoints(m, fn, cs, s.args[k])]
      receiver == ReceiverState(m, fn, i, cs)
      receiverPoints == IF s.recv = <<>> THEN {} ELSE AccessPoints(m, fn, cs, s.recv)
      called == FoldLeft(LAMBDA n, g : CallTarget(n, g, fn, i, cs, arguments, points, receiverPoints),
                         ApplyLibraryModel(m, fn, i, cs, arguments, receiver), s.targets)
  IN  IF ~s.calls THEN m
      ELSE IF s.sink = "none" THEN called
      ELSE RecordSinkFlows(called, fn, i, cs, s.sink, s.index, arguments, receiver)

(* ---- assignments, returns, statements ---------------------------------- *)

\* A mutant: plain copies of a reference are not followed.
AssignPointsOfCalls(m, fn, i, cs) ==
  LET s == Body(fn)[i]
  IN  IF s.new THEN WritePoints(m, fn, cs, s.lhs, {Allocation(fn, cs, i)})
      ELSE IF m.internal /\ m.objects # {} THEN WritePoints(m, fn, cs, s.lhs, m.objects)
      ELSE m

AssignPoints(m, fn, i, cs) ==
  LET s == Body(fn)[i]
      alias == ExpressionPoints(m, fn, cs, RightSide(s))
  IN  IF s.new THEN WritePoints(m, fn, cs, s.lhs, {Allocation(fn, cs, i)})
      ELSE IF m.internal /\ m.objects # {} THEN WritePoints(m, fn, cs, s.lhs, m.objects)
      ELSE IF alias # {} THEN WritePoints(m, fn, cs, s.lhs, alias)
      ELSE m

Assigned(m, fn, i, cs) ==
  LET s == Body(fn)[i]
      right == Merge(ExpressionTraces(m, fn, cs, RightSide(s), SourcesOf(fn, i)), m.value)
      value == IF m.internal THEN m.value ELSE right
  IN  IF s.clean THEN MarkSanitized(value) ELSE value

EvaluateAssignment(m, fn, i, cs) ==
  IF Body(fn)[i].lhs = <<>> THEN m
  ELSE LET pointed == AssignPoints(m, fn, i, cs)
       IN  WriteTraces(pointed, fn, cs, Body(fn)[i].lhs,
                       AppendStep(Assigned(pointed, fn, i, cs)))

EvaluateReturn(m, fn, i, cs) ==
  LET s == Body(fn)[i]
      traces == Merge(ExpressionTraces(m, fn, cs, RightSide(s), SourcesOf(fn, i)), m.value)
      points == ExpressionPoints(m, fn, cs, RightSide(s)) \cup m.objects
                \cup (IF s.new THEN {ReturnAllocation(fn, cs, i)} ELSE {})
  IN  IF ~s.ret THEN m
      ELSE [m EXCEPT
             !.facts.returns = Put(@, <<fn, cs>>, Merge(At(@, <<fn, cs>>, Untainted), AppendStep(traces))),
             !.facts.returned = Put(@, <<fn, cs>>, At(@, <<fn, cs>>, {}) \cup points)]

EvaluateStatement(m, fn, i, cs) ==
  EvaluateReturn(
    EvaluateAssignment(
      EvaluateCall([m EXCEPT !.value = Untainted, !.objects = {}, !.internal = FALSE], fn, i, cs),
      fn, i, cs), fn, i, cs)

(* ---- one context -------------------------------------------------------- *)

EnterContext(fn, cs) ==
  LET This == At(facts.points, <<fn, cs, "this">>, {DefaultThis(fn)})
      params == Range(Parameters(fn))
  IN  [taint |-> [v \in params |-> At(facts.taints, <<fn, cs, v>>, Untainted)],
       points |-> [v \in params \cup (IF program[fn].method THEN {"this"} ELSE {}) |->
                     IF v = "this" THEN This ELSE At(facts.points, <<fn, cs, v>>, {})],
       sites |-> {}, value |-> Untainted, objects |-> {}, internal |-> FALSE,
       facts |-> facts, contexts |-> contexts, flows |-> flows, truncated |-> truncated]

Evaluated(fn, cs) ==
  FoldLeft(LAMBDA m, i : EvaluateStatement(m, fn, i, cs), EnterContext(fn, cs),
           [i \in DOMAIN Body(fn) |-> i])

(* ---- the fixed point ---------------------------------------------------- *)

NoFacts == [taints |-> [k \in {} |-> 0], points |-> [k \in {} |-> 0], returns |-> [k \in {} |-> 0],
            returned |-> [k \in {} |-> 0], heap |-> [k \in {} |-> 0], fields |-> [k \in {} |-> 0]]

EntryFacts(p) ==
  LET tainted == {<<fn, v>> \in (DOMAIN p) \X UNION {Range(p[fn].params) : fn \in DOMAIN p} :
                    p[fn].entry /\ v \in Range(p[fn].params) \ {"self", "this"}}
  IN  [NoFacts EXCEPT !.taints = [k \in {<<t[1], <<>>, t[2]>> : t \in tainted} |->
                                    ParameterSource(k[1], k[3]) :> SourceTrace]]

\* What two rounds are compared by: everything that is not empty.
Signature(f, active) ==
  [part \in DOMAIN f |-> [k \in {k \in DOMAIN f[part] : DOMAIN f[part] # {} /\
                                   (IF part \in {"points", "returned", "fields"} THEN f[part][k] # {}
                                    ELSE DOMAIN f[part][k] # {})} |-> f[part][k]]]
  @@ ("contexts" :> active)

RootContexts(p) == {<<fn, <<>>>> : fn \in 1..Min({Len(p), MaxContexts})}

Limit == Min({MaxIterations, Max({8, 4 * Len(program) + 8})})

\* Contexts are taken in order: by function, then by call string.
Precedes(a, b) ==
  \/ a[1] < b[1]
  \/ /\ a[1] = b[1]
     /\ \E k \in 1..Len(b[2]) : /\ k - 1 <= Len(a[2])
                                /\ SubSeq(a[2], 1, k - 1) = SubSeq(b[2], 1, k - 1)
                                /\ (k > Len(a[2]) \/ (k <= Len(a[2]) /\ a[2][k] < b[2][k]))

TaintInit ==
  /\ program \in Programs
  /\ facts = EntryFacts(program)
  /\ contexts = RootContexts(program)
  /\ truncated = (Len(program) > MaxContexts)
  /\ agenda = {} /\ round = 0 /\ before = [part \in {} |-> 0]
  /\ flows = [k \in {} |-> 0]

Settled == round > 0 /\ agenda = {} /\ Signature(facts, contexts) = before
Exhausted == round = Limit /\ agenda = {} /\ ~Settled

BeginRound ==
  /\ agenda = {} /\ ~Settled /\ round < Limit
  /\ round' = round + 1
  /\ agenda' = contexts
  /\ before' = Signature(facts, contexts)
  /\ flows' = [k \in {} |-> 0]
  /\ UNCHANGED <<program, facts, contexts, truncated>>

EvaluateFunction(context) ==
  /\ \A other \in agenda \ {context} : Precedes(context, other)
  /\ LET m == Evaluated(context[1], context[2])
     IN  /\ facts' = m.facts
         /\ contexts' = m.contexts
         /\ flows' = m.flows
         /\ truncated' = m.truncated
  /\ agenda' = agenda \ {context}
  /\ UNCHANGED <<program, round, before>>

GiveUp ==
  /\ Exhausted /\ ~truncated
  /\ truncated' = TRUE
  /\ UNCHANGED <<program, facts, contexts, agenda, round, before, flows>>

TaintNext == BeginRound \/ GiveUp \/ \E context \in agenda : EvaluateFunction(context)
=============================================================================
