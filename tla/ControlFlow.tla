---------------------------- MODULE ControlFlow ----------------------------
(***************************************************************************)
(* The program graph of a scan (ir/program_graph.py, ir/query.py and the   *)
(* overlay of scanner/engine.py): a control-flow graph per function built  *)
(* from its statement tree, reaching definitions and what is derived from  *)
(* them, call and return edges between functions, and the context-balanced *)
(* path query.                                                             *)
(*                                                                         *)
(* A statement is [id, type, body, blocks, other, final, default, defs,    *)
(* names, alias, call]: `id` is its place in the tree, `blocks` are the    *)
(* else branch, the catches or the cases, `other` and `final` hold the     *)
(* else and finally blocks of a try when it has them, `default` the cases  *)
(* that are defaults, `defs` the variables it sets, `names` those whose    *)
(* value it reads, `alias` the two of a plain copy of one to another,      *)
(* `call` the function it calls (0 for none).  A program maps a function   *)
(* to [params, body].  A node of the graph is <<function, id, part,        *)
(* number>>.  The parsing and the regular expressions that find variables  *)
(* are left out.                                                           *)
(***************************************************************************)
EXTENDS Integers, Sequences, FiniteSets, SequencesExt

\* Some order of a set.
Ordered(S) == FoldSet(LAMBDA x, q : Append(q, x), <<>>, S)

Node(f, id, part) == <<f, id, part, 0>>
Numbered(f, id, part, k) == <<f, id, part, k>>
EntryNode(f) == Node(f, <<>>, "entry")
ExitNode(f) == Node(f, <<>>, "exit")
StatementNode(f, s) == Node(f, s.id, "statement")
NoNode == Node(0, <<>>, "none")

IsStatement(n) == n[3] = "statement"

Edge(from, to, kind) == [from |-> from, to |-> to, kind |-> kind, site |-> NoNode]
EdgesTo(tails, to) == {Edge(t[1], to, t[2]) : t \in tails}
EdgesOfKind(tails, to, kind) == {Edge(t[1], to, kind) : t \in tails}

\* What emitting statements yields: edges, and the tails the next one follows.
Emitted(edges, tails) == [edges |-> edges, tails |-> tails]
Tail1(n, kind) == {<<n, kind>>}

\* The targets of jumps: NoNode where there is none.
Targets(break, continue, terminal) ==
  [break |-> break, continue |-> continue, terminal |-> terminal]
FirstOf(a, b) == IF a # NoNode THEN a ELSE b
Terminal(f, ctx) == FirstOf(ctx.terminal, ExitNode(f))

RECURSIVE StatementsIn(_)
StatementsIn(ss) ==
  UNION {{ss[i]} \cup StatementsIn(ss[i].body)
           \cup UNION {StatementsIn(ss[i].blocks[k]) : k \in DOMAIN ss[i].blocks}
           \cup UNION {StatementsIn(b) : b \in ToSet(ss[i].other) \cup ToSet(ss[i].final)}
         : i \in DOMAIN ss}

(* ---- the graph of one function ------------------------------------------ *)

RECURSIVE EmitSequence(_, _, _, _)

EmitIf(f, s, ctx) ==
  LET n == StatementNode(f, s)
      then == EmitSequence(f, s.body, Tail1(n, "true"), ctx)
      else == IF s.blocks = <<>> THEN Emitted({}, Tail1(n, "false"))
              ELSE EmitSequence(f, s.blocks[1], Tail1(n, "false"), ctx)
  IN  Emitted(then.edges \cup else.edges, then.tails \cup else.tails)

EmitLoop(f, s, ctx) ==
  LET n == StatementNode(f, s)
      loopExit == Node(f, s.id, "loop-exit")
      loop == EmitSequence(f, s.body, Tail1(n, "true"), Targets(loopExit, n, ctx.terminal))
  IN  Emitted({Edge(n, loopExit, "false")} \cup loop.edges
                \cup EdgesOfKind(loop.tails, n, "loop-back"),
              Tail1(loopExit, "next"))

EmitSwitch(f, s, ctx) ==
  LET n == StatementNode(f, s)
      switchExit == Node(f, s.id, "switch-exit")
      entry(k) == Numbered(f, s.id, "case-entry", k)
      case(k) == EmitSequence(f, s.blocks[k], Tail1(entry(k), "case-body"),
                              Targets(switchExit, ctx.continue, ctx.terminal))
      after(k) == IF s.type # "when" /\ k < Len(s.blocks)
                  THEN EdgesOfKind(case(k).tails, entry(k + 1), "fallthrough")
                  ELSE EdgesOfKind(case(k).tails, switchExit, "case-complete")
      cases == UNION {{Edge(n, entry(k), IF k \in s.default THEN "default" ELSE "case")}
                        \cup case(k).edges \cup after(k) : k \in DOMAIN s.blocks}
      noMatch == IF s.default = {} THEN {Edge(n, switchExit, "no-match")} ELSE {}
  IN  Emitted(cases \cup noMatch, Tail1(switchExit, "next"))

\* The statements of the body may all raise: into every catch, or, without a
\* catch, into the finally block, an outer one, or out of the function.
Raising(f, s, statements, catchEntry(_), exceptional) ==
  LET n == StatementNode(f, s)
      nodes == {StatementNode(f, t) : t \in statements}
  IN  IF s.blocks = <<>> THEN {Edge(b, exceptional, "uncaught-exception") : b \in nodes}
      ELSE UNION {{Edge(n, catchEntry(k), "exception-dispatch")}
                    \cup {Edge(b, catchEntry(k), "exception") : b \in nodes}
                  : k \in DOMAIN s.blocks}

\* A mutant: a finally block only completes.
ResumingNever(finallyTails, ctx, f, resumes) == {}

\* A finally block that was entered by a jump or an exception goes on with it.
Resuming(finallyTails, ctx, f, resumes) ==
  IF resumes THEN EdgesOfKind(finallyTails, Terminal(f, ctx), "finally-resume-terminal") ELSE {}

EmitTry(f, s, ctx) ==
  LET n == StatementNode(f, s)
      tryExit == Node(f, s.id, "try-exit")
      hasFinally == s.final # <<>>
      finallyEntry == IF hasFinally THEN Node(f, s.id, "finally-entry") ELSE NoNode
      catchEntry(k) == Numbered(f, s.id, "catch-entry", k)
      inner == Targets(ctx.break, ctx.continue, FirstOf(finallyEntry, ctx.terminal))
      body == EmitSequence(f, s.body, Tail1(n, "try"), inner)
      bodyStatements == StatementsIn(s.body)
      catch(k) == EmitSequence(f, s.blocks[k], Tail1(catchEntry(k), "catch"), inner)
      raising == Raising(f, s, bodyStatements, catchEntry, FirstOf(finallyEntry, Terminal(f, ctx)))
      normal == IF s.other = <<>> THEN Emitted({}, body.tails)
                ELSE EmitSequence(f, s.other[1], body.tails, inner)
      before == body.edges \cup raising \cup normal.edges
                  \cup UNION {catch(k).edges : k \in DOMAIN s.blocks}
      tails == normal.tails \cup UNION {catch(k).tails : k \in DOMAIN s.blocks}
      resumes == \/ s.blocks = <<>> /\ bodyStatements # {}
                 \/ \E e \in before : e.to = finallyEntry /\ e.kind = "terminal-finally"
      final == EmitSequence(f, s.final[1], Tail1(finallyEntry, "finally-body"), ctx)
  IN  IF ~hasFinally
      THEN Emitted(before \cup EdgesOfKind(tails, tryExit, "try-complete"), Tail1(tryExit, "next"))
      ELSE Emitted(before \cup EdgesOfKind(tails, finallyEntry, "finally") \cup final.edges
                     \cup EdgesOfKind(final.tails, tryExit, "finally-complete")
                     \cup Resuming(final.tails, ctx, f, resumes),
                   Tail1(tryExit, "next"))

EmitJump(f, s, ctx) ==
  LET n == StatementNode(f, s)
  IN  CASE s.type = "break" /\ ctx.break # NoNode -> Emitted({Edge(n, ctx.break, "break")}, {})
        [] s.type = "continue" /\ ctx.continue # NoNode ->
             Emitted({Edge(n, ctx.continue, "continue")}, {})
        [] s.type \in {"return", "throw"} ->
             Emitted({Edge(n, Terminal(f, ctx),
                           IF ctx.terminal # NoNode THEN "terminal-finally" ELSE "terminal")}, {})
        [] OTHER -> Emitted({}, Tail1(n, "next"))

EmitStatement(f, s, ctx) ==
  CASE s.type = "try" -> EmitTry(f, s, ctx)
    [] s.type \in {"switch", "when"} -> EmitSwitch(f, s, ctx)
    [] s.type = "if" -> EmitIf(f, s, ctx)
    [] s.type = "loop" -> EmitLoop(f, s, ctx)
    [] OTHER -> EmitJump(f, s, ctx)

EmitSequence(f, ss, incoming, ctx) ==
  IF ss = <<>> THEN Emitted({}, incoming)
  ELSE LET this == EmitStatement(f, Head(ss), ctx)
           rest == EmitSequence(f, Tail(ss), this.tails, ctx)
       IN  Emitted(EdgesTo(incoming, StatementNode(f, Head(ss))) \cup this.edges \cup rest.edges,
                   rest.tails)

BuildFunction(P, f) ==
  LET Closed(body) == body.edges \cup EdgesTo(body.tails, ExitNode(f))
  IN  Closed(EmitSequence(f, P[f].body, Tail1(EntryNode(f), "next"), Targets(NoNode, NoNode, NoNode)))

(* ---- reaching definitions and what is derived from them ------------------ *)

NodesOf(P, f, cfg) ==
  {EntryNode(f), ExitNode(f)} \cup {e.from : e \in cfg} \cup {e.to : e \in cfg}

StatementAt(P, n) == CHOOSE s \in StatementsIn(P[n[1]].body) : s.id = n[2]
Definitions(P, n) == IF IsStatement(n) THEN StatementAt(P, n).defs
                     ELSE IF n = EntryNode(n[1]) THEN P[n[1]].params ELSE {}
\* A variable that a statement sets is not one of its uses, though it may read it.
Uses(P, n) == IF IsStatement(n) THEN StatementAt(P, n).names \ Definitions(P, n) ELSE {}

Predecessors(cfg, n) == {e.from : e \in {d \in cfg : d.to = n}}

OutDefs(P, n, in) == {d \in in : d[1] \notin Definitions(P, n)}
                       \cup {<<v, n>> : v \in Definitions(P, n)}

\* One round over the nodes, each seeing what the ones before it left.
RECURSIVE DefinitionRound(_, _, _, _)
DefinitionRound(P, cfg, order, facts) ==
  IF order = <<>> THEN facts
  ELSE LET n == Head(order)
           arriving == UNION {facts[p].leave : p \in Predecessors(cfg, n)}
       IN  DefinitionRound(P, cfg, Tail(order),
             [facts EXCEPT ![n] = [reach |-> arriving, leave |-> OutDefs(P, n, arriving)]])

RECURSIVE DefinitionRounds(_, _, _, _, _)
DefinitionRounds(P, cfg, order, facts, left) ==
  LET next == DefinitionRound(P, cfg, order, facts)
  IN  IF left = 0 THEN [facts |-> facts, converged |-> FALSE]
      ELSE IF next = facts THEN [facts |-> facts, converged |-> TRUE]
      ELSE DefinitionRounds(P, cfg, order, next, left - 1)

ReachingDefinitions(P, f, cfg) ==
  LET nodes == NodesOf(P, f, cfg)
      none == [n \in nodes |-> [reach |-> {}, leave |-> {}]]
  IN  DefinitionRounds(P, cfg, Ordered(nodes), none, 2 * Cardinality(nodes))

State(n, v) == <<n, v>>
Phi(n, v) == <<n, v, "phi">>
DataEdge(from, to, kind) == [from |-> from, to |-> to, kind |-> kind]

Reaching(in, n, v) == {d[2] : d \in {x \in in[n].reach : x[1] = v}}

Transforms(P, n, in) ==
  UNION {{DataEdge(State(d, v), State(n, o), "transforms")
            : d \in Reaching(in, n, v), o \in Definitions(P, n)} : v \in Uses(P, n)}

DefUses(P, n, in) == UNION {{DataEdge(State(d, v), n, "def-use") : d \in Reaching(in, n, v)}
                            : v \in Uses(P, n)}

Merges(P, cfg, n, in) == {v \in Uses(P, n) : /\ Cardinality(Predecessors(cfg, n)) >= 2
                                             /\ Cardinality(Reaching(in, n, v)) >= 2}

SsaPhis(P, cfg, n, in) ==
  UNION {{DataEdge(State(d, v), Phi(n, v), "phi-input") : d \in Reaching(in, n, v)}
           \cup {DataEdge(Phi(n, v), n, "def-use")} : v \in Merges(P, cfg, n, in)}

Aliases(P, n, in) ==
  IF ~IsStatement(n) \/ StatementAt(P, n).alias = <<>> THEN {}
  ELSE LET a == StatementAt(P, n).alias
       IN  {DataEdge(State(d, a[2]), State(n, a[1]), "alias") : d \in Reaching(in, n, a[2])}

BuildDataOverlays(P, f, cfg) ==
  LET result == ReachingDefinitions(P, f, cfg)
      facts == result.facts
      nodes == NodesOf(P, f, cfg)
  IN  [edges |-> UNION {Transforms(P, n, facts) \cup DefUses(P, n, facts)
                          \cup SsaPhis(P, cfg, n, facts) \cup Aliases(P, n, facts) : n \in nodes},
       converged |-> result.converged]

(* ---- calls ----------------------------------------------------------------- *)

ExceptionalKinds ==
  {"exception", "exception-dispatch", "finally-resume-terminal", "uncaught-exception"}
NormalContinuations(cfg, n) ==
  {e.to : e \in {d \in cfg : d.from = n /\ d.kind \notin ExceptionalKinds}}

CallEdge(n, g) == [from |-> n, to |-> EntryNode(g), kind |-> "interprocedural-call", site |-> n]
ReturnEdge(n, g, to) ==
  [from |-> ExitNode(g), to |-> to, kind |-> "interprocedural-return", site |-> n]

OverlayCalls(P, cfg) ==
  UNION {LET n == StatementNode(f, s)
         IN  {CallEdge(n, s.call)} \cup {ReturnEdge(n, s.call, to) : to \in NormalContinuations(cfg, n)}
         : <<f, s>> \in UNION {{<<f, s>> : s \in {t \in StatementsIn(P[f].body) : t.call # 0}}
                               : f \in DOMAIN P}}

Build(P) ==
  LET Overlaid(cfg, data) == [edges |-> cfg \cup OverlayCalls(P, cfg),
                              data |-> UNION {data[f].edges : f \in DOMAIN P},
                              converged |-> \A f \in DOMAIN P : data[f].converged]
      Graph(cfgs) == Overlaid(UNION {cfgs[f] : f \in DOMAIN P},
                              [f \in DOMAIN P |-> BuildDataOverlays(P, f, cfgs[f])])
  IN  Graph([f \in DOMAIN P |-> BuildFunction(P, f)])

(* ---- the context-balanced path query --------------------------------------- *)

\* The stack of call sites after an edge; "blocked" when it may not be taken.
Blocked == <<NoNode>>
TooDeep == <<NoNode, NoNode>>
Follow(e, stack, maxDepth) ==
  CASE e.kind = "interprocedural-call" ->
         IF Len(stack) >= maxDepth THEN TooDeep ELSE Append(stack, e.site)
    [] e.kind = "interprocedural-return" ->
         IF stack = <<>> \/ Last(stack) # e.site THEN Blocked ELSE Front(stack)
    [] OTHER -> stack

Reconstruct(path, node) == Append(path, node)

Answer(status, path) == [status |-> status, path |-> path]

\* Breadth first over pairs of a node and a stack; `queue` holds them with the
\* path that led there, `seen` without.
RECURSIVE Explore(_, _, _, _)
Explore(q, queue, seen, search) ==
  IF queue = <<>>
  THEN IF search.truncated THEN Answer("limit", <<>>) ELSE Answer("none", <<>>)
  ELSE IF search.explored >= q.maxStates THEN Answer("limit", <<>>)
  ELSE LET here == Head(queue)
           path == Reconstruct(here.path, here.node)
           out == {e \in q.edges : e.from = here.node}
           after == [e \in out |-> Follow(e, here.stack, q.maxDepth)]
           next == {<<e.to, after[e]>> : e \in {x \in out : after[x] \notin {Blocked, TooDeep}}} \ seen
           found == Ordered({[node |-> s[1], stack |-> s[2], path |-> path] : s \in next})
       IN  IF here.node = q.target /\ (q.empty => here.stack = <<>>) THEN Answer("found", path)
           ELSE Explore(q, Tail(queue) \o found, seen \cup next,
                        [explored |-> search.explored + 1,
                         truncated |-> search.truncated \/ \E e \in out : after[e] = TooDeep])

ContextBalancedPath(edges, source, target, empty, maxDepth, maxStates) ==
  Explore([edges |-> edges, target |-> target, empty |-> empty, maxDepth |-> maxDepth,
           maxStates |-> maxStates],
          <<[node |-> source, stack |-> <<>>, path |-> <<>>]>>, {<<source, <<>>>>},
          [explored |-> 0, truncated |-> FALSE])
=============================================================================
