------------------------- MODULE ControlFlowMeaning -------------------------
(***************************************************************************)
(* What the programs of module ControlFlow mean: a machine that executes   *)
(* the statements of one program, choosing freely how conditions turn out  *)
(* and, inside the body of a try statement, which statements raise.  Its   *)
(* properties relate every execution to the graph the scanner built.       *)
(*                                                                         *)
(* The executions the graph says nothing about are left out: exceptions    *)
(* raised outside every try body, by nothing a catch names, or in a callee *)
(* and past its end.                                                       *)
(***************************************************************************)
EXTENDS ControlFlow

CONSTANTS FlowPrograms,   \* the programs: function -> [params, body]
          MaxCalls        \* depth of calls an execution reaches

ASSUME ControlFlowAssumption == MaxCalls \in Nat

VARIABLES flowProgram,   \* the program
          flowGraph,     \* the graph built of it
          at,            \* the node being executed
          activation,    \* what runs: its frames, innermost first
          calls,         \* the call sites of the open calls
          lastDefs,      \* who defined each variable last, per open activation
          omitted        \* the execution took a way known to be missing in the graph

flowVars == <<flowProgram, flowGraph, at, activation, calls, lastDefs, omitted>>

\* A frame: "seq" the statements still to run, "loop", "switch" in a case,
\* "body", "guard" (catch or else) or "final" of a try, "call" of a function.
Frame(kind, s, rest, how) == [kind |-> kind, stmt |-> s, rest |-> rest, how |-> how]
NoStatement == [id |-> <<>>]
SeqFrame(ss) == Frame("seq", NoStatement, ss, "next")
Place(f, s, frames) == [fun |-> f, stmt |-> s, frames |-> frames, left |-> 0]
Returns(how) == [fun |-> 0, stmt |-> NoStatement, frames |-> <<>>, left |-> 1]

RECURSIVE Resume(_, _, _)

\* The finally block of s, then whatever was going on.
Finally(f, s, below, signal) ==
  IF s.final = <<>> THEN Resume(f, below, signal)
  ELSE Resume(f, <<SeqFrame(s.final[1]), Frame("final", s, <<>>, signal)>> \o below, "next")

EnterCase(f, s, k, below) ==
  Resume(f, <<SeqFrame(s.blocks[k]), Frame("switch", s, <<>>, k)>> \o below, "next")

\* Where a signal leads from a stack of frames: the statements executed next.
Resume(f, frames, signal) ==
  IF frames = <<>> THEN IF signal = "throw" THEN {} ELSE {Returns(signal)}
  ELSE LET top == Head(frames)
           below == Tail(frames)
           s == top.stmt
       IN  CASE top.kind = "seq" /\ signal = "next" ->
                  IF top.rest = <<>> THEN Resume(f, below, "next")
                  ELSE {Place(f, Head(top.rest), <<SeqFrame(Tail(top.rest))>> \o below)}
             [] top.kind = "loop" /\ signal \in {"next", "continue"} -> {Place(f, s, below)}
             [] top.kind \in {"loop", "switch"} /\ signal = "break" -> Resume(f, below, "next")
             [] top.kind = "switch" /\ signal = "next" ->
                  IF s.type = "switch" /\ top.how < Len(s.blocks)
                  THEN EnterCase(f, s, top.how + 1, below) ELSE Resume(f, below, "next")
             [] top.kind = "body" /\ signal = "throw" /\ s.blocks # <<>> ->
                  UNION {Resume(f, <<SeqFrame(s.blocks[k]), Frame("guard", s, <<>>, "next")>> \o below,
                                "next") : k \in DOMAIN s.blocks}
             [] top.kind = "body" /\ signal = "next" /\ s.other # <<>> ->
                  Resume(f, <<SeqFrame(s.other[1]), Frame("guard", s, <<>>, "next")>> \o below, "next")
             [] top.kind \in {"body", "guard"} -> Finally(f, s, below, signal)
             [] top.kind = "final" /\ signal = "next" -> Resume(f, below, top.how)
             [] OTHER -> Resume(f, below, signal)

\* What may follow s, its call made.
After(f, s, frames) ==
  CASE s.type = "if" ->
         Resume(f, <<SeqFrame(s.body)>> \o frames, "next")
           \cup IF s.blocks = <<>> THEN Resume(f, frames, "next")
                ELSE Resume(f, <<SeqFrame(s.blocks[1])>> \o frames, "next")
    [] s.type = "loop" ->
         Resume(f, <<SeqFrame(s.body), Frame("loop", s, <<>>, "next")>> \o frames, "next")
           \cup Resume(f, frames, "next")
    [] s.type \in {"switch", "when"} ->
         UNION {EnterCase(f, s, k, frames) : k \in DOMAIN s.blocks}
           \cup IF s.default = {} THEN Resume(f, frames, "next") ELSE {}
    [] s.type = "try" ->
         LET inside == <<Frame("body", s, <<>>, "next")>> \o frames
         IN  Resume(f, <<SeqFrame(s.body)>> \o inside, "next")
               \cup IF s.blocks = <<>> THEN {} ELSE Resume(f, inside, "throw")   \* a resource
    [] s.type \in {"break", "continue", "return", "throw"} -> Resume(f, frames, s.type)
    [] OTHER -> Resume(f, frames, "next")

RECURSIVE InTryBody(_)
InTryBody(frames) ==
  frames # <<>> /\ (\/ Head(frames).kind = "body"
                    \/ Head(frames).kind \notin {"guard", "final"} /\ InTryBody(Tail(frames)))

\* The try statements whose finally blocks a signal runs on its way out.
RECURSIVE Crossed(_, _)
Crossed(frames, signal) ==
  IF frames = <<>> THEN <<>>
  ELSE LET top == Head(frames)
           s == top.stmt
           outer == Crossed(Tail(frames), signal)
       IN  CASE top.kind \in {"loop", "switch"} /\ signal = "break" -> <<>>
             [] top.kind = "loop" /\ signal = "continue" -> <<>>
             [] top.kind = "body" /\ signal = "throw" /\ s.blocks # <<>> -> <<>>
             [] top.kind \in {"body", "guard"} /\ s.final # <<>> -> <<s>> \o outer
             [] OTHER -> outer

RECURSIVE InnermostCatches(_)
InnermostCatches(frames) == IF Head(frames).kind = "body" THEN Head(frames).stmt.blocks # <<>>
                            ELSE InnermostCatches(Tail(frames))

WithCatch(ss) == {i \in DOMAIN ss : ss[i].blocks # <<>>}

\* What the graph misses: a break or continue runs no finally block on its
\* way; a finally block that another one, or an exception nobody caught, leads
\* into does not go on with the jump when its try has catches; and a variable
\* a statement was about to set has lost its old value in a finally block.
MissesJump(s, frames) ==
  CASE s.type \in {"break", "continue"} -> Crossed(frames, s.type) # <<>>
    [] s.type \in {"return", "throw"} -> WithCatch(Crossed(frames, s.type)) \ {1} # {}
    [] OTHER -> FALSE
MissesRaise(frames, early) == \/ WithCatch(Crossed(frames, "throw")) # {}
                              \/ early /\ ~InnermostCatches(frames)

(* ---- the machine ---------------------------------------------------------- *)

Top == Head(activation)
Here == StatementNode(Top.fun, Top.stmt)
MainProgram == 1

Recorded(n) == [v \in Definitions(flowProgram, n) \cup DOMAIN Head(lastDefs) |->
                  IF v \in Definitions(flowProgram, n) THEN n ELSE Head(lastDefs)[v]]
Fresh(f) == [v \in flowProgram[f].params |-> EntryNode(f)]

FlowInit ==
  /\ flowProgram \in FlowPrograms /\ flowGraph = Build(flowProgram)
  /\ at = EntryNode(MainProgram)
  /\ activation = <<[fun |-> MainProgram, stmt |-> NoStatement, frames |-> <<>>, phase |-> "entered"]>>
  /\ calls = <<>> /\ lastDefs = <<Fresh(MainProgram)>>
  /\ omitted = FALSE

Phase(p) == Top.phase = p
Work(o, phase) == [fun |-> o.fun, stmt |-> o.stmt, frames |-> o.frames, phase |-> phase]

\* Go to one of the outcomes: a statement, or the exit of the function.
Goes(outcomes) ==
  \E o \in outcomes :
    IF o.left = 0
    THEN /\ activation' = <<Work(o, "ready")>> \o Tail(activation)
         /\ at' = StatementNode(o.fun, o.stmt)
    ELSE /\ activation' = <<[Top EXCEPT !.phase = "left"]>> \o Tail(activation)
         /\ at' = ExitNode(Top.fun)

EnterBody ==
  /\ Phase("entered")
  /\ Goes(Resume(Top.fun, <<SeqFrame(flowProgram[Top.fun].body)>>, "next"))
  /\ UNCHANGED <<flowProgram, flowGraph, calls, lastDefs, omitted>>

Defined == <<Recorded(at)>> \o Tail(lastDefs)

ExecuteStatement ==
  /\ Phase("ready") /\ Top.stmt.call = 0
  /\ Goes(After(Top.fun, Top.stmt, Top.frames))
  /\ lastDefs' = Defined
  /\ omitted' = (omitted \/ MissesJump(Top.stmt, Top.frames))
  /\ UNCHANGED <<flowProgram, flowGraph, calls>>

\* A statement raises before or after it took effect.
RaiseInTry ==
  /\ Phase("ready") /\ InTryBody(Top.frames)
  /\ Goes(Resume(Top.fun, Top.frames, "throw"))
  /\ \E early \in BOOLEAN :
       /\ lastDefs' = IF early THEN lastDefs ELSE Defined
       /\ omitted' = (omitted \/ MissesRaise(Top.frames, early))
  /\ UNCHANGED <<flowProgram, flowGraph, calls>>

CallFunction ==
  /\ Phase("ready") /\ Top.stmt.call # 0 /\ Len(calls) < MaxCalls
  /\ LET g == Top.stmt.call
     IN  /\ activation' = <<[fun |-> g, stmt |-> NoStatement, frames |-> <<>>, phase |-> "entered"],
                            [Top EXCEPT !.phase = "called"]>> \o Tail(activation)
         /\ at' = EntryNode(g)
         /\ lastDefs' = <<Fresh(g)>> \o Defined
  /\ calls' = Append(calls, Here)
  /\ UNCHANGED <<flowProgram, flowGraph, omitted>>

ReturnToCaller ==
  /\ Phase("left") /\ Len(activation) > 1
  /\ LET caller == activation[2]
     IN  \E o \in After(caller.fun, caller.stmt, caller.frames) :
           IF o.left = 0
           THEN /\ activation' = <<Work(o, "ready")>> \o SubSeq(activation, 3, Len(activation))
                /\ at' = StatementNode(o.fun, o.stmt)
           ELSE /\ activation' = <<[caller EXCEPT !.phase = "left"]>> \o SubSeq(activation, 3, Len(activation))
                /\ at' = ExitNode(caller.fun)
  /\ calls' = Front(calls) /\ lastDefs' = Tail(lastDefs)
  /\ UNCHANGED <<flowProgram, flowGraph, omitted>>

FlowNext == EnterBody \/ ExecuteStatement \/ RaiseInTry \/ CallFunction \/ ReturnToCaller

(* ---- what the graph owes to the executions -------------------------------- *)

\* The nodes an edge path reaches from n through joins only.
RECURSIVE ThroughJoins(_, _)
ThroughJoins(front, seen) ==
  LET next == {e.to : e \in {d \in flowGraph.edges : d.from \in front}} \ seen
      joins == {n \in next : n[3] \notin {"statement", "entry", "exit"}}
  IN  IF next = {} THEN seen ELSE ThroughJoins(joins, seen \cup next)

Leads == at' \in ThroughJoins({at}, {})

\* Every step of every execution goes along edges of the graph.
StepsAreEdges == [][~omitted' => Leads]_at

\* The balanced query finds a path to every point an execution reaches, with
\* no open call where the execution has none, unless it says it gave up.
ReachedIsFound ==
  ~omitted =>
    ContextBalancedPath(flowGraph.edges, EntryNode(MainProgram), at, calls = <<>>, MaxCalls, 500).status
      # "none"

\* What a statement reads of the variables it sets itself, as in x = f(x, y):
\* the graph has no use of those.
Updated(s) == s.names \cap s.defs

\* Wherever a statement runs, the definition each variable it reads really got
\* its value from is among the data-flow edges: to the use, to the phi where
\* several meet, and to what the statement defines.
DataFlowIsInGraph ==
  Phase("ready") /\ ~omitted =>
    \A v \in (Top.stmt.names \ Updated(Top.stmt)) \cap DOMAIN Head(lastDefs) :
      LET from == State(Head(lastDefs)[v], v)
          data == flowGraph.data
      IN  /\ DataEdge(from, at, "def-use") \in data
          /\ DataEdge(Phi(at, v), at, "def-use") \in data => DataEdge(from, Phi(at, v), "phi-input") \in data
          /\ \A o \in Top.stmt.defs : DataEdge(from, State(at, o), "transforms") \in data

=============================================================================
