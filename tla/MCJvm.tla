------------------------------- MODULE MCJvm --------------------------------
(***************************************************************************)
(* What the Java machine does with the classes and the sources of module   *)
(* JvmBytecode, and what the analyses owe to it.                           *)
(* Nothing here models code: it is the yardstick.                          *)
(***************************************************************************)
EXTENDS JvmBytecode

(* ---- compiled classes ------------------------------------------------------- *)

\* The classes the machine loads: from the first JAR of the class path that has
\* one of the name, in the newest version it accepts.
RuntimeClasspath(entries) == SelectSeq(entries, LAMBDA e : e.scope # "test")
HasClass(e, name) == \E m \in e.jar : m.logical = name /\ m.version <= TargetJava
RuntimeClass(entries, name) ==
  LET path == RuntimeClasspath(entries)
      first == CHOOSE i \in DOMAIN path :
                 HasClass(path[i], name) /\ \A j \in 1..(i - 1) : ~HasClass(path[j], name)
      member == CHOOSE m \in path[first].jar :
                  /\ m.logical = name /\ m.version <= TargetJava
                  /\ \A n \in path[first].jar :
                       n.logical = name /\ n.version <= TargetJava => n.version <= m.version
  IN  [artifact |-> path[first].artifact, fact |-> member.class]
RuntimeNames(entries) ==
  {n \in {m.logical : m \in UNION {e.jar : e \in ToSet(RuntimeClasspath(entries))}} :
     \E e \in ToSet(RuntimeClasspath(entries)) : HasClass(e, n)}
RuntimeClasses(entries) == {RuntimeClass(entries, n) : n \in RuntimeNames(entries)}

Named(classes, names) == {c \in classes : c.fact.name \in names}

\* The class, its superclass, and so on.
RECURSIVE Superclasses(_, _)
Superclasses(classes, c) ==
  LET up == Named(classes, {c.fact.super})
  IN  <<c>> \o (IF up = {} THEN <<>> ELSE Superclasses(classes, CHOOSE p \in up : TRUE))

RECURSIVE Interfaces(_, _)
Interfaces(classes, cs) ==
  LET more == Named(classes, UNION {c.fact.interfaces : c \in cs})
  IN  IF more \subseteq cs THEN cs ELSE Interfaces(classes, cs \cup more)

Instance(c, signature) ==
  signature \in DOMAIN c.fact.methods /\ c.fact.methods[signature] # "static"

\* The method selected for an object of the class: of the nearest class that has
\* it, else of the one most specific interface that has it.
SelectedMethods(classes, c, signature) ==
  LET chain == Superclasses(classes, c)
      own == {i \in DOMAIN chain : Instance(chain[i], signature)}
      all == Interfaces(classes, ToSet(chain)) \ ToSet(chain)
      having == {i \in all : Instance(i, signature)}
      specific == {i \in having : \A j \in having : i \in Interfaces(classes, {j}) => i = j}
      code == {i \in specific : i.fact.methods[signature] = "code"}
  IN  IF own # {}
      THEN LET k == CHOOSE k \in own : \A j \in own : k <= j
           IN  IF chain[k].fact.methods[signature] = "code" THEN {MethodNode(chain[k], signature)}
               ELSE {}
      ELSE IF Cardinality(code) = 1 THEN {MethodNode(i, signature) : i \in code} ELSE {}

RuntimeSubtype(classes, c, owner) ==
  \E d \in Interfaces(classes, ToSet(Superclasses(classes, c))) : d.fact.name = owner

Complete(b) == b.rejected = 0 /\ ~b.warned

\* A superclass inherits a default of its own; the importer takes that one even
\* where an interface of the class has a more specific one.
HidesDefault(classes, c, signature) ==
  LET chain == Superclasses(classes, c)
  IN  /\ \A d \in ToSet(chain) : ~Instance(d, signature)
      /\ \E i \in Interfaces(classes, ToSet(Tail(chain))) : Instance(i, signature)

\* Another JAR provides a superclass once more; what that one inherits hides the
\* defaults as well.
SeveralSuperclasses(loaded, classes, c) ==
  \E d \in ToSet(Tail(Superclasses(classes, c))) : Cardinality(Providers(loaded, d.fact.name)) > 1

\* What the graph records of one class, against what the machine does with it:
\* the methods its calls may run, and the classes it is built on.
Covers(edges, classes, call, c) ==
  \A m \in SelectedMethods(classes, c, call.signature) :
    /\ \E e \in edges : e.kind \in {"bytecode-invoke", "bytecode-invoke-candidate"} /\ e.target = m
    /\ c.fact.name \in Instantiated(classes) => [kind |-> "bytecode-rta-invoke", target |-> m] \in edges

NamesRuntimeClass(classes, e) ==
  e.kind \in {"bytecode-extends", "bytecode-implements"} =>
    e.target[1] = "" \/ e.target \in {Identity(d) : d \in classes}

ClassCovered(loaded, classes, node) ==
  LET owner == CHOOSE d \in loaded : Identity(d) = node.from
  IN  owner \in classes =>
        /\ \A e \in node.edges : NamesRuntimeClass(classes, e)
        /\ \A c \in classes : \A call \in owner.fact.invokes :
             (/\ call.kind \in {"virtual", "interface"} /\ c.fact.concrete
              /\ RuntimeSubtype(classes, c, call.owner)
              /\ ~HidesDefault(classes, c, call.signature)
              /\ ~SeveralSuperclasses(loaded, classes, c))
             => Covers(node.edges, classes, call, c)

DispatchCovered(entries) ==
  LET b == Imported(entries)
      Judge(graph, classes) ==
        Complete(b) => /\ classes \subseteq b.loaded
                       /\ \A node \in graph : ClassCovered(b.loaded, classes, node)
  IN  Judge(EmitClassGraph(b.loaded), RuntimeClasses(entries))

(* ---- source programs ----------------------------------------------------------- *)

\* What a variable holds: an object, and whether it came there in a way that the
\* analysis follows.
NoObject == [type |-> "", seen |-> FALSE]
Unseen(o) == [o EXCEPT !.seen = FALSE]

\* A variable that is declared already gets a new object: the analysis finds no
\* allocation there, and so neither the calls on the object nor what they pass on.
Reassigned(s) == ~s.declares /\ s.lhs # ReturnValue

RECURSIVE ClassChain(_, _)
ClassChain(P, t) ==
  LET up == {p \in P.types[t].parents : ~P.types[p].interface}
  IN  <<t>> \o (IF up = {} THEN <<>> ELSE ClassChain(P, CHOOSE p \in up : TRUE))

HasCode(P, t, call) ==
  /\ call.callee \in DOMAIN P.types[t].methods
  /\ LET fn == P.functions[P.types[t].methods[call.callee]]
     IN  ~fn.abstract /\ Len(fn.params) = Len(call.args)

\* What an object of the type does: the method of the nearest class, else the
\* default of an interface.
JavaMethod(P, t, call) ==
  LET chain == ClassChain(P, t)
      own == {i \in DOMAIN chain : HasCode(P, chain[i], call)}
      defaults == {s \in Ancestors(P, {t}) : P.types[s].interface /\ HasCode(P, s, call)}
      Of(s) == {P.types[s].methods[call.callee]}
  IN  IF own # {} THEN Of(chain[CHOOSE i \in own : \A j \in own : i <= j])
      ELSE UNION {Of(s) : s \in {s \in defaults : \A d \in defaults : s \in Ancestors(P, {d}) => s = d}}

RECURSIVE Run(_, _, _, _, _)
\* Runs the i-th statement of f and those after it; done is what happened so
\* far: the calls on known objects, and what the function returns. What a call on
\* an unseen object is given and returns is unseen.
Run(P, f, i, r, deep) ==
  LET body == P.functions[f].body
      s == body[i]
      Value(v) == IF v \in DOMAIN r.env THEN r.env[v] ELSE NoObject
      Store(v, o) == IF v = "" THEN r.env ELSE [x \in DOMAIN r.env \cup {v} |-> IF x = v THEN o ELSE r.env[x]]
  IN  IF i > Len(body) \/ r.over THEN r
      ELSE CASE s.kind = "new" -> Run(P, f, i + 1, [r EXCEPT !.env = Store(s.lhs, [type |-> s.type, seen |-> ~Reassigned(s)]),
                                                     !.over = s.lhs = ReturnValue], deep)
             [] s.kind = "copy" -> Run(P, f, i + 1, [r EXCEPT !.env = Store(s.lhs, Value(s.rhs))], deep)
             [] s.kind = "return" -> [r EXCEPT !.env = Store(ReturnValue, Value(s.rhs)), !.over = TRUE]
             [] s.kind = "call" ->
                  LET Passed(object, o) == IF object.seen \/ object = NoObject THEN o ELSE Unseen(o)
                      Env(object, params) ==
                        [v \in ToSet(params) \cup {"this"} |->
                           IF v = "this" THEN object
                           ELSE Passed(object, Value(s.args[CHOOSE k \in DOMAIN params : params[k] = v]))]
                      After(object, g, inner) ==
                        [env |-> Store(s.lhs, IF ReturnValue \in DOMAIN inner.env
                                              THEN Passed(object, inner.env[ReturnValue]) ELSE NoObject),
                         over |-> s.lhs = ReturnValue,
                         events |-> r.events \cup inner.events
                                    \cup (IF object = NoObject THEN {}
                                          ELSE {[caller |-> f, callee |-> g, at |-> i, on |-> object]})]
                      Entered(object, g) ==
                        After(object, g, Run(P, g, 1, [env |-> Env(object, P.functions[g].params),
                                                       over |-> FALSE, events |-> {}], deep - 1))
                      Called(object, targets) ==
                        Run(P, f, i + 1, IF targets = {} \/ deep = 0 THEN [r EXCEPT !.env = Store(s.lhs, NoObject)]
                                         ELSE Entered(object, CHOOSE g \in targets : TRUE), deep)
                      On(object) == Called(object, IF s.recv # "" /\ object # NoObject
                                                   THEN JavaMethod(P, object.type, s) ELSE SelectPointsTarget(P, s))
                  IN  On(Value(s.recv))

Events(P) ==
  UNION {Run(P, f, 1, [env |-> [v \in {} |-> NoObject], over |-> FALSE, events |-> {}], 3).events :
           f \in DOMAIN P.functions}

\* A class and an interface declare the method on the same level above the type:
\* the solver calls that a tie and the machine does not.
TiedAbove(P, t, call) == DispatchTargetForType(P, t, call) = {} /\ JavaMethod(P, t, call) # {}

ReceiversFound(P) ==
  LET At(e) == P.functions[e.caller].body[e.at]
      Found(s, events) ==
        (~s.truncated /\ \A e \in events : ~TiedAbove(P, e.on.type, At(e))) =>
          \A e \in events :
            LET edge == [caller |-> e.caller, callee |-> e.callee, at |-> e.at]
            IN  /\ e.on.seen => edge \in s.rta
                /\ (Typed(P, At(e).declared) /\ At(e).declared \in Ancestors(P, {e.on.type}))
                     => edge \in ChaCalls(P, e.caller)
  IN  Found(AnalyzePointsTo(P), Events(P))

(***************************************************************************)
(* The instance that is checked.                                           *)
(***************************************************************************)

(* ---- class paths: A and B extends A, the interfaces I and J -------------------- *)

Methods(flag) == IF flag = "none" THEN [x \in {} |-> ""] ELSE [x \in {"m()"} |-> flag]
Class(name, super, interfaces, concrete, flag) ==
  [name |-> name, super |-> super, interfaces |-> interfaces, concrete |-> concrete,
   methods |-> Methods(flag), allocates |-> {}, invokes |-> {}]
Call(kind, owner) == [kind |-> kind, owner |-> owner, signature |-> "m()", lambda |-> <<>>]
Main == [Class("Main", "", {}, TRUE, "none") EXCEPT
           !.allocates = {"B"},
           !.invokes = {Call("virtual", "A"), Call("virtual", "B"), Call("interface", "I"),
                        Call("interface", "J"),
                        [Call("dynamic", "<dynamic>") EXCEPT !.lambda = <<"A", "m()">>], Call("static", "B")}]
Member(class) == [logical |-> class.name, version |-> 0, fault |-> "none", class |-> class]
Entry(artifact, jar) ==
  [scope |-> "compile", fault |-> "none", artifact |-> artifact, digest |-> artifact, size |-> 1,
   jar |-> jar]

Flags == {"none", "code", "abstract"}
Hierarchies ==
  {[A |-> Class("A", "", ai, af # "abstract", af), B |-> Class("B", sb, bi, TRUE, bf),
    I |-> Class("I", "", {}, FALSE, fi), J |-> Class("J", "", ji, FALSE, fj)] :
     ai \in {{}, {"I"}}, af \in Flags, sb \in {"", "A"}, bi \in SUBSET {"I", "J"},
     bf \in {"none", "code"}, fi \in Flags, ji \in {{}, {"I"}}, fj \in Flags}

\* One JAR; or two, the second with another B first or last; or a newer form of
\* B for a release that is taken and one that is not; or something is refused.
Classpaths(h) ==
  LET jar == {Member(c) : c \in {Main, h.A, h.I, h.J}}
      b == Member(h.B)
      other == Member([h.B EXCEPT !.methods = Methods("code"), !.super = ""])
  IN  {<<Entry("a1", jar \cup {b})>>,
       <<Entry("a1", jar), Entry("a2", {b}), Entry("a3", {other})>>,
       <<[Entry("a0", {other}) EXCEPT !.scope = "test"],
         Entry("a1", jar \cup {b, [other EXCEPT !.version = 11]})>>,
       <<Entry("a1", jar \cup {b, [other EXCEPT !.version = 99]}), Entry("a1", jar)>>,
       <<Entry("a1", jar \cup {b}), Entry("a2", {Member([h.A EXCEPT !.methods = Methods("code")])})>>,
       <<Entry("a1", jar), [Entry("a2", {b}) EXCEPT !.size = 9]>>,
       <<Entry("a1", jar \cup {[b EXCEPT !.fault = "class"]})>>}

BytecodeCases(h) == {[part |-> "bytecode", entries |-> p] : p \in Classpaths(h)}

(* ---- programs: B extends A and implements I, a factory, callers ------------------- *)

New(v, t) == [kind |-> "new", lhs |-> v, type |-> t, declares |-> v # ReturnValue]
Assign(v, t) == [New(v, t) EXCEPT !.declares = FALSE]
Copy(v, w) == [kind |-> "copy", lhs |-> v, rhs |-> w]
Return(v) == [kind |-> "return", rhs |-> v]
Invoke(v, recv, declared, callee, args) ==
  [kind |-> "call", lhs |-> v, callee |-> callee, recv |-> recv, declared |-> declared, args |-> args]
Fn(name, owner, params, body) ==
  [name |-> name, owner |-> owner, params |-> params, body |-> body, abstract |-> FALSE]

Bodies == {<<Return("this")>>, <<New("x", "A"), Return("x")>>, <<Return("p")>>,
           <<Invoke("y", "p", "A", "m", <<"this">>), Return("y")>>}
Factories == {<<Return("p")>>, <<New(ReturnValue, "B")>>,
              <<New("x", "A"), Copy("p", "x"), Return("p")>>,
              <<Invoke(ReturnValue, "", "", "make", <<"p">>)>>}
Callers == {<<New("x", "A"), Invoke("y", "", "", "make", <<"x">>),
              Invoke("z", "y", "A", "m", <<"x">>), Invoke("", "z", "A", "m", <<"y">>)>>,
            <<New("x", "B"), Copy("y", "x"), Invoke("z", "y", "I", "m", <<"y">>),
              Invoke("", "z", "I", "m", <<"x">>)>>,
            <<New("x", "B"), Invoke("y", "", "", "make", <<"x">>), New("x", "A"),
              Invoke("y", "x", "A", "m", <<"y">>),
              Copy("x", "y"), Invoke("", "x", "A", "m", <<"x">>)>>,
            <<New("x", "B"), Invoke("y", "", "", "make", <<"x">>), Assign("x", "A"),
              Copy("w", "y"), Invoke("z", "w", "A", "m", <<"x">>), Invoke("", "x", "A", "m", <<"z">>)>>}
SourceProgram(parentsA, parentsB, methodsB, a, b, d, make, main) ==
  [types |-> [A |-> [parents |-> parentsA, interface |-> FALSE, methods |-> [m |-> 1]],
              B |-> [parents |-> parentsB, interface |-> FALSE,
                     methods |-> IF methodsB THEN [m |-> 2] ELSE [x \in {} |-> 0]],
              I |-> [parents |-> {}, interface |-> TRUE, methods |-> [m |-> 3]]],
   functions |-> <<Fn("m", "A", <<"p">>, a), Fn("m", "B", <<"p">>, b),
                   [Fn("m", "I", <<"p">>, IF d THEN <<Return("p")>>
                                          ELSE <<>>) EXCEPT !.abstract = ~d],
                   Fn("make", "", <<"p">>, make), Fn("main", "", <<>>, main)>>]
SourceCases(main) ==
  {[part |-> "source", program |-> SourceProgram(pa, pb, mb, a, b, d, make, main)] :
     pa \in {{}, {"I"}}, pb \in {{"A"}, {"A", "I"}}, mb \in BOOLEAN, a \in Bodies, b \in Bodies,
     d \in BOOLEAN, make \in Factories}

JvmHolds(c) == IF c.part = "bytecode" THEN DispatchCovered(c.entries) ELSE ReceiversFound(c.program)
=============================================================================
