---------------------------- MODULE JvmBytecode ----------------------------
(***************************************************************************)
(* The importer of compiled Java classes: which classes of a classpath     *)
(* snapshot it takes, and which methods it says their calls may reach.     *)
(*                                                                         *)
(* A class file is a record [name, super, interfaces, concrete, methods,   *)
(* allocates, invokes]: super is "" for a root, methods maps a signature   *)
(* (name and descriptor in one) to "code", "static" or "abstract",         *)
(* allocates is the set of types its code creates, invokes the set of its  *)
(* calls [kind, owner, signature, lambda].  A JAR is a set of members [logical,    *)
(* version, fault, class], version 0 being the one outside                 *)
(* META-INF/versions.  Bytes are what the parser makes of them.            *)
(***************************************************************************)
EXTENDS Naturals, Sequences, FiniteSets, FiniteSetsExt, SequencesExt

CONSTANTS TargetJava,       \* the Java release the snapshot was taken for
          MaxClasses,       \* classes the importer takes
          MaxTotalSize      \* size of all JARs the importer takes

(* ---- the snapshot -------------------------------------------------------- *)

\* Of each class the newest version the target release accepts; a member with
\* an unsafe name or type never gets in.
SelectedClasses(jar) ==
  LET usable == {m \in jar : m.fault # "member" /\ m.version <= TargetJava}
  IN  {m \in usable : \A n \in usable : n.logical = m.logical => n.version <= m.version}

\* What is read of a class file: nothing, when it is too large, inflates too
\* much or does not parse.
Parsed(artifact, m) ==
  IF m.fault = "none" THEN {[artifact |-> artifact, fact |-> m.class]} ELSE {}

\* A set of classes cut at the limit; more says that some were left out.
ParseJar(artifact, jar, room) ==
  LET selected == SelectedClasses(jar)
      Take(m, acc) == IF Cardinality(acc.classes) >= room THEN [acc EXCEPT !.warned = TRUE]
                      ELSE [classes |-> acc.classes \cup Parsed(artifact, m),
                            warned |-> acc.warned \/ m.fault # "none"]
  IN  FoldSet(Take, [classes |-> {}, warned |-> \E m \in jar : m.fault = "member"], selected)

\* Each entry of the snapshot in its order: [scope, fault, artifact, digest,
\* size, jar].  A digest that was counted once is not counted again, but one
\* that did not fit stays in the sum.
ImportEntry(b, e) ==
  LET total == IF e.digest \in b.counted THEN b.total ELSE b.total + e.size
      parsed == ParseJar(e.artifact, e.jar, MaxClasses - Cardinality(b.loaded))
  IN  CASE e.scope = "test" -> b
        [] e.scope # "test" /\ e.fault # "none" -> [b EXCEPT !.rejected = @ + 1]
        [] e.scope # "test" /\ e.fault = "none" /\ total > MaxTotalSize ->
             [b EXCEPT !.rejected = @ + 1, !.total = total]
        [] OTHER ->
             [b EXCEPT !.total = total, !.counted = @ \cup {e.digest},
                       !.imported = @ \cup {<<e.digest, e.artifact>>},
                       !.loaded = IF <<e.digest, e.artifact>> \in b.imported THEN @
                                  ELSE @ \cup parsed.classes,
                       !.warned = @ \/ (<<e.digest, e.artifact>> \notin b.imported /\ parsed.warned)]

EmptyBundle ==
  [loaded |-> {}, total |-> 0, counted |-> {}, imported |-> {}, rejected |-> 0, warned |-> FALSE]

Imported(entries) == FoldLeft(ImportEntry, EmptyBundle, entries)

(* ---- what a call may reach -------------------------------------------------- *)

Providers(loaded, name) == {c \in loaded : c.fact.name = name}
Identity(c) == <<c.artifact, c.fact.name>>
MethodNode(c, signature) ==
  [artifact |-> c.artifact, owner |-> c.fact.name, signature |-> signature]
External(call) == [artifact |-> "", owner |-> call.owner, signature |-> call.signature]

\* A class of its own code, or no further search where it is static or abstract.
OwnMethod(c, signature) ==
  IF c.fact.methods[signature] = "code" THEN {MethodNode(c, signature)} ELSE {}

RECURSIVE IsSubtype(_, _, _, _), ResolveInterfaceDefault(_, _, _, _), ResolveVirtualMethod(_, _, _, _)

IsSubtype(loaded, c, owner, visited) ==
  LET parents == ({c.fact.super} \ {""}) \cup c.fact.interfaces
  IN  \/ c.fact.name = owner
      \/ /\ Identity(c) \notin visited
         /\ \/ owner \in parents
            \/ \E p \in UNION {Providers(loaded, n) : n \in parents} :
                 IsSubtype(loaded, p, owner, visited \cup {Identity(c)})

ResolveInterfaceDefault(loaded, c, signature, visited) ==
  IF Identity(c) \in visited THEN {}
  ELSE IF signature \in DOMAIN c.fact.methods THEN OwnMethod(c, signature)
  ELSE UNION {ResolveInterfaceDefault(loaded, p, signature, visited \cup {Identity(c)}) :
                p \in UNION {Providers(loaded, n) : n \in c.fact.interfaces}}

\* A mutant: a class without the method itself is not looked at.
ResolveOwnMethod(loaded, c, signature, visited) ==
  IF signature \in DOMAIN c.fact.methods THEN OwnMethod(c, signature) ELSE {}

\* The defaults of interfaces count only where the superclasses give nothing.
ResolveVirtualMethod(loaded, c, signature, visited) ==
  LET seen == visited \cup {Identity(c)}
      inherited == UNION {ResolveVirtualMethod(loaded, p, signature, seen) :
                            p \in Providers(loaded, c.fact.super)}
  IN  IF Identity(c) \in visited THEN {}
      ELSE IF signature \in DOMAIN c.fact.methods THEN OwnMethod(c, signature)
      ELSE IF inherited # {} THEN inherited
      ELSE UNION {ResolveInterfaceDefault(loaded, p, signature, seen) :
                    p \in UNION {Providers(loaded, n) : n \in c.fact.interfaces}}

Instantiated(loaded) == UNION {c.fact.allocates : c \in loaded}

Receivers(loaded, owner) ==
  {c \in loaded : c.fact.concrete /\ IsSubtype(loaded, c, owner, {})}

Reaches(loaded, receivers, signature) ==
  UNION {ResolveVirtualMethod(loaded, c, signature, {}) : c \in receivers}

\* The edges of one call: kind and target.
Edges(kind, targets) == {[kind |-> kind, target |-> t] : t \in targets}

EmitVirtualInvocation(loaded, call) ==
  LET receivers == Receivers(loaded, call.owner)
      candidates == Reaches(loaded, receivers, call.signature)
      created == {c \in receivers : c.fact.name \in Instantiated(loaded)}
  IN  Edges("bytecode-rta-invoke", Reaches(loaded, created, call.signature))
      \cup CASE Cardinality(candidates) = 1 -> Edges("bytecode-invoke", candidates)
             [] Cardinality(candidates) > 1 -> Edges("bytecode-invoke-candidate", candidates)
             [] OTHER -> Edges("bytecode-invoke-unresolved", {External(call)})

EmitDirectInvocation(loaded, call) ==
  LET targets == {MethodNode(c, call.signature) : c \in Providers(loaded, call.owner)}
  IN  CASE Cardinality(targets) = 1 -> Edges("bytecode-invoke", targets)
        [] targets = {} -> Edges("bytecode-invoke-unresolved", {External(call)})
        [] OTHER -> Edges("bytecode-invoke-candidate", targets)

\* A dynamic call whose bootstrap is the lambda factory calls the method the
\* factory was given; any other keeps a name no class provides.
ResolveInvokedynamic(call) ==
  IF call.kind = "dynamic" /\ call.lambda # <<>>
  THEN [call EXCEPT !.owner = call.lambda[1], !.signature = call.lambda[2]]
  ELSE call

EmitInvocation(loaded, call) ==
  IF call.kind \in {"virtual", "interface"} THEN EmitVirtualInvocation(loaded, call)
  ELSE EmitDirectInvocation(loaded, ResolveInvokedynamic(call))

\* The node of the type an extends, implements, throws or new names.
TypeTarget(loaded, name) ==
  IF Cardinality(Providers(loaded, name)) = 1
  THEN CHOOSE t \in {Identity(c) : c \in Providers(loaded, name)} : TRUE
  ELSE <<"", name>>

EmitHierarchy(loaded, c) ==
  {[kind |-> "bytecode-extends", target |-> TypeTarget(loaded, n)] : n \in {c.fact.super} \ {""}}
    \cup {[kind |-> "bytecode-implements", target |-> TypeTarget(loaded, n)] : n \in c.fact.interfaces}

EmitClassGraph(loaded) ==
  {[from |-> Identity(c), edges |-> EmitHierarchy(loaded, c)
      \cup {[kind |-> "bytecode-allocates", target |-> TypeTarget(loaded, n)] : n \in c.fact.allocates}
      \cup UNION {EmitInvocation(loaded, call) : call \in c.fact.invokes}] : c \in loaded}

(***************************************************************************)
(* The points-to solver for Java and Kotlin sources: which objects, named  *)
(* by where they are created, the variables of each function may hold in   *)
(* each calling context, and which methods its calls reach.                *)
(*                                                                         *)
(* A program is [types, functions].  types maps a type to [parents,        *)
(* methods], methods mapping a name to the number of the function; a       *)
(* function is [name, owner, params, body] with owner "" outside types.    *)
(* A statement of the body is                                              *)
(*   [kind |-> "new", lhs, type, declares]                                 *)
(*   [kind |-> "copy", lhs, rhs]                                           *)
(*   [kind |-> "call", lhs, callee, recv, declared, args]                  *)
(*   [kind |-> "return", rhs]                                              *)
(* with lhs "" for a call whose result is dropped, "<return>" for one that *)
(* is returned, recv "" for none, declared "" where the type of the        *)
(* receiver is not known, and arguments that are variables.  `declares` is *)
(* TRUE where lhs is declared as well: by a type of its own in Java, by    *)
(* val or var in Kotlin.                                                   *)
(***************************************************************************)

CONSTANTS PointsDepth, PointsContexts, PointsIterations

ReturnValue == "<return>"

Typed(P, name) == name \in DOMAIN P.types
Kinds(fn, kind) == {i \in DOMAIN fn.body : fn.body[i].kind = kind}

\* What is taken out of the text of a function; the order of statements is
\* lost, except among its calls.
Aliases(fn) == {<<fn.body[i].lhs, fn.body[i].rhs>> : i \in Kinds(fn, "copy")}
ReturnVariables(fn) ==
  {fn.body[i].rhs : i \in Kinds(fn, "return")}
    \cup ({fn.body[i].lhs : i \in Kinds(fn, "new") \cup Kinds(fn, "call")} \cap {ReturnValue})
Calls(fn) == SetToSortSeq(Kinds(fn, "call"), <)

\* The patterns find an object that a variable is declared with or that is
\* returned as it is made, and none that is assigned later, as in x = new A().
Allocates(s) == s.declares \/ s.lhs = ReturnValue
Allocations(P, f, cs) ==
  LET fn == P.functions[f]
  IN  {<<fn.body[i].lhs, [fn |-> f, at |-> i, context |-> cs, type |-> fn.body[i].type]>> :
         i \in {i \in Kinds(fn, "new") : Allocates(fn.body[i]) /\ Typed(P, fn.body[i].type)}}

\* The parameters, this, and every variable the function assigns.
Variables(fn) ==
  ToSet(fn.params) \cup {"this"} \cup ReturnVariables(fn)
    \cup UNION {{s.lhs} \cup (IF s.kind = "copy" THEN {s.rhs} ELSE {})
                  \cup (IF s.kind = "call" THEN {s.recv} \cup ToSet(s.args) ELSE {}) :
                  s \in {t \in ToSet(fn.body) : t.kind # "return"}}

\* Copies are followed until nothing changes.
RECURSIVE ApplyAliasConstraints(_, _)
ApplyAliasConstraints(local, aliases) ==
  LET next == [v \in DOMAIN local |-> local[v]
               \cup UNION {local[a[2]] : a \in {a \in aliases : a[1] = v}}]
  IN  IF next = local THEN local ELSE ApplyAliasConstraints(next, aliases)

(* ---- dispatch --------------------------------------------------------------- *)

Overloads(P, owners, call) ==
  {P.types[t].methods[call.callee] : t \in {t \in owners : call.callee \in DOMAIN P.types[t].methods}}

\* The arguments fit a method with as many parameters.
Fitting(P, fs, call) == {f \in fs : Len(P.functions[f].params) = Len(call.args)}

\* Level by level up from the type; several methods on one level are a tie, and
\* a tie is no target.
RECURSIVE DispatchLevel(_, _, _, _)
DispatchLevel(P, level, call, seen) ==
  LET found == Fitting(P, Overloads(P, level, call), call)
      above == UNION {P.types[t].parents : t \in level} \ (seen \cup level)
  IN  CASE found # {} -> IF Cardinality(found) = 1 THEN found ELSE {}
        [] level = {} -> {}
        [] OTHER -> DispatchLevel(P, above, call, seen \cup level)
DispatchTargetForType(P, type, call) == DispatchLevel(P, {type}, call, {})

RECURSIVE Ancestors(_, _)
Ancestors(P, ts) ==
  LET more == UNION {P.types[t].parents : t \in ts}
  IN  IF more \subseteq ts THEN ts ELSE Ancestors(P, ts \cup more)

DispatchTargets(P, declared, call) ==
  UNION {DispatchTargetForType(P, t, call) :
         t \in {t \in DOMAIN P.types : declared \in Ancestors(P, {t})}}

SelectPointsTarget(P, call) ==
  LET fitting == Fitting(P, {f \in DOMAIN P.functions : P.functions[f].name = call.callee}, call)
  IN  IF Cardinality(fitting) = 1 THEN fitting ELSE {}

\* The targets of a call and how well they are known.
PointsCallTargets(P, f, call, local) ==
  LET runtime == {o.type : o \in local[call.recv]}
      byType == UNION {DispatchTargetForType(P, t, call) : t \in runtime}
      byName == IF Typed(P, call.recv) THEN DispatchTargetForType(P, call.recv, call) ELSE {}
      byDeclared == IF Typed(P, call.declared) THEN DispatchTargets(P, call.declared, call) ELSE {}
      owner == P.functions[f].owner
      same == IF Typed(P, owner) THEN DispatchTargetForType(P, owner, call) ELSE {}
      Known(targets, how) == [targets |-> targets, how |-> how]
  IN  CASE call.recv # "" /\ runtime # {} -> Known(byType, "receiver")
        [] call.recv # "" /\ runtime = {} /\ byName # {} -> Known(byName, "direct")
        [] call.recv # "" /\ runtime = {} /\ byName = {} ->
             Known(IF Cardinality(byDeclared) = 1 THEN byDeclared ELSE {}, "declared")
        [] call.recv = "" /\ same # {} -> Known(same, "direct")
        [] OTHER -> Known(SelectPointsTarget(P, call), "direct")

(* ---- the rounds ---------------------------------------------------------------- *)

NextContext(cs, f, i) ==
  LET longer == Append(cs, <<f, i>>)
  IN  SubSeq(longer, IF Len(longer) > PointsDepth THEN Len(longer) - PointsDepth + 1
                     ELSE 1, Len(longer))

\* s.params, s.returns and s.observed are sets of facts <<key, object>>.
Held(factSet, key) == {x[2] : x \in {x \in factSet : x[1] = key}}

EnterTarget(P, s, f, cs, call, i, local, target) ==
  LET context == NextContext(cs, f, i)
      params == P.functions[target].params
      passed == {<<<<target, context, params[k]>>, o>> :
                   <<k, o>> \in UNION {{k} \X local[call.args[k]] :
                                       k \in DOMAIN params \cap DOMAIN call.args}}
      this == {<<<<target, context, "this">>, o>> : o \in IF call.recv = "" THEN {}
                                                          ELSE local[call.recv]}
  IN  IF <<target, context>> \notin s.active /\ Cardinality(s.active) >= PointsContexts
      THEN [s EXCEPT !.truncated = TRUE]
      ELSE [s EXCEPT !.active = @ \cup {<<target, context>>},
                     !.params = @ \cup passed \cup this]

\* One call: its targets get the arguments and the receiver, what they are known
\* to return comes back, and the copies are followed again.
EvaluateCall(P, f, cs, acc, i) ==
  LET call == P.functions[f].body[i]
      known == PointsCallTargets(P, f, call, acc.local)
      entered == FoldSet(LAMBDA t, s : EnterTarget(P, s, f, cs, call, i, acc.local, t), acc.state, known.targets)
      edges == {[caller |-> f, callee |-> t, at |-> i] : t \in known.targets}
      context == NextContext(cs, f, i)
      back == UNION {Held(entered.returns, <<t, context>>) :
                       t \in {t \in known.targets : <<t, context>> \in entered.active}}
      returned == IF call.lhs = "" THEN acc.local ELSE [acc.local EXCEPT ![call.lhs] = @ \cup back]
  IN  IF known.targets = {} THEN acc
      ELSE [state |-> CASE known.how = "receiver" -> [entered EXCEPT !.rta = @ \cup edges]
                        [] known.how = "direct" -> [entered EXCEPT !.direct = @ \cup edges]
                        [] OTHER -> entered,
            local |-> ApplyAliasConstraints(returned, Aliases(P.functions[f]))]

EvaluateContext(P, s, f, cs) ==
  LET fn == P.functions[f]
      start == [v \in Variables(fn) \cup {""} |->
                  (IF v \in ToSet(fn.params) \cup {"this"} THEN Held(s.params, <<f, cs, v>>)
                   ELSE {})
                  \cup {a[2] : a \in {a \in Allocations(P, f, cs) : a[1] = v}}]
      called == FoldLeft(LAMBDA acc, i : EvaluateCall(P, f, cs, acc, i),
                         [state |-> s, local |-> ApplyAliasConstraints(start, Aliases(fn))], Calls(fn))
      local == called.local
  IN  [called.state EXCEPT
         !.returns = @ \cup {<<<<f, cs>>, o>> : o \in UNION {local[v] : v \in ReturnVariables(fn)}},
         !.observed = @ \cup UNION {{<<<<f, cs, v>>, o>> : o \in local[v]} : v \in DOMAIN local}]

Sequenced(S) == FoldSet(LAMBDA x, q : Append(q, x), <<>>, S)

Round(P, s) == FoldLeft(LAMBDA t, c : EvaluateContext(P, t, c[1], c[2]), s, Sequenced(s.active))

Growth(s) == <<s.active, s.params, s.returns, s.observed>>

RECURSIVE Rounds(_, _, _)
Rounds(P, s, left) ==
  LET GoOn(next) == IF Growth(next) = Growth(s) THEN next
                    ELSE IF left = 1 THEN [next EXCEPT !.truncated = TRUE]
                    ELSE Rounds(P, next, left - 1)
  IN  GoOn(Round(P, s))

AnalyzePointsTo(P) ==
  Rounds(P, [active |-> {<<f, <<>>>> : f \in DOMAIN P.functions}, params |-> {}, returns |-> {},
             observed |-> {}, rta |-> {}, direct |-> {}, truncated |-> FALSE], PointsIterations)

(* ---- edges from the declared types ----------------------------------------------- *)

ChaCalls(P, f) ==
  LET fn == P.functions[f]
  IN  {[caller |-> f, callee |-> t, at |-> i] : <<i, t>> \in
         UNION {{i} \X DispatchTargets(P, fn.body[i].declared, fn.body[i]) :
                i \in {i \in Kinds(fn, "call") : fn.body[i].recv # "" /\ ~Typed(P, fn.body[i].recv)
                                              /\ Typed(P, fn.body[i].declared)}}}

=============================================================================
