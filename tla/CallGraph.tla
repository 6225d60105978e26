----------------------------- MODULE CallGraph ------------------------------
(***************************************************************************)
(* The cross-file call graph of a scan (scanner/call_graph.py,             *)
(* scanner/import_bindings.py, semantic/signatures.py): which function a   *)
(* call site is resolved to, and what an entry point reaches.              *)
(*                                                                         *)
(* A module path is the sequence of its names, however a language writes   *)
(* the separator; a name of "." leads a path relative to the file.  A type *)
(* of "" is unknown.                                                       *)
(***************************************************************************)
EXTENDS Integers, Sequences, FiniteSets

LOCAL INSTANCE SequencesExt
LOCAL INSTANCE FiniteSetsExt

None == 0

(* ---- overloads of Java and Kotlin --------------------------------------- *)

Widening == [byte |-> {"short", "int", "long", "float", "double"},
             short |-> {"int", "long", "float", "double"},
             char |-> {"int", "long", "float", "double"}, int |-> {"long", "float", "double"},
             long |-> {"float", "double"}, float |-> {"double"}]
Primitive == DOMAIN Widening \cup {"boolean", "double"}

\* -1 for types that are held for incompatible.
TypeCompatibility(actual, expected) ==
  CASE actual = "" \/ expected = "" -> 0
    [] actual = expected -> 4
    [] actual = "null" -> IF expected \in Primitive THEN -1 ELSE 1
    [] actual \in DOMAIN Widening /\ expected \in Widening[actual] -> 1
    [] OTHER -> -1

\* A score of the function for the argument types, or -1.
OverloadScore(args, f) ==
  LET last == Len(f.params)
      required == Cardinality({k \in 1..last : k \notin f.defaults /\ ~(f.variadic /\ k = last)})
      Fits(k) == TypeCompatibility(args[k], f.params[IF k < last THEN k ELSE last])
      known == {k \in DOMAIN args : args[k] # ""}
  IN  IF \/ Len(args) < required \/ (~f.variadic /\ Len(args) > last)
         \/ (last = 0 /\ known # {}) \/ \E k \in known : Fits(k) < 0
      THEN -1
      ELSE MapThenSumSet(Fits, known) + IF Len(args) = last THEN 4 ELSE 2

(* ---- names and modules ---------------------------------------------------- *)

\* A file is [path, repo, functions, imports, calls]; a function
\* [id, name, class, params, defaults, variadic, jvm, entry].
Functions(files) == UNION {ToSet(f.functions) : f \in files}
FileOf(files, id) == CHOOSE f \in files : \E g \in ToSet(f.functions) : g.id = id
Named(functions, name) == {g \in functions : g.name = name}

PathEnds(path) == {SubSeq(path, k, Len(path)) : k \in 1..Len(path)}
Short(paths) == paths \cup {<<p[Len(p)]>> : p \in paths}

\* The names under which a file can be imported: the ends of its path, and of
\* the directories it is in.
ModuleAliases(file) ==
  LET Unindexed(p) == IF p[Len(p)] = "index" THEN Front(p) ELSE p
  IN  Short({Unindexed(p) : p \in PathEnds(file.path)} \ {<<>>}) \cup Short(PathEnds(Front(file.path)))

\* A path that ends in an imported name is tried with and without it.
Candidates(module) ==
  LET Tried(parts) == Short({p \in {parts, SubSeq(parts, 1, Len(parts) - 1)} : p # <<>>})
  IN  {module} \cup Tried(SelectSeq(module, LAMBDA n : n \notin {".", "crate", "self", "super"}))

Relative(file, module) == module # <<>> /\ module[1] = "."
Base(file, module) == Front(file.path) \o Tail(module)

ResolveImportFiles(files, file, module) ==
  IF module # <<>> /\ module[1] = "node" THEN {}
  ELSE {f \in files : /\ f.repo = file.repo /\ ModuleAliases(f) \cap Candidates(module) # {}}
       \cup {f \in files : Relative(file, module)
                           /\ f.path \in {Base(file, module), Append(Base(file, module), "index")}}

\* What a file declares it imports: local names of functions, or the name of
\* a module.  An import is [module, names, alias], names from local to exported.
Leaf(i) == IF i.alias # "" THEN i.alias ELSE i.module[Len(i.module)]
DeclaredNames(i) == IF DOMAIN i.names # {} THEN DOMAIN i.names ELSE {Leaf(i)}

\* The functions an import binds to a name, receiver and callee.
Bound(files, file, i, receiver, callee) ==
  LET In(targets) ==
        CASE DOMAIN i.names # {} ->
               IF receiver = "" /\ callee \in DOMAIN i.names THEN Named(targets, i.names[callee])
               ELSE {}
          [] receiver = Leaf(i) -> Named(targets, callee)
          [] receiver = "" /\ callee \in {Leaf(i), i.module[Len(i.module)]} -> Named(targets, callee)
          [] OTHER -> {}
      Alone(targets) == i.alias # "" /\ receiver = "" /\ callee = i.alias /\ DOMAIN i.names = {}
                        /\ Named(targets, callee) = {} /\ Cardinality({g.name : g \in targets}) = 1
      Of(targets) == IF Alone(targets) THEN targets ELSE In(targets)
  IN  UNION {Of(ToSet(f.functions)) : f \in ResolveImportFiles(files, file, i.module)}

(* ---- a call site -------------------------------------------------------------- *)

\* A call is [receiver, type, callee, caller, args]; caller names a function of
\* the file, and is ignored when several have that name.
CallerFunction(file, call) ==
  LET named == {g \in ToSet(file.functions) : g.name = call.caller}
  IN  IF Cardinality(named) = 1 THEN named ELSE {}

\* The function in one tier of candidates, if one is better than the others.
SelectOverload(files, file, call, candidates) ==
  LET local == {g \in candidates : FileOf(files, g.id).repo = file.repo}
      SameClass(class) == {g \in local : g.class # "" /\ g.class = class}
      preferred == IF call.type # "" THEN SameClass(call.type)
                   ELSE UNION {SameClass(g.class) : g \in CallerFunction(file, call)}
      Score(g) == IF g.jvm THEN OverloadScore(call.args, g) ELSE 0
      Best(scored) == {p \in scored : \A q \in scored : q[2] <= p[2]}
      Unique(best) == IF Cardinality(best) = 1 THEN (CHOOSE p \in best : TRUE)[1] ELSE None
  IN  Unique(Best({<<g.id, Score(g)>> : g \in {h \in IF preferred # {} THEN preferred
                                                     ELSE local : Score(h) >= 0}}))

Imported(files, file, call) ==
  UNION {Bound(files, file, i, call.receiver, call.callee) : i \in ToSet(file.imports)}
Declared(file, call) ==
  (IF call.receiver # "" THEN call.receiver
   ELSE call.callee) \in UNION {DeclaredNames(i) : i \in ToSet(file.imports)}

\* Candidates near the call: of the file, then of any file.
Nearby(files, file, call) ==
  LET mine == {g \in ToSet(file.functions) : g.name = call.callee}
      qualified == {g \in mine : call.receiver # "" /\ g.class = call.receiver}
  IN  CASE qualified # {} -> qualified [] mine # {} -> mine [] OTHER -> Named(Functions(files), call.callee)

\* The first tier with candidates decides, and a name that is imported from
\* elsewhere is none of the functions here.
ResolveCallee(files, file, call) ==
  LET Decided(imported) == IF imported # {} THEN SelectOverload(files, file, call, imported)
                           ELSE IF Declared(file, call) THEN None
                           ELSE SelectOverload(files, file, call, Nearby(files, file, call))
  IN  Decided(Imported(files, file, call))

(* ---- the graph ------------------------------------------------------------------ *)

\* The module's own code is a caller of no name; a caller that is not one
\* function of the file is a node apart, which nothing calls.
Edges(files) ==
  LET Into(file, call) == {ResolveCallee(files, file, call)} \ {None}
      From(file, call) == {g.id : g \in CallerFunction(file, call)}
      Of(file) == UNION {From(file, c) \X Into(file, c) : c \in ToSet(file.calls)}
  IN  UNION {Of(f) : f \in files}

Grown(edges, seen) == seen \cup {e[2] : e \in {e \in edges : e[1] \in seen}}
Reachable(edges, start) ==
  FoldLeft(LAMBDA seen, k : Grown(edges, seen), {start}, [k \in 1..Cardinality(edges) |-> k])

\* What an entry point reaches, itself only by a cycle.
Reached(edges, entry) == UNION {Reachable(edges, e[2]) : e \in {e \in edges : e[1] = entry}}

(***************************************************************************)
(* Dependency injection in the analysis of Spring code                     *)
(* (framework/spring.py): which beans a scan finds, which of them a module *)
(* sees, and which of those a call through an injected field may reach.    *)
(*                                                                         *)
(* A type is [name, repo, module, package, component, auto, names, primary,*)
(* conditions, bases, methods, factories, imports, scans, bindings]; a     *)
(* factory method makes a bean of its type, of the class it creates.       *)
(***************************************************************************)

(* ---- what a module sees -------------------------------------------------- *)

\* Relations are [kind, source, target].
Of(relations, kind) == {<<r.source, r.target>> : r \in {r \in relations : r.kind = kind}}
Through(consumers, providers) ==
  {<<c[1], p[2]>> : <<c, p>> \in {<<c, p>> \in consumers \X providers : c[2] = p[1]}}

\* _ScopeIndex.build: modules depend on modules, or on artifacts that a module
\* provides; so do repositories.
ModuleEdges(relations) ==
  Of(relations, "module-dependency")
  \cup Through(Of(relations, "depends-on-jvm-artifact"), Of(relations, "resolved-jvm-provider"))
RepositoryEdges(relations) ==
  Of(relations, "repository-dependency")
  \cup Through(Of(relations, "repository-depends-on-jvm-artifact"), Of(relations, "resolved-jvm-provider-repository"))

InScope(relations, consumer, provider) ==
  LET modules == consumer.module # "" /\ provider.module # ""
      Linked == provider.module \in Reachable(ModuleEdges(relations), consumer.module)
  IN  IF consumer.repo = provider.repo THEN modules => Linked
      ELSE \/ modules /\ Linked
           \/ provider.repo \in Reachable(RepositoryEdges(relations), consumer.repo)

\* _DiscoveryIndex: the beans of another repository are found when they are
\* configured by themselves, imported, or in a package that is scanned.
ImportedTypes(facts, repo) == UNION {t.imports : t \in {t \in facts : t.repo = repo}}
ScannedPackages(facts, repo) == UNION {t.scans : t \in {t \in facts : t.repo = repo}}
Discovered(facts, repo, bean) ==
  \/ bean.definition.repo = repo \/ bean.definition.auto
  \/ bean.definition.name \in ImportedTypes(facts, repo)
  \/ \E scanned \in ScannedPackages(facts, repo) : IsPrefix(scanned, bean.definition.package)

(* ---- beans ------------------------------------------------------------------ *)

NoType == [name |-> ""]

\* The type of that name, in the repository of the factory if it is there once.
UniqueType(facts, name, repo) ==
  LET One(preferred, all) == IF Cardinality(preferred) = 1 THEN CHOOSE t \in preferred : TRUE
                             ELSE IF Cardinality(all) = 1 THEN CHOOSE t \in all : TRUE ELSE NoType
      Among(all) == One({t \in all : t.repo = repo}, all)
  IN  IF name = "" THEN NoType ELSE Among({t \in facts : t.name = name})

Component(t) ==
  [definition |-> t, implementation |-> t, type |-> t.name, names |-> t.names, primary |-> t.primary,
   conditions |-> t.conditions]
Factory(facts, t, m) ==
  [definition |-> t, implementation |-> UniqueType(facts, IF m.creates # "" THEN m.creates
                                                          ELSE m.type, t.repo),
   type |-> m.type, names |-> m.names, primary |-> t.primary \/ m.primary, conditions |-> t.conditions \cup m.conditions]
BeanCandidates(facts) ==
  {Component(t) : t \in {t \in facts : t.component}}
    \cup UNION {{Factory(facts, t, m) : m \in t.factories} : t \in facts}

\* _is_assignable, by names of types.
Assignable(facts, t, declared) ==
  \E n \in Reachable(UNION {{<<u.name, b>> : b \in u.bases} : u \in facts}, t.name) : n = declared
BeanMatches(facts, bean, declared) ==
  bean.type = declared \/ (bean.implementation # NoType /\ Assignable(facts, bean.implementation, declared))

(* ---- a binding and a call ------------------------------------------------------ *)

\* The injected fields and constructor parameters of a class; of two with one
\* name the last counts.
BindingOf(t, name) ==
  LET Latest(bs) == IF bs = <<>> THEN [name |-> "", type |-> "", qualifier |-> ""] ELSE bs[Len(bs)]
  IN  Latest(SelectSeq(t.bindings, LAMBDA b : b.name = name))

SelectBeans(binding, beans) ==
  LET Chosen(primary, named) == IF Cardinality(primary) = 1 THEN primary
                                ELSE IF Cardinality(named) = 1 THEN named ELSE beans
  IN  CASE binding.qualifier # "" -> {b \in beans : binding.qualifier \in b.names}
        [] Cardinality(beans) <= 1 -> beans
        [] OTHER -> Chosen({b \in beans :
                            b.primary /\ b.conditions = {}}, {b \in beans : binding.name \in b.names})

\* The one method that fits best.
SelectMethod(call, methods) ==
  LET Best(scored) == {p \in scored : \A q \in scored : q[2] <= p[2]}
      Unique(best) == IF Cardinality(best) = 1 THEN (CHOOSE p \in best : TRUE)[1] ELSE None
      fitting == {m \in methods : m.name = call.callee /\ OverloadScore(call.args, m) >= 0}
  IN  Unique(Best({<<m.id, OverloadScore(call.args, m)>> : m \in fitting}))

\* Of the class that is made, or else of the type that is declared.
BeanTarget(facts, call, bean) ==
  LET First(made, declared) == IF made # None THEN made
                               ELSE IF declared = {} THEN None ELSE CHOOSE m \in declared : TRUE
  IN  First(IF bean.implementation = NoType THEN None
            ELSE SelectMethod(call, bean.implementation.methods),
            {SelectMethod(call, t.methods) : t \in {t \in facts : t.name = bean.type}} \ {None})

\* A call [class, receiver, callee, args] through a binding of its class.
InjectedTargets(facts, relations, consumer, call) ==
  LET Seen(binding) == {b \in BeanCandidates(facts) :
                          /\ BeanMatches(facts, b, binding.type)
                          /\ InScope(relations, consumer, b.definition)
                          /\ Discovered(facts, consumer.repo, b)}
      Targets(binding) == IF binding.name = "" THEN {}
                          ELSE {BeanTarget(facts, call, b) :
                                b \in SelectBeans(binding, Seen(binding))} \ {None}
  IN  Targets(BindingOf(consumer, call.receiver))

=============================================================================
