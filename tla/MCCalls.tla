------------------------------ MODULE MCCalls -------------------------------
(***************************************************************************)
(* What a call means in the program: the function an import designates,    *)
(* the overload the Java compiler takes, the bean a Spring container       *)
(* injects; and what the call graph must say of it.                        *)
(***************************************************************************)
EXTENDS CallGraph

LOCAL INSTANCE SequencesExt
LOCAL INSTANCE TLC

(* ---- imports -------------------------------------------------------------- *)

\* The files an import names: at its path from the file, or else in the same
\* repository at a path that ends like the module, which may be a directory or
\* have a function for its last name.
EndsLike(path, module) ==
  module # <<>> /\ \E end \in {module, Append(module, "index")} : IsSuffix(end, path)
Designated(files, file, i) ==
  LET Direct == {f \in files : f.repo = file.repo /\ EndsLike(f.path, i.module)}
      Inside == {f \in files : f.repo = file.repo /\ EndsLike(Front(f.path), i.module)}
      At == Front(file.path) \o Tail(i.module)
  IN  IF i.module[1] = "." THEN {f \in files :
                                 f.repo = file.repo /\ f.path \in {At, Append(At, "index")}}
      ELSE IF Direct # {} THEN Direct
      ELSE IF Inside # {} \/ DOMAIN i.names # {} THEN Inside
      ELSE {f \in files : f.repo = file.repo /\ EndsLike(f.path, Front(i.module))}

\* The name a call by way of the import has in the files it names, or none.
ImportedName(i, call) ==
  CASE DOMAIN i.names # {} -> IF call.receiver = "" /\ call.callee \in DOMAIN i.names THEN i.names[call.callee]
                              ELSE ""
    [] call.receiver = Leaf(i) -> call.callee
    [] call.receiver = "" /\ call.callee = Leaf(i) -> i.module[Len(i.module)]
    [] OTHER -> ""
ByImport(file, call) == {i \in ToSet(file.imports) : ImportedName(i, call) # ""}

\* Of these, those of the class the call says, or of the caller's own class.
OfClass(file, call, functions) ==
  LET class == IF call.type # "" THEN {call.type}
               ELSE {g.class : g \in CallerFunction(file, call)} \ {""}
      own == {g \in functions : g.class \in class}
  IN  IF own # {} THEN own ELSE functions

\* The functions that the call runs: those the imports designate, or those of
\* the file, or, when nothing says which, any of the repository.
MayCall(files, file, call) ==
  LET Imports(all) == UNION {Named(UNION {ToSet(f.functions) : f \in Designated(files, file, i)}, ImportedName(i, call)) : i \in all}
      Mine == Named(ToSet(file.functions), call.callee)
      Anywhere == Named(Functions({f \in files : f.repo = file.repo}), call.callee)
  IN  IF ByImport(file, call) # {} THEN Imports(ByImport(file, call))
      ELSE OfClass(file, call, IF Mine # {} THEN Mine ELSE Anywhere)

\* A file outside the import that has one of its names in its path, and a
\* function of the called name: the graph does not tell the two apart.
Lookalike(files, file, call) ==
  \E i \in ByImport(file, call) : \E f \in files \ Designated(files, file, i) :
    /\ f.repo = file.repo /\ ToSet(f.path) \cap ToSet(i.module) # {}
    /\ Named(ToSet(f.functions), ImportedName(i, call)) # {}

\* A function imported by its path under another name: the graph looks for the
\* other name, or takes the one function of a file.
Renamed(file, call) ==
  call.receiver = "" /\ \E i \in ToSet(file.imports) : i.alias = call.callee /\ DOMAIN i.names = {}

ImportHolds(files, file, call) ==
  LET Says(resolved, may) == (resolved # None => resolved \in may) /\ (Cardinality(may) = 1 => resolved \in may)
  IN  ~Renamed(file, call) /\ ~Lookalike(files, file, call)
        => Says(ResolveCallee(files, file, call), {g.id : g \in MayCall(files, file, call)})

(* ---- overloads ---------------------------------------------------------------- *)

Subtype(a, b) ==
  a = b \/ (a \in DOMAIN Widening /\ b \in Widening[a]) \/ (a = "null" /\ b \notin Primitive)
Applicable(args, f) ==
  Len(args) = Len(f.params) /\ \A k \in DOMAIN args : Subtype(args[k], f.params[k])
MoreSpecific(f, g) == \A k \in DOMAIN f.params : Subtype(f.params[k], g.params[k])

\* The method of the first phase that is more specific than every other.
JavaChoice(args, methods) ==
  {f \in methods : Applicable(args, f) /\ \A g \in methods : Applicable(args, g) => MoreSpecific(f, g)}

\* Known arguments and no variable arity, which the score takes for a better fit.
OverloadHolds(call, methods) ==
  LET Says(chosen, java) == java # {} /\ chosen # None => \E f \in java : f.id = chosen
  IN  Says(SelectMethod(call, methods), JavaChoice(call.args, Named(methods, call.callee)))

(* ---- what is reached ------------------------------------------------------------- *)

\* A chain of calls, each to one function in question, is in the graph.
CertainCall(files, e) ==
  \E f \in files : \E c \in ToSet(f.calls) :
    /\ CallerFunction(f, c) # {} /\ \A g \in CallerFunction(f, c) : g.id = e[1]
    /\ ~Lookalike(files, f, c) /\ \A g \in MayCall(files, f, c) : g.id = e[2]
    /\ MayCall(files, f, c) # {}
ReachHolds(files, entry) ==
  LET Covered(reached) == \A g \in Functions(files) :
        (CertainCall(files, <<entry, g.id>>) \/ \E r \in reached : CertainCall(files, <<r, g.id>>)) => g.id \in reached
  IN  Covered(Reached(Edges(files), entry))

(* ---- beans ------------------------------------------------------------------------ *)

\* On the class path of the consumer: in every set closed under dependency.
Follows(edges, from, to) ==
  \A S \in SUBSET ({from, to} \cup UNION {{e[1], e[2]} : e \in edges}) :
    from \in S /\ (\A e \in edges : e[1] \in S => e[2] \in S) => to \in S
OnClassPath(relations, consumer, t) ==
  \/ consumer.repo = t.repo /\ "" \in {consumer.module, t.module}
  \/ "" \notin {consumer.module, t.module} /\ Follows(ModuleEdges(relations), consumer.module, t.module)
  \/ consumer.repo # t.repo /\ Follows(RepositoryEdges(relations), consumer.repo, t.repo)
Registered(facts, repo, t) ==
  \/ t.repo = repo \/ t.auto
  \/ \E u \in facts : u.repo = repo /\ (t.name \in u.imports \/ \E s \in u.scans : IsPrefix(s, t.package))

\* The beans of a container in which the conditions env hold.
IsA(facts, t, name) == Follows(UNION {{<<u.name, b>> : b \in u.bases} : u \in facts}, t.name, name)
Injectable(facts, relations, consumer, binding, env) ==
  {b \in BeanCandidates(facts) :
     /\ b.conditions \subseteq env /\ b.implementation # NoType /\ IsA(facts, b.implementation, binding.type)
     /\ OnClassPath(relations, consumer, b.definition) /\ Registered(facts, consumer.repo, b.definition)}

\* The bean it injects; none when the container does not start.
Injected(binding, active) ==
  LET Only(beans) == IF Cardinality(beans) = 1 THEN beans ELSE {}
      primary == {b \in active : b.primary}
      named == {b \in active : binding.name \in b.names}
  IN  CASE binding.qualifier # "" -> Only({b \in active : binding.qualifier \in b.names})
        [] Cardinality(active) = 1 -> active
        [] primary # {} -> Only(primary)
        [] OTHER -> Only(named)

\* The graph prefers a bean by its name or as primary whatever its conditions,
\* or overlooks that it is primary under one.
Conditional(binding, beans) ==
  \E b \in beans : b.conditions # {} /\ (b.primary \/ (binding.qualifier = "" /\ binding.name \in b.names))

BeansHold(c) ==
  LET binding == BindingOf(c.consumer, c.call.receiver)
      Runs(env) == {m.id : m \in Named(UNION {b.implementation.methods : b \in
                             Injected(binding, Injectable(c.facts, c.relations, c.consumer, binding, env))}, c.call.callee)}
      All == Injectable(c.facts, c.relations, c.consumer, binding, {"p"})
      Covered(targets) == \A env \in SUBSET {"p"} : Runs(env) \subseteq targets
      Exact(targets) == Runs({}) # {} /\ (\A b \in All : b.conditions = {}) => targets = Runs({})
      Says(targets) == Covered(targets) /\ Exact(targets)
  IN  binding.name # "" /\ ~Conditional(binding, All)
        => Says(InjectedTargets(c.facts, c.relations, c.consumer, c.call))

CallHolds(c) ==
  /\ c.kind = "import" => ImportHolds(c.files, c.file, c.call)
  /\ c.kind = "reach" => ReachHolds(c.files, c.entry)
  /\ c.kind = "overload" => OverloadHolds(c.call, c.methods)
  /\ c.kind = "bean" => BeansHold(c)

(***************************************************************************)
(* The instance that is checked.                                           *)
(***************************************************************************)

Fun(id, name, class) ==
  [id |-> id, name |-> name, class |-> class, params |-> <<>>, defaults |-> {}, variadic |-> FALSE,
   jvm |-> FALSE]
Code(path, repo, functions, imports, calls) ==
  [path |-> path, repo |-> repo, functions |-> functions, imports |-> imports, calls |-> calls]
CallOf(receiver, type, callee, caller, args) ==
  [receiver |-> receiver, type |-> type, callee |-> callee, caller |-> caller, args |-> args]
Unnamed == [n \in {} |-> n]
Renaming == ("get" :> "get") @@ ("g" :> "put")

(* ---- files that import each other -------------------------------------------- *)

Imports == {[module |-> m, names |-> n, alias |-> a] :
  m \in {<<"app", "db">>, <<"db">>, <<".", "db">>, <<"ext", "http">>, <<"app", "db", "get">>,
         <<"node", "db">>, <<"net">>},
  n \in {Unnamed, Renaming}, a \in {"", "d"}}
Layouts ==
  {<<p, r>> : p \in {<<"lib", "db">>, <<"db", "index">>, <<"app", "util">>, <<"net", "pool">>},
   r \in {"r1", "r2"}}
ImportCases(layout) ==
  {[kind |-> "import", file |-> file, call |-> call,
    files |-> {file, Code(<<"app", "db">>, "r1", <<Fun(11, "get", ""), Fun(12, "put", "")>>, <<>>, <<>>),
               Code(layout[1], layout[2], there, <<>>, <<>>)}] :
     file \in {Code(<<"app", "main">>, "r1", local, imports, <<>>) :
                 local \in {<<Fun(1, "main", "")>>,
                            <<Fun(1, "main", "C"), Fun(2, "put", "C"), Fun(3, "put", "D")>>},
                 imports \in {<<i>> : i \in Imports} \cup {<<>>}},
     there \in {<<Fun(21, "get", "")>>, <<Fun(21, "put", "D"), Fun(22, "put", "C")>>},
     call \in {CallOf(r[1], r[2], c, "main", <<>>) :
               r \in {<<"", "">>, <<"db", "">>, <<"d", "">>, <<"net", "">>, <<"x", "D">>, <<"x", "">>},
                                                c \in {"get", "g", "put", "d"}}}

\* A chain of calls through up to three files, with a name that two share.
Chains == {<<a, b>> : a \in {"", "db"}, b \in {"get", "put"}}
ReachCases(first) ==
  {[kind |-> "reach", entry |-> 1,
    files |-> {Code(<<"app", "main">>, "r1", <<Fun(1, "main", "")>>, <<[module |-> <<".", "db">>, names |-> Unnamed, alias |-> ""]>>,
                    <<CallOf(first[1], "", first[2], "main", <<>>)>>),
               Code(<<"app", "db">>, "r1", <<Fun(11, "get", ""), Fun(12, "put", "")>>, <<>>,
                    <<CallOf("", "", second, "get", <<>>), CallOf("", "", third, "put", <<>>)>>),
               Code(<<"lib", "net">>, r, <<Fun(21, "send", ""), Fun(22, other, "")>>, <<>>,
                    <<CallOf("", "", "main", "send", <<>>)>>)}] :
     second \in {"put", "send",
                 "get"}, third \in {"send", "get",
                                    "main"}, r \in {"r1", "r2"}, other \in {"send", "put", "log"}}

(* ---- overloads -------------------------------------------------------------------- *)

Types == {"int", "long", "double", "String"}
Lists ==
  {<<>>} \cup {<<a>> : a \in Types} \cup {<<a, b>> : a \in {"int", "long", "String"}, b \in {"int", "double"}}
Method(id, params) ==
  [id |-> id, name |-> "run", class |-> "C", params |-> params, defaults |-> {}, variadic |-> FALSE,
   jvm |-> TRUE]
OverloadCases(one) ==
  {[kind |-> "overload", call |-> [CallOf("c", "", "run", "main", args) EXCEPT !.args = args],
    methods |-> {Method(1, one), Method(2, two), Method(3, three)}] :
     two \in Lists, three \in Lists, args \in Lists \cup {<<"null">>, <<"byte">>, <<"byte", "int">>}}

(* ---- beans ---------------------------------------------------------------------------- *)

Type(name, repo, module) ==
  [name |-> name, repo |-> repo, module |-> module, package |-> <<repo, "app">>,
   component |-> FALSE, auto |-> FALSE,
   names |-> {}, primary |-> FALSE, conditions |-> {}, bases |-> {}, methods |-> {}, factories |-> {},
   imports |-> {}, scans |-> {}, bindings |-> <<>>]
Run(id) == [id |-> id, name |-> "run", params |-> <<>>, defaults |-> {}, variadic |-> FALSE]
Bean(name, repo, module, id, n, p, c) ==
  [Type(name, repo, module) EXCEPT !.component = TRUE, !.bases = {"Svc"}, !.methods = {Run(id)},
     !.names = {n}, !.primary = p, !.conditions = c]
Consumer(module, qualifier, extra) ==
  [Type("App", "r1", module) EXCEPT !.bindings = <<[name |-> "svc", type |-> "Svc", qualifier |-> qualifier]>>,
     !.scans = extra.scans, !.imports = extra.imports]
Relation(k, s, t) == [kind |-> k, source |-> s, target |-> t]
Seen == [scans : {{}, {<<"r2">>}}, imports : {{}, {"A"}}]
Dependencies ==
  {{}, {Relation("module-dependency", "m1", "m2")}, {Relation("repository-dependency", "r1", "r2")},
   {Relation("depends-on-jvm-artifact", "m1", "jar"), Relation("resolved-jvm-provider", "jar", "m2")},
   {Relation("repository-depends-on-jvm-artifact", "r1", "jar"),
    Relation("resolved-jvm-provider-repository", "jar", "r3"),
    Relation("repository-dependency", "r3", "r2")}}
Case(facts, relations, consumer) ==
  [kind |-> "bean", facts |-> facts \cup {consumer}, relations |-> relations, consumer |-> consumer,
   call |-> CallOf("svc", "", "run", "go", <<>>)]
Service == Type("Svc", "r1", "m1")

\* Two implementations in one repository.
ChoiceCases(a) ==
  {Case({Service, Bean("A", "r1", "", 11, a[1], a[2], a[3]), Bean("B", "r1", "", 12, n, p, c)}, {}, Consumer("", q, [scans |-> {}, imports |-> {}])) :
     n \in {"b", "svc"}, p \in BOOLEAN, c \in {{}, {"p"}}, q \in {"", "a", "b"}}
Shapes == {<<n, p, c>> : n \in {"a", "svc"}, p \in BOOLEAN, c \in {{}, {"p"}}}

\* One in another module or repository, one made by a factory.
Factories == {{}, {[type |-> "Svc", creates |-> "B", names |-> {"b"}, primary |-> FALSE, conditions |-> {}]},
              {[type |-> "Svc", creates |-> "", names |-> {"b"}, primary |-> TRUE,
                conditions |-> {"p"}]}}
ScopeCases(relations) ==
  {Case({Service, Bean("A", r, m, 11, "a", FALSE, {}), [Bean("B", "r1", "", 12, "b", FALSE, {}) EXCEPT !.component = b],
         [Type("Config", "r1", "") EXCEPT !.factories = f]}, relations, Consumer(own, "", s)) :
     r \in {"r1", "r2"}, m \in {"", "m2"}, b \in BOOLEAN, f \in Factories, own \in {"", "m1"}, s \in Seen}
=============================================================================
