---------------------------- MODULE SqlQueries -----------------------------
(***************************************************************************)
(* What the text of a database query is made of, from the source of one    *)
(* function: fixed text, text put together with other values, or unknown.  *)
(*                                                                         *)
(* An expression is a record with a kind:                                  *)
(*   text(sql)  other  name(var)  plus(left, right)  minus(left, right)    *)
(*   choice(truth, yes, no)  object(id, fields)  member(owner, field)      *)
(*   format(text, holes, args)  wrapped(arg)  call(args)                   *)
(* sql says that the text holds a word of SQL, truth is "true", "false" or *)
(* "unknown", fields maps names to expressions, field is "?" where the     *)
(* name is computed.  A statement is one of                                *)
(*   assign(var, field, right)  augment(var, right)  destructure(vars)     *)
(*   query(at, arg)  block(body, declares)  if(truth, then, other)         *)
(*   try(body, handlers, other, final)  switch(cases, falls)  loop(body)   *)
(*   break  function(body)                                                 *)
(* with field "" for a plain variable.  Where texts, fields and merges     *)
(* exceed their sizes the code makes the value one of unknown text; those  *)
(* sizes are not modelled.                                                 *)
(***************************************************************************)
EXTENDS Naturals, Sequences, FiniteSets, FiniteSetsExt, SequencesExt

CONSTANTS SqlNames,     \* the variables
          MaxSteps      \* nodes the analyzer looks at

(* ---- values -------------------------------------------------------------- *)

NoFields == [none |-> TRUE]
Known(value) == value.fields # NoFields

Unknown == [constant |-> FALSE, built |-> FALSE, sql |-> FALSE, limit |-> FALSE,
            fields |-> NoFields, ids |-> {}]
Text(sql) == [Unknown EXCEPT !.constant = TRUE, !.sql = sql]

RECURSIVE Merge(_, _)
Merge(left, right) ==
  IF left = right THEN left
  ELSE [constant |-> left.constant /\ right.constant,
        built |-> left.built \/ right.built, sql |-> left.sql \/ right.sql,
        limit |-> left.limit \/ right.limit, ids |-> left.ids \cup right.ids,
        fields |-> IF Known(left) /\ Known(right)
                   THEN [f \in DOMAIN left.fields \cup DOMAIN right.fields |->
                           Merge(IF f \in DOMAIN left.fields THEN left.fields[f] ELSE Unknown,
                                 IF f \in DOMAIN right.fields THEN right.fields[f] ELSE Unknown)]
                   ELSE NoFields]

\* A mutant: what one of two branches leaves is what both leave.
JoinEnvOfOne(left, right) == left

JoinEnv(left, right) == [v \in SqlNames |-> Merge(left[v], right[v])]

Combine(left, right) ==
  LET constant == left.constant /\ right.constant
      sql == left.sql \/ right.sql
  IN  [Unknown EXCEPT !.constant = constant, !.sql = sql, !.limit = left.limit \/ right.limit,
                      !.built = left.built \/ right.built \/ (~constant /\ sql)]

(* ---- the walk: s.env, s.steps, s.limited, s.facts (what is on record of each query) *)

Step(s) == [s EXCEPT !.steps = @ + 1, !.limited = @ \/ s.steps >= MaxSteps]
Guarded(s) == ~Step(s).limited

Doubtful(fields) == [f \in DOMAIN fields |-> Merge(fields[f], Unknown)]

\* Every name that may hold the object holds the changed one, or either.
UpdateAliases(env, old, updated) ==
  [v \in SqlNames |-> CASE env[v].ids \cap old.ids = {} -> env[v]
                        [] env[v].ids \cap old.ids # {} /\ env[v].ids = old.ids -> updated
                        [] OTHER -> Merge(env[v], updated)]

Assign(env, var, field, value) ==
  LET old == env[var]
      fields == IF field = "?" THEN Doubtful(old.fields)
                ELSE [f \in DOMAIN old.fields
                      \cup {field} |-> IF f = field THEN value ELSE old.fields[f]]
  IN  CASE field = "" -> [env EXCEPT ![var] = value]
        [] field # "" /\ Known(old) ->
             UpdateAliases(env, old, [old EXCEPT !.fields = fields, !.constant = FALSE])
        [] OTHER -> env

\* A call may change the objects it is given.
SideEffects(env, values) ==
  FoldLeft(LAMBDA e, x :
             IF Known(x) THEN UpdateAliases(e, x, [x EXCEPT !.constant = FALSE, !.fields = Doubtful(@)])
             ELSE e, env, values)

RECURSIVE Expr(_, _), Exprs(_, _, _), Fields(_, _, _)

Result(s, value) == [s |-> s, value |-> value]

Exprs(es, s, values) ==
  IF es = <<>> THEN [s |-> s, values |-> values]
  ELSE LET r == Expr(Head(es), s) IN Exprs(Tail(es), r.s, Append(values, r.value))

Fields(names, expr, acc) ==
  IF names = {} THEN acc
  ELSE LET f == CHOOSE f \in names : TRUE
           r == Expr(expr.fields[f], acc.s)
       IN  Fields(names \ {f}, expr, [s |-> r.s, fields |-> [g \in DOMAIN acc.fields \cup {f} |->
                                        IF g = f THEN r.value ELSE acc.fields[g]]])

ExprChoice(e, s) ==
  LET yes == Expr(e.yes, s)
      no == Expr(e.no, [yes.s EXCEPT !.env = s.env])
  IN  CASE e.truth = "true" -> yes
        [] e.truth = "false" -> Expr(e.no, s)
        [] OTHER -> Result([no.s EXCEPT !.env = JoinEnv(yes.s.env, no.s.env)], Merge(yes.value, no.value))

ExprObject(e, s) ==
  LET r == Fields(DOMAIN e.fields, e, [s |-> s, fields |-> [f \in {} |-> Unknown]])
  IN  Result(r.s, [Text(FALSE) EXCEPT !.fields = r.fields, !.ids = {e.id},
                     !.constant = \A f \in DOMAIN r.fields : r.fields[f].constant])

\* A format without holes is its text.
ExprFormat(e, s) ==
  LET text == Expr(e.text, s)
      args == Exprs(e.args, text.s, <<>>)
  IN  Result(args.s, IF ~e.holes THEN text.value ELSE FoldLeft(Combine, text.value, args.values))

Expr(e, s0) ==
  LET s == Step(s0)
      two == Exprs(<<e.left, e.right>>, s, <<>>)
      owner == Expr([kind |-> "name", var |-> e.owner], s)
      args == Exprs(e.args, s, <<>>)
  IN  IF ~Guarded(s0) THEN Result(s, [Unknown EXCEPT !.limit = TRUE])
      ELSE CASE e.kind = "text" -> Result(s, Text(e.sql))
             [] e.kind = "name" -> Result(s, s.env[e.var])
             [] e.kind = "plus" -> Result(two.s, Combine(two.values[1], two.values[2]))
             [] e.kind = "minus" -> Result(two.s, [Text(FALSE) EXCEPT !.constant =
                                                     two.values[1].constant /\ two.values[2].constant])
             [] e.kind = "choice" -> ExprChoice(e, s)
             [] e.kind = "object" -> ExprObject(e, s)
             [] e.kind = "member" -> Result(owner.s, IF Known(owner.value) /\ e.field \in DOMAIN owner.value.fields
                                                     THEN owner.value.fields[e.field] ELSE Unknown)
             [] e.kind = "format" -> ExprFormat(e, s)
             [] e.kind = "wrapped" -> Expr(e.arg, s)
             [] e.kind = "call" -> Result([args.s EXCEPT !.env = SideEffects(@, args.values)], Unknown)
             [] OTHER -> Result(s, Unknown)

(* ---- queries --------------------------------------------------------------- *)

\* The text of a query object is its field sql or text, if it has one of them.
Selected(value) ==
  LET keys == {"sql", "text"} \cap DOMAIN value.fields
  IN  CASE ~Known(value) -> value
        [] Known(value) /\ Cardinality(keys) = 1 -> value.fields[CHOOSE k \in keys : TRUE]
        [] OTHER -> [Unknown EXCEPT !.limit = value.limit]

Verdict(value) ==
  CASE value.built /\ ~value.limit -> "constructed"
    [] value.constant /\ ~value.built /\ ~value.limit -> "constant"
    [] OTHER -> "unknown"

\* A query that is met again keeps what both meetings say.
Together(old, new) ==
  [limit |-> old.limit \/ new.limit,
   state |-> CASE old.limit \/ new.limit -> "unknown"
               [] ~old.limit /\ ~new.limit /\ "constructed" \in {old.state, new.state} -> "constructed"
               [] OTHER -> IF old.state = new.state THEN old.state ELSE "unknown"]

Record(s, at, value) ==
  LET v == [value EXCEPT !.limit = @ \/ s.limited]
      new == [limit |-> v.limit, state |-> Verdict(v)]
  IN  [s EXCEPT !.facts = [a \in DOMAIN @ \cup {at} |->
         IF a # at THEN @[a] ELSE IF at \in DOMAIN @ THEN Together(@[at], new) ELSE new]]

(* ---- statements ---------------------------------------------------------------- *)

RECURSIVE Walk(_, _)
WalkAll(ss, s) == FoldLeft(LAMBDA t, stmt : Walk(stmt, t), s, ss)
From(s, env) == [s EXCEPT !.env = env]

WalkBlock(stmt, s) ==
  LET inner == WalkAll(stmt.body, From(s, [v \in SqlNames |-> IF v \in stmt.declares THEN Unknown
                                                              ELSE s.env[v]]))
  IN  From(inner, [v \in SqlNames |-> IF v \in stmt.declares THEN s.env[v] ELSE inner.env[v]])

WalkIf(stmt, s) ==
  LET yes == WalkAll(stmt.then, s)
      no == WalkAll(stmt.other, From(IF stmt.truth = "false" THEN s ELSE yes, s.env))
  IN  CASE stmt.truth = "true" -> yes
        [] stmt.truth = "false" -> no
        [] OTHER -> From(no, JoinEnv(yes.env, no.env))

\* A handler starts where the body starts or ends.
WalkTry(stmt, s) ==
  LET body == WalkAll(stmt.body, s)
      exceptional == JoinEnv(s.env, body.env)
      handled == FoldLeft(LAMBDA acc, h : LET t == WalkAll(h, From(acc.s, exceptional))
                                          IN  [s |-> t, envs |-> Append(acc.envs, t.env)],
                          [s |-> body, envs |-> <<>>], stmt.handlers)
      other == WalkAll(stmt.other, From(handled.s, body.env))
  IN  WalkAll(stmt.final, From(other, FoldLeft(JoinEnv, other.env, handled.envs)))

\* A case is entered by itself or, where cases fall through, from the one above.
WalkSwitch(stmt, s) ==
  LET Case(acc, c) ==
        LET t == WalkAll(c, From(acc.s, IF stmt.falls THEN JoinEnv(s.env, acc.carried) ELSE s.env))
        IN  [s |-> t, joined |-> JoinEnv(acc.joined, t.env),
             carried |-> IF \E i \in DOMAIN c : c[i].kind = "break" THEN s.env ELSE t.env]
      all == FoldLeft(Case, [s |-> s, joined |-> s.env, carried |-> s.env], stmt.cases)
  IN  From(all.s, all.joined)

\* The body is walked once from before the loop and once from what that leaves.
WalkLoop(stmt, s) ==
  LET once == WalkAll(stmt.body, s)
      joined == JoinEnv(s.env, once.env)
      again == WalkAll(stmt.body, From(once, joined))
  IN  From(again, JoinEnv(joined, again.env))

Walk(stmt, s0) ==
  LET s == Step(s0)
      right == Expr(stmt.right, s)
      both == Exprs(<<[kind |-> "name", var |-> stmt.var], stmt.right>>, s, <<>>)
      arg == Expr(stmt.arg, s)
  IN  IF ~Guarded(s0) THEN s
      ELSE CASE stmt.kind = "assign" -> From(right.s, Assign(right.s.env, stmt.var, stmt.field, right.value))
             [] stmt.kind = "augment" ->
                  From(both.s, Assign(both.s.env, stmt.var, "", Combine(both.values[1], both.values[2])))
             [] stmt.kind = "destructure" ->
                  From(s, [v \in SqlNames |-> IF v \in stmt.vars THEN Unknown ELSE s.env[v]])
             [] stmt.kind = "query" ->
                  LET t == Record(arg.s, stmt.at, Selected(arg.value))
                  IN  From(t, SideEffects(t.env, <<arg.value>>))
             [] stmt.kind = "block" -> WalkBlock(stmt, s)
             [] stmt.kind = "if" -> WalkIf(stmt, s)
             [] stmt.kind = "try" -> WalkTry(stmt, s)
             [] stmt.kind = "switch" -> WalkSwitch(stmt, s)
             [] stmt.kind = "loop" -> WalkLoop(stmt, s)
             [] stmt.kind = "function" ->
                  From(WalkAll(stmt.body, From(s, [v \in SqlNames |-> Unknown])), s.env)
             [] OTHER -> s

Walked(body) ==
  WalkAll(body, [env |-> [v \in SqlNames |-> Unknown], steps |-> 0, limited |-> FALSE,
                 facts |-> [a \in {} |-> 0]])

\* A query the walk never met is unknown.
AnnotateSqlQueries(body, queries) ==
  LET States(facts) == [a \in queries |-> IF a \in DOMAIN facts THEN facts[a].state ELSE "unknown"]
  IN  States(Walked(body).facts)
=============================================================================
