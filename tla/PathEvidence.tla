---------------------------- MODULE PathEvidence ----------------------------
(***************************************************************************)
(* The evidence a scan attaches to its findings: the chain of calls from   *)
(* an entry point (scanner/engine.py, scanner/context.py), the defences on *)
(* that chain, the endpoints that clients, gateways and recorded requests  *)
(* reach (scanner/attack_surface.py), and the check that an agent's review *)
(* makes of a chain before it calls a path complete (evidence.py).         *)
(*                                                                         *)
(* A graph is [nodes, edges, entries]: a sequence of functions             *)
(* [id, name, file, repo, lines, decorated, checks, indexed, plain], pairs  *)
(* of ids, and ids. A function is decorated if a decorator of it names a   *)
(* check of authorisation, and checks if a call its file has under its     *)
(* name does.                                                              *)
(* A path of a request is the sequence of its segments.                    *)
(***************************************************************************)
EXTENDS Integers, Sequences, FiniteSets

LOCAL INSTANCE SequencesExt

CONSTANTS MaxChain,     \* MAX_CALL_PATH_STEPS
          Templates     \* segments that stand for any value, such as "{id}"

NoNode == 0
Foremost(s) == IF s = <<>> THEN s ELSE <<s[1]>>
Encloses(outer, inner) == outer[1] <= inner[1] /\ inner[2] <= outer[2]

(* ---- the chain of calls ---------------------------------------------------- *)

NodeIds(graph) == {f.id : f \in ToSet(graph.nodes)}
NodeOf(graph, id) == CHOOSE f \in ToSet(graph.nodes) : f.id = id
HasLine(f, finding) ==
  f.file = finding.file /\ f.lines[1] <= finding.lines[1] /\ finding.lines[1] <= f.lines[2]

\* The shortest paths of a graph between two nodes.
Extended(edges, paths) ==
  UNION {{Append(p, e[2]) : e \in {e \in edges : e[1] = p[Len(p)]}} : p \in paths}
ShortestPaths(edges, from, to) ==
  LET Ending(paths) == {p \in paths : p[Len(p)] = to}
      Step(paths, k) == IF Ending(paths) # {} THEN Ending(paths) ELSE Extended(edges, paths)
  IN  Ending(FoldLeft(Step, {<<from>>}, [k \in 1..Cardinality(edges) |-> k]))

\* The function the finding is in: where its flow ends, or the first that has
\* its line; a flow that ends at a name of no node takes the smallest range.
SinkNode(graph, finding) ==
  LET holding == SelectSeq(graph.nodes, LAMBDA f : HasLine(f, finding))
      Size(f) == f.lines[2] - f.lines[1]
      Smallest == {f \in ToSet(holding) : \A g \in ToSet(holding) \ {f} : Size(f) < Size(g)}
  IN  CASE finding.flow = "" -> IF holding = <<>> THEN NoNode ELSE holding[1].id
        [] finding.flow \in {f.name : f \in {f \in ToSet(graph.nodes) : f.plain}} ->
             (CHOOSE f \in ToSet(graph.nodes) : f.plain /\ f.name = finding.flow).id
        [] OTHER -> IF Smallest = {} THEN NoNode ELSE (CHOOSE f \in Smallest : TRUE).id

\* A shortest path from an entry point, or else from a caller that nothing calls.
BestPaths(graph, sink) ==
  LET From(starts) == UNION {ShortestPaths(graph.edges, s, sink) : s \in starts}
      Roots == {n \in NodeIds(graph) \ {sink} : \A e \in graph.edges : e[2] # n}
      Least(paths) == {p \in paths : \A q \in paths : Len(p) <= Len(q)}
      entered == Least(From(graph.entries))
  IN  IF entered # {} THEN entered ELSE From(Roots)

\* A mutant: a function the index lacks is left out of the directed links too.
StepsSpliced(graph, path) ==
  LET kept == SelectSeq(path, LAMBDA n : NodeOf(graph, n).indexed)
  IN  [k \in DOMAIN kept |-> [symbol |-> kept[k], next |-> IF k < Len(kept) THEN kept[k + 1]
                                                           ELSE NoNode,
                              at |-> NodeOf(graph, kept[k])]]

\* get_call_chain_steps: of the functions that have one definition of their name.
ChainSteps(graph, path) ==
  LET Step(k) == [symbol |-> path[k], next |-> IF k < Len(path) THEN path[k + 1]
                                               ELSE NoNode, at |-> NodeOf(graph, path[k])]
  IN  SelectSeq([k \in DOMAIN path |-> Step(k)], LAMBDA s : s.at.indexed)

AttachCallChain(graph, finding) ==
  LET Chain(paths) == IF paths = {} THEN <<>> ELSE ChainSteps(graph, CHOOSE p \in paths : TRUE)
      To(sink) == IF sink = NoNode THEN <<>> ELSE Chain(BestPaths(graph, sink))
  IN  To(SinkNode(graph, finding))

(* ---- defences ------------------------------------------------------------------- *)

\* The other functions from which calls lead to the sink.
Callers(edges, sink) ==
  FoldLeft(LAMBDA seen, k : seen \cup {e[1] : e \in {e \in edges : e[2] \in seen \cup {sink}}},
           {}, [k \in 1..Cardinality(edges) |-> k]) \ {sink}

\* A decorator counts at the sink and at its callers, a call only at a caller.
Decorated(graph, id) == NodeOf(graph, id).indexed /\ NodeOf(graph, id).decorated
Checks(graph, id) == NodeOf(graph, id).indexed /\ NodeOf(graph, id).checks
AuthPresent(graph, sink) ==
  \/ Decorated(graph, sink)
  \/ \E n \in Callers(graph.edges, sink) : Decorated(graph, n) \/ Checks(graph, n)

(* ---- clients ----------------------------------------------------------------------- *)

(***************************************************************************)
(* A source file is [path, root, repo, module, language, readable,         *)
(* surface, fetches, clients, configs, routes]: what its text matches, in  *)
(* order. A match is [line, words, url]: the methods named in the options  *)
(* that follow, and a URL [absolute, rooted, dynamic, parts], parts being  *)
(* what its slashes separate.                                              *)
(***************************************************************************)
HttpMethods == {"GET", "POST", "PUT", "DELETE", "PATCH", "HEAD", "OPTIONS"}
NoPath == <<"none">>

\* What precedes the first slash of a URL that is not rooted is its base.
NormaliseClientUrl(url) ==
  LET Named(parts) == SelectSeq(parts, LAMBDA s : s # "")
  IN  CASE url.absolute \/ url.rooted -> Named(url.parts)
        [] Len(url.parts) < 2 -> NoPath
        [] OTHER -> Named(Tail(url.parts))

\* In percent, by where the file is and what it mentions.
FrontendConfidence(file) ==
  CASE file.surface = "component" -> 95
    [] file.surface = "directory" -> 90
    [] file.surface = "library" -> 85
    [] OTHER -> 65

FrontendCall(file, match) ==
  LET method == IF match.words = <<>> THEN "GET" ELSE match.words[1]
      path == NormaliseClientUrl(match.url)
  IN  [id |-> <<"frontend", file.path, match.line, method, path>>, path |-> path, method |-> method,
       repo |-> file.repo,
       confidence |-> FrontendConfidence(file) - IF match.url.dynamic THEN 10 ELSE 0]
AppendFrontendCall(calls, call) ==
  IF call.method \notin HttpMethods \/ call.path = NoPath \/ \E c \in ToSet(calls) : c.id = call.id
  THEN calls ELSE Append(calls, call)

\* The configuration of an axios call may name no URL.
FindFrontendCalls(files) ==
  LET Read(file) == file.language \in {"javascript", "typescript"} /\ file.readable
      Matches(file) ==
        file.fetches \o file.clients \o SelectSeq(file.configs, LAMBDA m : m.url.parts # <<>>)
      Of(calls, file) ==
        FoldLeft(LAMBDA seen, m : AppendFrontendCall(seen, FrontendCall(file, m)), calls, Matches(file))
  IN  FoldLeft(Of, <<>>, SelectSeq(files, Read))

(* ---- gateway routes ------------------------------------------------------------------- *)

(***************************************************************************)
(* A root is [name, repo, configs], a configuration [path, ignored, valid, *)
(* routes, webflux] with the items of its two lists as [id, predicates,    *)
(* filters]. A route is [id, repo, methods, patterns, filters].            *)
(***************************************************************************)
GatewayPredicates(predicates) ==
  LET Named(name) == SelectSeq(predicates, LAMBDA p : p.name = name)
  IN  [patterns |-> FlattenSeq([k \in DOMAIN Named("path") |-> Named("path")[k].paths]),
       methods |-> UNION {ToSet(p.methods) : p \in ToSet(Named("method"))}]

\* An item without an id is named by its place, counted from 0 in each list.
ParseGatewayYaml(config, repo) ==
  LET Route(items, k) ==
        [id |-> IF items[k].id = "" THEN <<"route", k - 1>> ELSE <<items[k].id>>, repo |-> repo,
         methods |-> GatewayPredicates(items[k].predicates).methods,
         patterns |-> GatewayPredicates(items[k].predicates).patterns, filters |-> items[k].filters]
      Routes(items) == SelectSeq([k \in DOMAIN items |-> Route(items, k)], LAMBDA r : r.patterns # <<>>)
  IN  IF config.valid THEN Routes(config.routes) \o Routes(config.webflux) ELSE <<>>

\* Java and Kotlin name no method, and three of the filters.
ParseGatewayDsl(files) ==
  LET Read(file) == file.language \in {"java", "kotlin"} /\ file.readable
      Kept(filters) == SelectSeq(filters, LAMBDA f : f.name \in {"StripPrefix", "RewritePath", "PrefixPath"})
      Routes(file) ==
        LET whole == SelectSeq(file.routes, LAMBDA r : r.patterns # <<>> /\ r.uri)
        IN  [k \in DOMAIN whole |-> [id |-> <<whole[k].id>>, repo |-> file.repo, methods |-> {},
                                     patterns |-> whole[k].patterns, filters |-> Kept(whole[k].filters)]]
      read == SelectSeq(files, Read)
  IN  FlattenSeq([k \in DOMAIN read |-> Routes(read[k])])

RepositoryForPath(root, files) ==
  LET named == SelectSeq(files, LAMBDA f : f.root = root.name /\ f.repo # "")
  IN  IF named = <<>> THEN root.name ELSE named[1].repo

RouteKey(route) == <<route.repo, route.id, route.patterns>>

\* A configuration counts for the first root it is found under, and of the
\* routes with one key the last stands in the place of the first.
FindGatewayRoutes(roots, files) ==
  LET Repo(root) == IF root.repo = "" THEN RepositoryForPath(root, files) ELSE root.repo
      Parse(root, found, c) ==
        IF c.ignored \/ c.path \in found.seen THEN found
        ELSE [seen |-> found.seen \cup {c.path}, routes |-> found.routes \o ParseGatewayYaml(c, Repo(root))]
      Under(found, root) == FoldLeft(LAMBDA s, c : Parse(root, s, c), found, root.configs)
      Put(unique, r) ==
        LET same == {k \in DOMAIN unique : RouteKey(unique[k]) = RouteKey(r)}
        IN  IF same = {} THEN Append(unique, r) ELSE [unique EXCEPT ![CHOOSE k \in same : TRUE] = r]
      configured == FoldLeft(Under, [seen |-> {}, routes |-> <<>>], roots).routes
  IN  FoldLeft(Put, <<>>, configured \o ParseGatewayDsl(files))

(* ---- endpoints that are reached --------------------------------------------------- *)

MethodMatches(method, endpoint) == "ALL" \in endpoint.methods \/ method \in endpoint.methods

\* A trailing "**" stands for any segments, none only where it is the whole
\* pattern; "*" and a template stand for one. No path ends with a slash.
PathMatches(pattern, path) ==
  LET Fits(p, k) == p[k] = path[k] \/ p[k] \in Templates \cup {"*"}
      Same(p, n) == n <= Len(path) /\ \A k \in 1..n : Fits(p, k)
  IN  CASE pattern = <<"**">> -> TRUE
        [] pattern # <<>> /\ pattern[Len(pattern)] = "**" ->
             Len(path) >= Len(pattern) /\ Same(pattern, Len(pattern) - 1)
        [] OTHER -> Len(path) = Len(pattern) /\ Same(pattern, Len(pattern))
Canonical(path) == [k \in DOMAIN path |-> IF path[k] \in Templates THEN "{}" ELSE path[k]]
Concrete(path) == [k \in DOMAIN path |-> IF path[k] \in Templates THEN "value" ELSE path[k]]
EndpointMatch(path, endpoint) ==
  CASE path = endpoint -> "exact"
    [] Canonical(path) = Canonical(endpoint) \/ PathMatches(endpoint, Concrete(path)) -> "template"
    [] OTHER -> "none"

\* RewritePath replaces the first f.from that something follows.
Rewritten(path, from, to) ==
  LET n == Len(from)
      places == {k \in 1..(Len(path) - n) : SubSeq(path, k, k + n - 1) = from}
      Earliest == CHOOSE k \in places : \A j \in places : k <= j
  IN  IF places = {} THEN path ELSE SubSeq(path, 1, Earliest - 1) \o to \o SubSeq(path, Earliest + n, Len(path))
ApplyFilter(path, f) ==
  CASE f.name = "StripPrefix" -> SubSeq(path, f.count + 1, Len(path))
    [] f.name = "PrefixPath" -> f.path \o path
    [] f.name = "SetPath" -> f.path
    [] f.name = "RewritePath" -> Rewritten(path, f.from, f.path)
    [] OTHER -> path
ApplyGatewayFilters(path, filters) == FoldLeft(ApplyFilter, path, filters)

FrontendGatewayMatch(call, routes, endpoint) ==
  IF \E r \in ToSet(routes) :
       /\ r.methods = {} \/ call.method \in r.methods
       /\ \E p \in ToSet(r.patterns) : PathMatches(p, Concrete(call.path))
       /\ EndpointMatch(ApplyGatewayFilters(call.path, r.filters), endpoint.path) # "none"
  THEN "gateway_transform" ELSE "none"

\* The first pattern that reaches the endpoint says how.
GatewayMatch(route, endpoint) ==
  LET How(p) ==
        CASE PathMatches(p, endpoint.path) -> "gateway_pattern"
          [] ApplyGatewayFilters(p, route.filters) # p
               /\ PathMatches(ApplyGatewayFilters(p, route.filters), endpoint.path) -> "gateway_transform"
          [] OTHER -> "none"
      reaching == SelectSeq(route.patterns, LAMBDA p : How(p) # "none")
  IN  IF reaching = <<>> THEN "none" ELSE How(reaching[1])
RouteMatch(route, endpoint) ==
  IF route.methods = {} \/ \E m \in route.methods : MethodMatches(m, endpoint)
  THEN GatewayMatch(route, endpoint) ELSE "none"

CallMatch(call, routes, endpoint) ==
  CASE ~MethodMatches(call.method, endpoint) -> "none"
    [] EndpointMatch(call.path, endpoint.path) # "none" -> EndpointMatch(call.path, endpoint.path)
    [] OTHER -> FrontendGatewayMatch(call, routes, endpoint)

Identity(e) == <<e.repo, e.methods, e.path>>
EndpointId(e) == <<"endpoint", e.repo, e.methods, e.path, e.file>>
LinkRecord(kind, id, endpoint, match, confidence) ==
  [kind |-> kind, id |-> id, to |-> EndpointId(endpoint), match |-> match, confidence |-> confidence]

\* What the clients' code calls and what the gateway exposes, and how often.
Link(calls, routes, endpoints) ==
  LET Calls(e) ==
        LET found == SelectSeq(calls, LAMBDA c : CallMatch(c, routes, e) # "none")
        IN  [k \in DOMAIN found |-> LinkRecord("frontend_call", found[k].id, e, CallMatch(found[k], routes, e),
                                               found[k].confidence)]
      Routes(e) ==
        LET found == SelectSeq(routes, LAMBDA r : RouteMatch(r, e) # "none")
        IN  [k \in DOMAIN found |->
               LinkRecord("gateway_route", found[k].id, e, RouteMatch(found[k], e),
                          IF RouteMatch(found[k], e) = "gateway_transform" THEN 90 ELSE 80)]
      Ids(links) == {l.id : l \in ToSet(links)}
      Marked(e) == [e EXCEPT !.called = Calls(e) # <<>>, !.calls = Cardinality(Ids(Calls(e))),
                             !.exposed = Routes(e) # <<>>, !.routes = Ids(Routes(e))]
  IN  [endpoints |-> [k \in DOMAIN endpoints |-> Marked(endpoints[k])],
       links |-> FlattenSeq([k \in DOMAIN endpoints |-> Calls(endpoints[k]) \o Routes(endpoints[k])])]

\* Of several endpoints with one identity, a request counts for the first.
LinkRuntime(observations, routes, endpoints) ==
  LET Count(acc, o, k) ==
        LET e == acc.endpoints[k]
            key == <<o.id, Identity(e)>>
            match == CallMatch(o, routes, e)
        IN  IF match = "none" \/ key \in acc.seen THEN acc
            ELSE [seen |-> acc.seen \cup {key},
                  endpoints |-> [acc.endpoints EXCEPT ![k].observed = TRUE, ![k].observations = @ + 1],
                  links |-> Append(acc.links, LinkRecord("runtime_observation", o.id, e, match, 100))]
      Observe(acc, o) ==
        IF o.path = NoPath \/ o.method = "" THEN acc
        ELSE FoldLeft(LAMBDA a, k : Count(a, o, k), acc, [k \in DOMAIN endpoints |-> k])
  IN  FoldLeft(Observe, [seen |-> {}, endpoints |-> endpoints, links |-> <<>>], observations)

\* The repository of a link's source: of an observation with its id, else of a
\* route, else of a call, the last of each.
AttachSurfaceProvenance(links, calls, routes, observations) ==
  LET Place(sources, id) == SelectLastInSeq(sources, LAMBDA s : s.id = id)
      Among(id, lists) ==
        LET holding == SelectSeq(lists, LAMBDA l : Place(l, id) > 0)
        IN  IF holding = <<>> THEN "" ELSE holding[1][Place(holding[1], id)].repo
      Repo(l) == Among(l.id, <<observations, routes, calls>>)
  IN  [k \in DOMAIN links |->
         [link |-> links[k], repo |-> Repo(links[k]), observed |-> links[k].kind = "runtime_observation"]]

\* analyze, and what the engine makes of it with the requests it imported.
AnalyzeSurface(roots, files, endpoints, observations) ==
  LET Surface(calls, routes, linked, seen) ==
        [calls |-> calls, routes |-> routes, endpoints |-> seen.endpoints,
         links |-> AttachSurfaceProvenance(linked.links \o seen.links, calls, routes, observations)]
      Observed(calls, routes, linked) ==
        Surface(calls, routes, linked, LinkRuntime(observations, routes, linked.endpoints))
      Linked(calls, routes) == Observed(calls, routes, Link(calls, routes, endpoints))
  IN  Linked(FindFrontendCalls(files), FindGatewayRoutes(roots, files))

(* ---- what is added to the graph of the program ---------------------------------------- *)

(***************************************************************************)
(* A program graph is [nodes, edges]: edges are [from, to, kind], and an   *)
(* edge brings in its ends. A statement is [id, file, lines].              *)
(***************************************************************************)
Edge(from, to, kind) == [from |-> from, to |-> to, kind |-> kind]
WithEdges(graph, nodes, edges) ==
  [nodes |-> graph.nodes \cup nodes \cup {e.from : e \in edges} \cup {e.to : e \in edges},
   edges |-> graph.edges \cup edges]

OverlayAttackSurface(graph, endpoints, links) ==
  WithEdges(graph, {EndpointId(e) : e \in ToSet(endpoints)},
            {Edge(<<l.kind, l.id>>, l.to, l.match) : l \in ToSet(links)})

\* Of functions [id, repo]; a dependency leads to everything of the provider.
OverlayRepositoryReachability(graph, functions, files, dependencies) ==
  LET Repository(r) == <<"repository", r>>
      owned == {f \in functions : f.repo # ""}
  IN  WithEdges(graph, {Repository(f.repo) : f \in {f \in ToSet(files) : f.repo # ""}},
                {Edge(f.id, Repository(f.repo), "member-of") : f \in owned}
                  \cup {Edge(Repository(f.repo), f.id, "contains-function") : f \in owned}
                  \cup {Edge(Repository(d[1]), Repository(d[2]), "depends-on") : d \in dependencies})

\* The relationships a framework's configuration declares; calls of injected
\* beans are calls of the program too, between functions it has.
OverlayFramework(graph, relationships) == WithEdges(graph, {}, relationships)
InjectedCalls(callGraph, relationships) ==
  {<<r.from, r.to>> : r \in {r \in relationships : /\ r.kind = "spring-di-call"
                                                   /\ {r.from, r.to} \subseteq NodeIds(callGraph)}}
OverlayCalls(callGraph, relationships) ==
  [callGraph EXCEPT !.edges = @ \cup InjectedCalls(callGraph, relationships)]

\* The statement nearest to the line, and of those the first, among those of
\* the files whose relative path the file's own path ends with.
StatementFor(statements, place) ==
  LET Distance(s) == CASE place.line < s.lines[1] -> s.lines[1] - place.line
                       [] place.line > s.lines[2] -> place.line - s.lines[2]
                       [] OTHER -> 0
      here == {s \in statements : s.file \in place.files}
      Nearer(s, t) == Distance(s) < Distance(t) \/ (Distance(s) = Distance(t) /\ s.id <= t.id)
  IN  {s \in here : \A t \in here : Nearer(s, t)}
OverlayTaint(graph, statements, flows) ==
  WithEdges(graph, {}, UNION {{Edge(s.id, t.id, "interprocedural-taint") : s \in StatementFor(statements, f.source),
                                                                           t \in StatementFor(statements, f.sink)}
                              : f \in flows})

(* ---- endpoints of a specification, and entry points ------------------------------------- *)

\* The first file with a repository whose root holds the specification.
RepositoryOfFile(spec, files) ==
  LET holding == SelectSeq(files, LAMBDA f : f.repo # "" /\ f.root = spec.root)
  IN  IF holding = <<>> THEN "" ELSE holding[1].repo

\* A specification adds the operations that no endpoint has yet.
MergeSpecifications(endpoints, specs, roots, files) ==
  LET Configured(spec) == SelectSeq(roots, LAMBDA r : r.name = spec.root /\ r.repo # "")
      Repo(spec) == IF Configured(spec) = <<>> THEN RepositoryOfFile(spec, files) ELSE Configured(spec)[1].repo
      Add(spec, merged, op) ==
        IF \E e \in ToSet(merged) : e.path = op.path /\ e.methods = op.methods THEN merged
        ELSE Append(merged, [op EXCEPT !.repo = Repo(spec), !.lines = <<0, 0>>, !.specified = TRUE])
      Of(merged, spec) == FoldLeft(LAMBDA m, op : Add(spec, m, op), merged, spec.operations)
  IN  FoldLeft(Of, endpoints, specs)

\* The function an endpoint names: by its id, by its name and file, or, for an
\* operation of a specification, by its last name alone.
EntryOf(graph, e) ==
  LET First(Test(_)) == SelectSeq(graph.nodes, Test)
      ids == First(LAMBDA f : f.plain /\ f.name = e.handler)
      named == First(LAMBDA f : f.name = e.handler /\ f.file = e.file)
      called == First(LAMBDA f : e.specified /\ f.name = e.handler)
  IN  Foremost(ids \o named \o called)

\* An operation that no function implements becomes a node of its own.
MarkEntries(graph, endpoints) ==
  LET Virtual(e, k) == [id |-> -k, name |-> "operation", file |-> e.file, repo |-> e.repo, lines |-> <<0, 0>>,
                        decorated |-> FALSE, checks |-> FALSE, indexed |-> FALSE, plain |-> FALSE]
      Lost(k) == endpoints[k].specified /\ EntryOf(graph, endpoints[k]) = <<>>
      lost == SelectSeq([k \in DOMAIN endpoints |-> k], Lost)
      Added == [k \in DOMAIN lost |-> Virtual(endpoints[lost[k]], lost[k])]
      marked == UNION {ToSet(EntryOf(graph, e)) : e \in ToSet(endpoints)} \cup ToSet(Added)
  IN  [graph EXCEPT !.nodes = @ \o Added, !.entries = @ \cup {f.id : f \in marked}]

(* ---- what is said of a finding ------------------------------------------------------------- *)

\* The rule's class and what it is made of: its document, else its definition.
RuleIdentity(registry, rule) ==
  LET known == {r \in registry : r.id = rule}
      Digest(r) == IF r.yaml = "" THEN <<"definition", r.definition>> ELSE <<"document", r.yaml>>
  IN  IF known = {} THEN [producer |-> "unknown-rule", digest |-> <<"rule", rule>>]
      ELSE LET r == CHOOSE r \in known : TRUE IN [producer |-> r.class, digest |-> Digest(r)]

\* The module of a file the scan parsed, or its path below the first root, or
\* its name alone.
ModulePath(finding, roots) ==
  IF \E r \in ToSet(roots) : r.name = finding.root THEN finding.relative ELSE finding.base

AttachFindingProvenance(finding, registry, files, roots) ==
  LET parsed == SelectSeq(files, LAMBDA f : f.path = finding.file)
      Repo == IF parsed = <<>> THEN "" ELSE parsed[Len(parsed)].repo
      Module == IF parsed = <<>> \/ parsed[Len(parsed)].module = "" THEN ModulePath(finding, roots)
                ELSE parsed[Len(parsed)].module
      AnalysisKind == CASE finding.flow # "" -> "semantic-taint"
                        [] finding.state # "candidate" -> "semantic-structural"
                        [] OTHER -> "heuristic-candidate"
  IN  [id |-> <<"ev", RuleIdentity(registry, finding.rule), <<Repo, Module>>, finding.lines>>, repo |-> Repo,
       module |-> Module, kind |-> AnalysisKind]

\* The lines shown around a finding of a file with n lines, from the first.
EnrichSnippet(finding, n, around) ==
  LET start == IF finding.lines[1] - 1 - around < 0 THEN 0 ELSE finding.lines[1] - 1 - around
      end == IF finding.lines[2] + around < n THEN finding.lines[2] + around ELSE n
  IN  [first |-> start + 1, lines |-> [k \in 1..(IF end > start THEN end - start ELSE 0) |-> start + k]]

\* The first endpoint that has the line, else the one that begins nearest.
EndpointContext(finding, endpoints) ==
  LET here == SelectSeq(endpoints, LAMBDA e : e.file = finding.file)
      around == SelectSeq(here, LAMBDA e : e.lines[1] <= finding.lines[1] /\ finding.lines[1] <= e.lines[2])
      Distance(e) == IF e.lines[1] < finding.lines[1] THEN finding.lines[1] - e.lines[1]
                     ELSE e.lines[1] - finding.lines[1]
      nearest == SelectSeq(here, LAMBDA e : \A d \in ToSet(here) : Distance(e) <= Distance(d))
  IN  Foremost(around \o nearest)

(* ---- recorded requests (runtime/evidence.py) --------------------------------------------------- *)

(***************************************************************************)
(* An artifact is [format, digest, repo, limit, contract, json, records]. A*)
(* record is [id, trace, span, parent, method, url], with an url [given,   *)
(* parts] and "" or NoRecordId for what it leaves out. What is kept of it  *)
(* is its method, path and identity, never a header, a cookie or a body.   *)
(***************************************************************************)
NoRecordId == -1
UrlPath(url) == IF url.given THEN SelectSeq(url.parts, LAMBDA s : s # "") ELSE NoPath
EvidenceId(digest, external, method, path) == <<"runtime", digest, external, method, path>>
SpanNode(repo, trace, span) == <<"runtime-span", repo, trace, span>>

Capped(artifact) ==
  SubSeq(artifact.records, 1, IF Len(artifact.records) < artifact.limit THEN Len(artifact.records) ELSE artifact.limit)
Observation(artifact, external, method, path, record) ==
  [id |-> EvidenceId(artifact.digest, external, method, path), method |-> method, path |-> path,
   repo |-> artifact.repo, trace |-> record.trace, span |-> record.span, parent |-> record.parent]

Bundle(artifact, observations, edges) ==
  [enabled |-> TRUE, artifacts |-> 1, observations |-> observations, edges |-> edges,
   warnings |-> IF Len(artifact.records) > artifact.limit THEN 1 ELSE 0,
   truncated |-> Len(artifact.records) > artifact.limit]

\* The entries of a HAR file and the records of an evidence file: a record
\* without a URL is passed over, and one without an id is named by its place.
LoadRequests(artifact) ==
  LET records == Capped(artifact)
      Method(r) == IF r.method = "" THEN "GET" ELSE r.method
      External(k) == IF records[k].id = NoRecordId THEN k - 1 ELSE records[k].id
      Of(k) == Observation(artifact, External(k), Method(records[k]), UrlPath(records[k].url), records[k])
  IN  Bundle(artifact, SelectSeq([k \in DOMAIN records |-> Of(k)], LAMBDA o : o.path # NoPath), {})

\* The spans of a trace: an edge from its parent where that was imported too,
\* and one from the span to its request.
LoadOtel(artifact) ==
  LET records == Capped(artifact)
      Of(r) == Observation(artifact, <<"span", r.span>>, r.method, UrlPath(r.url), r)
      spans == [k \in DOMAIN records |-> Of(records[k])]
      known == {<<r.trace, r.span>> : r \in {r \in ToSet(records) : r.span # ""}}
      Node(o, span) == SpanNode(artifact.repo, o.trace, span)
      Parents == {Edge(Node(o, o.parent), Node(o, o.span), "trace-parent") :
                    o \in {o \in ToSet(spans) : o.parent # "" /\ <<o.trace, o.parent>> \in known}}
      Requests == {Edge(Node(o, o.span), <<"runtime_observation", o.id>>, "observed-http") :
                     o \in {o \in ToSet(spans) : o.span # ""}}
  IN  Bundle(artifact, spans, Parents \cup Requests)

\* A file that cannot be read as what it claims to be leaves a warning.
FailedImport == [enabled |-> TRUE, artifacts |-> 1, observations |-> <<>>, edges |-> {}, warnings |-> 1, truncated |-> FALSE]
LoadEvidence(artifact) == IF artifact.contract = 1 THEN LoadRequests(artifact) ELSE FailedImport
LoadArtifact(artifact) ==
  CASE ~artifact.json -> FailedImport
    [] artifact.format = "otel-json" -> LoadOtel(artifact)
    [] artifact.format \in {"har", "browser-har", "proxy-har"} -> LoadRequests(artifact)
    [] OTHER -> LoadEvidence(artifact)

MergeBundle(a, b) ==
  [enabled |-> a.enabled \/ b.enabled, artifacts |-> a.artifacts + b.artifacts,
   observations |-> a.observations \o b.observations, edges |-> a.edges \cup b.edges,
   warnings |-> a.warnings + b.warnings, truncated |-> a.truncated \/ b.truncated]
NoBundle == [enabled |-> FALSE, artifacts |-> 0, observations |-> <<>>, edges |-> {}, warnings |-> 0, truncated |-> FALSE]
ImportRuntime(artifacts) ==
  FoldLeft(MergeBundle, NoBundle, [k \in DOMAIN artifacts |-> LoadArtifact(artifacts[k])])

(* ---- findings of other analysers (adapters/external.py) -------------------------------------- *)

(***************************************************************************)
(* An artifact is [format, digest, repo, root, limit, steps, json, version,*)
(* tool, runs, records]: SARIF holds runs [tool, results], the other       *)
(* formats records, an edge of Joern's being a vertex with one way out. A  *)
(* place is [scheme, absolute, parts, line], with a line of <<>> where the *)
(* tool gave none; a root and a resolved path are the names from the top   *)
(* of the file system.                                                     *)
(***************************************************************************)
PositiveInt(given, default) == IF given = <<>> THEN default ELSE IF given[1] < 1 THEN 1 ELSE given[1]

\* A path below the root, resolved; none for any other.
NormalizePath(raw, root) ==
  LET Step(at, s) == CASE s = ".." -> IF at = <<>> THEN at ELSE Front(at)
                       [] s \in {"", "."} -> at
                       [] OTHER -> Append(at, s)
      resolved == FoldLeft(Step, IF raw.absolute THEN <<>> ELSE root, raw.parts)
      Empty == raw.parts = <<>> /\ ~raw.absolute
  IN  IF Empty \/ raw.scheme \notin {"", "file"} \/ ~IsPrefix(root, resolved) THEN <<>> ELSE <<resolved>>

ExternalId(artifact, stable, path, line) == <<"external", artifact.digest, stable, path, line>>
ImportedFinding(artifact, result, tool, chain) ==
  LET path == NormalizePath(result.at, artifact.root)[1]
      start == PositiveInt(result.at.line, 1)
      Stable == IF result.print = "" THEN result.rule ELSE result.print
  IN  [id |-> ExternalId(artifact, Stable, path, start), rule |-> result.rule, file |-> path,
       lines |-> <<start, PositiveInt(result.end, start)>>, repo |-> artifact.repo, tool |-> tool, chain |-> chain]

NoImport == [findings |-> <<>>, edges |-> <<>>, tools |-> {}, warnings |-> 0, truncated |-> FALSE, closed |-> FALSE]
Warned(bundle) == [bundle EXCEPT !.warnings = @ + 1]
CutShort(bundle) == [Warned(bundle) EXCEPT !.truncated = TRUE]
Tool(artifact, named) == IF artifact.tool = "" THEN named ELSE artifact.tool
Below(artifact, place) == NormalizePath(place, artifact.root) # <<>>

\* The steps of a result's code flows below the root, up to the limit: a place
\* that is still to be read then cuts the flow, wherever it is.
SarifCodeFlow(artifact, flow) ==
  LET At(place) == [file |-> NormalizePath(place, artifact.root)[1], line |-> PositiveInt(place.line, 1)]
      Step(seen, place) ==
        IF Len(seen.chain) >= artifact.steps THEN [seen EXCEPT !.cut = TRUE]
        ELSE IF Below(artifact, place) THEN [seen EXCEPT !.chain = Append(@, At(place))] ELSE seen
  IN  FoldLeft(Step, [chain |-> <<>>, cut |-> FALSE], flow)
FlowNode(finding, k) == <<IF k = 0 THEN "external-finding" ELSE "external-flow", finding.repo, finding.id, k>>
FlowEdges(finding) ==
  [k \in DOMAIN finding.chain |-> Edge(FlowNode(finding, k - 1), FlowNode(finding, k), "code-flow")]

\* A result beyond the limit closes the whole file; one outside the repository
\* does not count against the limit.
TakeResult(artifact, tool, bundle, result) ==
  LET flow == SarifCodeFlow(artifact, result.flow)
      finding == ImportedFinding(artifact, result, tool, flow.chain)
      taken == [bundle EXCEPT !.findings = Append(@, finding), !.edges = @ \o FlowEdges(finding)]
  IN  IF bundle.closed THEN bundle
      ELSE IF Len(bundle.findings) >= artifact.limit THEN [CutShort(bundle) EXCEPT !.closed = TRUE]
      ELSE IF ~Below(artifact, result.at) THEN Warned(bundle)
      ELSE IF flow.cut THEN CutShort(taken) ELSE taken
LoadSarif(artifact) ==
  LET Run(bundle, run) ==
        IF bundle.closed THEN bundle
        ELSE FoldLeft(LAMBDA b, result : TakeResult(artifact, Tool(artifact, run.tool), b, result),
                      [bundle EXCEPT !.tools = @ \cup {Tool(artifact, run.tool)}], run.results)
  IN  FoldLeft(Run, NoImport, artifact.runs)

\* Here a result outside the repository does count.
LoadSemgrep(artifact) ==
  LET tool == Tool(artifact, "semgrep")
      begun == [NoImport EXCEPT !.tools = {tool}]
      Take(bundle, result) ==
        IF ~Below(artifact, result.at) THEN Warned(bundle)
        ELSE [bundle EXCEPT !.findings = Append(@, ImportedFinding(artifact, result, tool, <<>>))]
  IN  FoldLeft(Take, IF Len(artifact.records) > artifact.limit THEN CutShort(begun) ELSE begun, Capped(artifact))

\* Findings and edges have a limit each. The edges of a vertex past the limit
\* are passed over; only a later record then says that something was.
JoernFinding(artifact, bundle, record) ==
  IF ~Below(artifact, record.at) THEN bundle
  ELSE [bundle EXCEPT !.findings = Append(@, ImportedFinding(artifact, record, Tool(artifact, "joern"), <<>>))]
JoernRecord(artifact, bundle, record) ==
  LET Node(id) == <<"joern", artifact.repo, id>>
      Joined(b, target) ==
        IF record.id = "" \/ target = "" \/ Len(b.edges) >= artifact.limit THEN b
        ELSE [b EXCEPT !.edges = Append(@, Edge(Node(record.id), Node(target), "cpg-edge"))]
      used == IF record.type = "finding" THEN Len(bundle.findings) ELSE Len(bundle.edges)
  IN  IF used >= artifact.limit THEN [bundle EXCEPT !.truncated = TRUE]
      ELSE IF record.type = "finding" THEN JoernFinding(artifact, bundle, record)
      ELSE FoldLeft(Joined, bundle, record.out)
LoadJoern(artifact) ==
  LET begun == [NoImport EXCEPT !.tools = {Tool(artifact, "joern")}]
      read == FoldLeft(LAMBDA b, r : JoernRecord(artifact, b, r), begun, artifact.records)
  IN  IF read.truncated THEN Warned(read) ELSE read

\* A file that is not what it claims to be adds a warning and nothing else.
LoadExternal(artifact) ==
  CASE ~artifact.json \/ (artifact.format = "sarif" /\ artifact.version # "2.1.0") -> Warned(NoImport)
    [] artifact.format = "sarif" -> LoadSarif(artifact)
    [] artifact.format = "semgrep-json" -> LoadSemgrep(artifact)
    [] OTHER -> LoadJoern(artifact)
MergeExternal(a, b) ==
  [a EXCEPT !.findings = @ \o b.findings, !.edges = @ \o b.edges, !.tools = @ \cup b.tools,
            !.warnings = @ + b.warnings, !.truncated = @ \/ b.truncated]
ImportExternal(artifacts) ==
  FoldLeft(MergeExternal, NoImport, [k \in DOMAIN artifacts |-> LoadExternal(artifacts[k])])

(* ---- the check of a chain ------------------------------------------------------------ *)

NoEndpoint == [path |-> <<"none">>]

\* The handler where the chain begins, and what is missing of the path.
HandlerOf(first, endpoints) ==
  LET Handles(e) == /\ e.file = first.at.file /\ e.handler = first.at.name /\ e.repo = first.at.repo
                    /\ e.lines[1] >= 1 /\ e.lines[1] <= first.at.lines[1] /\ first.at.lines[1] <= e.lines[2]
      found == SelectSeq(endpoints, Handles)
  IN  IF found = <<>> THEN NoEndpoint ELSE found[1]

Gaps(chain, endpoint, finding) ==
  LET last == chain[Len(chain)]
      linked == \A k \in DOMAIN chain : chain[k].next = IF k < Len(chain) THEN chain[k + 1].symbol
                                                        ELSE NoNode
      bound == /\ last.at.file = finding.file /\ finding.lines[1] >= 1 /\ finding.lines[1] <= finding.lines[2]
               /\ Encloses(last.at.lines, finding.lines) /\ finding.repo \in {"", last.at.repo}
      valid == \A k \in DOMAIN chain : chain[k].at.lines[1] >= 1 /\ chain[k].at.lines[1] <= chain[k].at.lines[2]
  IN  {g \in {"endpoint", "ranges", "edges", "sink"} :
         CASE g = "endpoint" -> endpoint = NoEndpoint [] g = "ranges" -> ~valid [] g = "edges" -> ~linked [] OTHER -> ~bound}

InspectCallPath(chain, endpoints, finding) ==
  LET Checked(endpoint) == [endpoint |-> endpoint, gaps |-> Gaps(chain, endpoint, finding)]
  IN  CASE chain = <<>> -> [endpoint |-> NoEndpoint, gaps |-> {"chain"}]
        [] Len(chain) > MaxChain -> [endpoint |-> NoEndpoint, gaps |-> {"limit"}]
        [] OTHER -> Checked(HandlerOf(chain[1], endpoints))
=============================================================================
