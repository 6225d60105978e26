----------------------------- MODULE MCEvidence -----------------------------
(***************************************************************************)
(* What an agents' review may claim: a complete path is a walk in the call *)
(* graph from the handler of an endpoint to the function the finding lies  *)
(* in, an observed endpoint is one a recorded request was dispatched to,   *)
(* every identifier that is cited was issued, and a reply is the whole     *)
(* answer to the whole prompt.                                             *)
(***************************************************************************)
EXTENDS AgentPipeline

LOCAL INSTANCE SequencesExt
LOCAL INSTANCE FiniteSetsExt
LOCAL INSTANCE TLC

CONSTANTS Segments   \* what a segment of a request's path can be

(* ---- paths ----------------------------------------------------------------------- *)

\* One function calls another, directly or through others: whatever set of
\* functions is closed under calls and holds the first holds the second.
ReachesNode(graph, from, to) ==
  \A s \in SUBSET NodeIds(graph) : from \in s /\ (\A e \in graph.edges : e[1] \in s => e[2] \in s) => to \in s

LiesIn(f, finding) ==
  f.file = finding.file /\ f.repo = finding.repo /\ Encloses(f.lines, finding.lines)
Handles(e, f) ==
  e.file = f.file /\ e.handler = f.name /\ e.repo = f.repo /\ Encloses(e.lines, <<f.lines[1], f.lines[1]>>)

CompletePathIsWalk(c) ==
  LET nodes == ToSet(c.graph.nodes)
      Judge(chain, checked) ==
        /\ checked.gaps = {} =>
             \E f, g \in nodes : /\ Handles(checked.endpoint, f) /\ LiesIn(g, c.finding)
                                 /\ checked.endpoint \in ToSet(c.endpoints) /\ ReachesNode(c.graph, f.id, g.id)
                                 /\ f.id = chain[1].symbol /\ g.id = chain[Len(chain)].symbol
                                 /\ \A k \in 1..Len(chain) - 1 : <<chain[k].symbol, chain[k + 1].symbol>> \in c.graph.edges
                                 /\ \A k \in DOMAIN chain : \E h \in nodes : h.id = chain[k].symbol /\ h.indexed /\ h.lines[1] \in 1..h.lines[2]
        \* Without a chain nothing that the program starts with reaches the sink.
        /\ chain = <<>> /\ SinkNode(c.graph, c.finding) # NoNode =>
             \A f \in nodes : f.indexed =>
               ~((f.id \in c.graph.entries \/ \A e \in c.graph.edges : e[2] # f.id)
                 /\ f.id # SinkNode(c.graph, c.finding) /\ ReachesNode(c.graph, f.id, SinkNode(c.graph, c.finding)))
      Checked(chain) == Judge(chain, InspectCallPath(chain, c.endpoints, c.finding))
  IN  Checked(AttachCallChain(c.graph, c.finding))

\* A call in the sink itself that checks authorisation: it is not counted.
OwnCheckOnly(g, sink) == g.id = sink /\ ~g.decorated

\* A defence is one of the sink, or of a function from which it is reached.
DefenceIsOnTheWay(c) ==
  \A f \in ToSet(c.graph.nodes) :
    AuthPresent(c.graph, f.id) <=>
      \E g \in ToSet(c.graph.nodes) : /\ g.indexed /\ (g.decorated \/ g.checks)
                                      /\ ReachesNode(c.graph, g.id, f.id) /\ ~OwnCheckOnly(g, f.id)

(* ---- requests ----------------------------------------------------------------------- *)

\* The concrete paths of a pattern, and what a route makes of one.
PathsOf(n) == UNION {[1..k -> Segments] : k \in 0..n}
Serves(pattern, path) ==
  LET fixed == IF pattern # <<>> /\ pattern[Len(pattern)] = "**" THEN Len(pattern) - 1
               ELSE Len(pattern)
  IN  /\ IF fixed < Len(pattern) THEN Len(path) > fixed \/ pattern = <<"**">> ELSE Len(path) = fixed
      /\ \A k \in 1..fixed : pattern[k] \in Segments => path[k] = pattern[k]

\* The text from the first place of a prefix that something follows is replaced.
Rewriting(path, f) ==
  LET Splits == {<<a, b>> \in PathsOf(3) \X PathsOf(3) : b # <<>> /\ path = a \o f.from \o b}
      First == CHOOSE split \in Splits : \A other \in Splits : Len(split[1]) <= Len(other[1])
  IN  IF Splits = {} THEN path ELSE First[1] \o f.path \o First[2]
Forwarded(route, path) ==
  LET After[k \in 0..Len(route.filters)] ==
        IF k = 0 THEN path
        ELSE LET f == route.filters[k] IN
             CASE f.name = "StripPrefix" -> [j \in 1..(IF Len(After[k - 1]) > f.count THEN Len(After[k - 1]) - f.count
                                                       ELSE 0) |->
                                               After[k - 1][j + f.count]]
               [] f.name = "PrefixPath" -> f.path \o After[k - 1]
               [] f.name = "RewritePath" -> Rewriting(After[k - 1], f)
               [] OTHER -> f.path
  IN  After[Len(route.filters)]

Closed(path) == \A k \in DOMAIN path : path[k] \in Segments

\* A request is dispatched to an endpoint, straight or by a route. A client's
\* call that leaves segments open is some request.
Dispatched(o, routes, e) ==
  \E path \in IF Closed(o.path) THEN {o.path} ELSE PathsOf(3) :
    /\ Serves(o.path, path)
    /\ "ALL" \in e.methods \/ o.method \in e.methods
    /\ \/ Serves(e.path, path)
       \/ \E r \in ToSet(routes) : /\ r.methods = {} \/ o.method \in r.methods
                                   /\ \E p \in ToSet(r.patterns) : Serves(p, path)
                                   /\ Serves(e.path, Forwarded(r, path))

ObservedMeansDispatched(c) ==
  LET seen == ToSet(c.observations)
      Judge(linked) ==
        /\ \A k \in DOMAIN linked : linked[k].observed => \E o \in seen : Dispatched(o, c.routes, linked[k])
        /\ \A k \in DOMAIN linked : linked[k].observations <= Cardinality({o.id : o \in seen})
        /\ \A o \in {o \in seen : Closed(o.path)} : \A k \in DOMAIN linked :
             Dispatched(o, c.routes, linked[k]) => \E j \in 1..k : Identity(linked[j]) = Identity(linked[k]) /\ linked[j].observed
  IN  Judge(LinkRuntime(c.observations, c.routes, c.endpoints).endpoints)

\* What clients call and gateways expose is what some request would reach.
LinkedMeansReachable(c) ==
  LET calls == [k \in DOMAIN c.observations |-> [id |-> c.observations[k].id, method |-> c.observations[k].method,
                                                 path |-> c.observations[k].path, confidence |-> 65]]
      Judge(e) ==
        /\ e.called => \E o \in ToSet(calls) : Dispatched(o, c.routes, e)
        /\ ~e.called => ~\E o \in {o \in ToSet(calls) : Closed(o.path)} : Dispatched(o, c.routes, e)
        /\ e.exposed => \E r \in ToSet(c.routes) : r.id \in e.routes /\ \E p \in ToSet(r.patterns) :
             \/ \E path \in PathsOf(4) : Serves(p, path) /\ Serves(e.path, path)
             \/ \E path \in PathsOf(4) : Serves(p, path) /\ Serves(e.path, Forwarded(r, path))
  IN  \A e \in ToSet(Link(calls, c.routes, c.endpoints).endpoints) : Judge(e)

(* ---- the surface of a workspace ---------------------------------------------------- *)

\* Whatever set of nodes is closed under the edges and holds the first.
Leads(graph, from) ==
  FoldLeft(LAMBDA seen, k : seen \cup {e.to : e \in {e \in graph.edges : e.from \in seen}},
           {from}, [k \in 1..Cardinality(graph.nodes) |-> k])
Depends(dependencies, repo) ==
  FoldLeft(LAMBDA seen, k : seen \cup {d[2] : d \in {d \in dependencies : d[1] \in seen}},
           {repo}, [k \in 1..Cardinality(dependencies) |-> k])

\* A call in a file that clients run is recorded once, and every configured
\* route with a pattern is, or one with its repository, id and patterns.
SourcesAreRead(c, surface) ==
  LET Read(files, languages) == {f \in ToSet(files) : f.readable /\ f.language \in languages}
      Shown(f) == ToSet(f.fetches \o f.clients \o f.configs)
      HasPath(url) == url.parts # <<>> /\ (url.absolute \/ url.rooted \/ Len(url.parts) > 1)
      Method(m) == IF m.words = <<>> THEN "GET" ELSE m.words[1]
      \* The path is the whole URL, or all of it but the base it begins with.
      Fits(path, url) == path = SelectSeq(IF url.absolute \/ url.rooted THEN url.parts ELSE Tail(url.parts),
                                          LAMBDA part : part # "")
      Routed(config, items) == {k \in DOMAIN items : config.valid /\ ~config.ignored
                                 /\ \E p \in ToSet(items[k].predicates) : p.name = "path" /\ p.paths # <<>>}
      Kept(repo, items, k) == \E r \in ToSet(surface.routes) :
                          /\ repo \in {"", r.repo}
                          /\ \A p \in ToSet(items[k].predicates) : p.name = "path" => ToSet(p.paths) \subseteq ToSet(r.patterns)
                          /\ items[k].id # "" => r.id = <<items[k].id>>
      Once(sources) == \A i, j \in DOMAIN sources : sources[i] = sources[j] => i = j
  IN  /\ Once([k \in DOMAIN surface.calls |-> surface.calls[k].id])
      /\ Once([k \in DOMAIN surface.routes |-> RouteKey(surface.routes[k])])
      /\ \A f \in Read(c.files, {"javascript", "typescript"}) : \A m \in Shown(f) :
           (HasPath(m.url) /\ Method(m) \in HttpMethods) <=>
             \E call \in ToSet(surface.calls) : /\ call.repo = f.repo /\ call.method = Method(m)
                                               /\ call.id[3] = m.line /\ Fits(call.path, m.url)
      /\ \A n \in DOMAIN c.roots : \A config \in ToSet(c.roots[n].configs) :
           (\A m \in 1..n - 1 : \A other \in ToSet(c.roots[m].configs) : other.path # config.path) =>
             \A items \in {config.routes, config.webflux} : \A k \in Routed(config, items) : Kept(c.roots[n].repo, items, k)
      /\ \A f \in Read(c.files, {"java", "kotlin"}) : \A r \in ToSet(f.routes) :
           r.uri /\ r.patterns # <<>> => \E kept \in ToSet(surface.routes) : kept.id = <<r.id>> /\ kept.repo = f.repo

\* What is said of an endpoint is what its links say: its node has an edge in
\* the program's graph exactly when a client, a gateway or a request reaches
\* it, every link starts at what was found and ends at an endpoint, and its
\* repository is that of a source with its id.
SurfaceIsAccounted(c) ==
  LET Judge(surface, graph) ==
        /\ SourcesAreRead(c, surface)
        /\ \A e \in ToSet(surface.endpoints) :
             LET Of(kind) == {l \in ToSet(surface.links) : l.link.to = EndpointId(e) /\ l.link.kind = kind}
             IN  /\ (e.called \/ e.exposed \/ e.observed) <=> \E edge \in graph.edges : edge.to = EndpointId(e)
                 /\ e.calls = Cardinality({l.link.id : l \in Of("frontend_call")})
                 /\ e.routes = {l.link.id : l \in Of("gateway_route")}
                 /\ e.observations = Cardinality(Of("runtime_observation"))
        /\ \A l \in ToSet(surface.links) :
             /\ \E e \in ToSet(surface.endpoints) : l.link.to = EndpointId(e)
             /\ \E source \in ToSet(surface.calls) \cup ToSet(surface.routes) \cup ToSet(c.observations) :
                  source.id = l.link.id /\ source.repo = l.repo
      Merged == MergeSpecifications(c.endpoints, c.specs, c.roots, c.files)
      Surface(s) == Judge(s, OverlayAttackSurface([nodes |-> {}, edges |-> {}], s.endpoints,
                                                  [k \in DOMAIN s.links |-> s.links[k].link]))
  IN  /\ \A i, j \in DOMAIN Merged : i # j /\ j > Len(c.endpoints) =>
           <<Merged[i].path, Merged[i].methods>> # <<Merged[j].path, Merged[j].methods>>
      /\ Surface(AnalyzeSurface(c.roots, c.files, Merged, c.observations))

\* A function leads to another of its repository or of one it depends on,
\* and to no other; a taint edge joins the nearest statements.
OverlaysAddNoPath(c) ==
  LET overlaid == OverlayRepositoryReachability([nodes |-> {f.id : f \in c.functions}, edges |-> {}], c.functions,
                                                c.files, c.dependencies)
      tainted == OverlayTaint([nodes |-> {}, edges |-> {}], c.statements, c.flows)
      Near(place, s) == s.file \in place.files /\ \A t \in c.statements : t.file \in place.files =>
                          \A line \in t.lines[1]..t.lines[2] : \E own \in s.lines[1]..s.lines[2] :
                            (own - place.line) * (own - place.line) <= (line - place.line) * (line - place.line)
      injected == OverlayCalls(c.graph, c.relationships)
  IN  /\ \A f, g \in {f \in c.functions : f.repo # ""} :
           g.id \in Leads(overlaid, f.id) <=> g.repo \in Depends(c.dependencies, f.repo)
      /\ \A e \in tainted.edges : \E flow \in c.flows, s, t \in c.statements :
           e.from = s.id /\ e.to = t.id /\ Near(flow.source, s) /\ Near(flow.sink, t)
      /\ \A flow \in c.flows : (\E s, t \in c.statements : Near(flow.source, s) /\ Near(flow.sink, t)) =>
           \E e \in tainted.edges : \E s, t \in c.statements :
             e.from = s.id /\ e.to = t.id /\ Near(flow.source, s) /\ Near(flow.sink, t)
      /\ \A e \in injected.edges : e \in c.graph.edges \/ \E r \in c.relationships : <<r.from, r.to>> = e /\ r.kind = "spring-di-call"
      /\ \A r \in c.relationships : r \in OverlayFramework([nodes |-> {}, edges |-> {}], c.relationships).edges

(* ---- what is said of a finding -------------------------------------------------------- *)

\* The id names the rule as it is and the place: other documents, other files
\* and other lines have other ids. What is shown has the finding's lines.
FindingIsPlaced(c) ==
  LET Id(f) == AttachFindingProvenance(f, c.registry, c.files, c.roots).id
      Rule(f) == {r \in c.registry : r.id = f.rule}
      Parsed(f) == \E file \in ToSet(c.files) : file.path = f.file /\ file.module # ""
      shown == EnrichSnippet(c.finding, c.size, c.around)
      context == EndpointContext(c.finding, c.endpoints)
      marked == MarkEntries(c.graph, c.endpoints)
      Has(e) == e.file = c.finding.file /\ e.lines[1] <= c.finding.lines[1] /\ c.finding.lines[1] <= e.lines[2]
  IN  /\ \A other \in c.others : Id(c.finding) = Id(other) =>
           /\ c.finding.lines = other.lines /\ Rule(c.finding) = Rule(other)
           /\ Parsed(c.finding) /\ Parsed(other) => c.finding.file = other.file
      /\ \A line \in c.finding.lines[1]..c.finding.lines[2] : line <= c.size => line \in ToSet(shown.lines)
      /\ \A k \in DOMAIN shown.lines : shown.lines[k] = shown.first + k - 1 /\ shown.lines[k] <= c.size
      /\ \A e \in ToSet(context) : e.file = c.finding.file
      /\ (\E e \in ToSet(c.endpoints) : Has(e)) => \E e \in ToSet(context) : Has(e)
      /\ \A f \in ToSet(marked.nodes) : f.id \in marked.entries \ c.graph.entries =>
           \E e \in ToSet(c.endpoints) : e.handler = f.name \/ (e.specified /\ e.file = f.file)
      /\ \A e \in ToSet(c.endpoints) : (\E f \in ToSet(c.graph.nodes) : f.name = e.handler /\ f.file = e.file)
           => \E f \in ToSet(c.graph.nodes) : f.id \in marked.entries /\ f.name = e.handler

(* ---- recorded requests ------------------------------------------------------------------ *)

\* Of every artifact no more is kept than its limit, a part that is left out
\* is announced, and an edge of a trace joins two spans that were kept.
ImportIsAnnounced(c) ==
  LET bundle == ImportRuntime(c.artifacts)
      Readable(a) == a.json /\ (a.format \in {"har", "otel-json"} \/ a.contract = 1)
      Cut(a) == Len(a.records) > a.limit
      From(a) == {o \in ToSet(bundle.observations) : o.id[2] = a.digest}
      Spans == {SpanNode(o.repo, o.trace, o.span) : o \in ToSet(bundle.observations)}
      Urls(a) == {k \in DOMAIN a.records : k <= a.limit /\ a.records[k].url.given}
  IN  /\ bundle.artifacts = Len(c.artifacts) /\ (bundle.enabled <=> c.artifacts # <<>>)
      /\ bundle.truncated <=> \E a \in ToSet(c.artifacts) : Readable(a) /\ Cut(a)
      /\ bundle.warnings = Cardinality({k \in DOMAIN c.artifacts : ~Readable(c.artifacts[k]) \/ Cut(c.artifacts[k])})
      /\ \A a \in ToSet(c.artifacts) : Cardinality(From(a)) <= a.limit /\ (~Readable(a) => From(a) = {})
      /\ \A a \in ToSet(c.artifacts) : Readable(a) => \A k \in Urls(a) :
           \E o \in From(a) : o.path = SelectSeq(a.records[k].url.parts, LAMBDA part : part # "")
                              /\ a.records[k].method \in {"", o.method}
      /\ \A a \in ToSet(c.artifacts) : a.format # "otel-json" => \A o \in From(a) : o.path # NoPath /\ o.method # ""
      /\ \A e \in bundle.edges : e.from \in Spans /\ (e.kind = "trace-parent" => e.to \in Spans)
      /\ \A e \in bundle.edges : e.kind = "observed-http" => \E o \in ToSet(bundle.observations) : e.to[2] = o.id
      /\ \A a \in ToSet(c.artifacts) : Readable(a) /\ a.format = "otel-json" => \A o, p \in From(a) :
           o.parent # "" /\ o.trace = p.trace /\ o.parent = p.span
           => Edge(SpanNode(p.repo, p.trace, p.span), SpanNode(o.repo, o.trace, o.span), "trace-parent") \in bundle.edges

(* ---- the review ------------------------------------------------------------------------ *)

ReviewIsHonest(c) ==
  LET traces == Traces(c.scan)
      Whole(t) == \E e \in ToSet(c.scan.endpoints) : t.finding.chain # <<>> /\ Handles(e, t.finding.chain[1].at)
      Judge(run) ==
        /\ run.status = "completed" => \A s \in ToSet(run.stages) : s.status = "completed" /\ s.error = ""
        /\ run.status = "completed" /\ c.scan.findings # <<>> => \E t \in ToSet(traces) : t.complete /\ Whole(t)
        \* Nobody is asked to approve what was observed, nor what no path supports.
        /\ run.status = "awaiting_approval" <=> run.status # "raised" /\ \E t \in ToSet(traces) : t.complete /\ ~t.observed
        /\ run.status # "raised" => ("dynamic-validation" \in run.proposals <=> run.status = "awaiting_approval")
        /\ run.status = "completed" => \A r \in ToSet(Roles) : c.replies[r] = NoReply \/ c.replies[r].ok
        /\ \A s \in ToSet(run.stages) : s.role # "cve" => s.cites \subseteq run.evidence
        /\ run.status # "raised" => \A t \in ToSet(traces) : Cardinality(t.ids) <= MaxEvidence
        /\ \A s \in ToSet(run.stages) : s.narrated <=> c.replies[s.role].ok
        /\ run.status # "raised" /\ Len(traces) <= TracedByTools /\ c.replies["synthesis"] # NoReply =>
             \A t \in ToSet(traces) : <<"tool", "synthesis", "call_path",
                                        t.finding.id>> \in run.evidence
      \* Impact is demonstrated only where a request was seen, and impact was.
      Proofs == \A t \in ToSet(traces) : Likelihood(t) = "demonstrated_in_fixture" => \E e \in ToSet(c.scan.endpoints) : t.endpoint = e /\ e.observed /\ t.finding.proven
      Cves == \A v \in c.cves : LET said == AssessCve(v, {o.id : o \in ToSet(c.scan.observations)}) IN
        /\ said = "exploitable_in_fixture" => /\ v.present # "no" /\ v.affected # "no" /\ v.verified
                                              /\ \E o \in ToSet(c.scan.observations) : o.id \in v.ids
        /\ said \in {"reachable", "version_exposed"} => v.affected = "yes" /\ v.present # "no"
        /\ said = "not_affected" => "no" \in {v.present, v.affected}
  IN  Proofs /\ Cves /\ Judge(RunPipeline(c.scan, c.cves, c.replies))

(* ---- replies ---------------------------------------------------------------------------- *)

\* The first k turns see the prompt taken, both streams closed and the process gone.
Over(c, k) ==
  LET turns == {c.events[j] : j \in 1..k}
  IN  /\ \E e \in turns : e.is = "exit"
      /\ \A s \in {"out", "err"} : \E e \in turns : e.is = "close" /\ e.stream = s
      /\ MapThenSumSet(LAMBDA j : IF c.events[j].is = "take" THEN c.events[j].n
                                  ELSE 0, 1..k) >= c.prompt

\* The prompt was delivered whole and everything written was read as text, in
\* time and within the limit, by a process that ended well.
RanWhole(c) ==
  \E k \in DOMAIN c.events :
    LET Written == MapThenSumSet(LAMBDA j : IF c.events[j].is = "write" THEN c.events[j].n
                                            ELSE 0, 1..k)
    IN  /\ Over(c, k) /\ ~Over(c, k - 1)
        /\ Written <= OutputLimit
        /\ \A j \in 1..k : /\ c.events[j].is # "late"
                           /\ c.events[j].is = "exit" => c.events[j].code = "0"
                           /\ c.events[j].is = "write" => c.events[j].text
                           /\ c.events[j].is = "shut" =>
                                MapThenSumSet(LAMBDA i : IF c.events[i].is = "take" THEN c.events[i].n
                                                         ELSE 0, 1..j) >= c.prompt
                           /\ c.events[j].is = "file" /\ c.agent = "codex" =>
                                c.events[j].file.is = "none" \/ (c.events[j].file.is = "regular" /\ c.events[j].file.size <= OutputLimit)

CommandReplyIsWhole(c) ==
  LET reply == ValidateNarrative(CommandTurn(c.agent, c.prompt, c.events, c.file, c.wrapper))
      Said == IF c.agent = "codex" THEN c.file.text ELSE c.wrapper.result
      Sound == IF c.agent = "codex" THEN c.file.is = "regular" /\ c.file.size <= OutputLimit
               ELSE c.wrapper.json = "object" /\ c.wrapper.success /\ c.wrapper.stop \in {"none", "end_turn", "stop_sequence"}
  IN  /\ reply.ok <=> RanWhole(c) /\ Sound /\ Said = [json |-> "object", value |-> "narrative"]
      /\ ~reply.ok => reply.code # ""

\* A response counts if it says that it is complete and is one message of one text.
ServiceReplyIsWhole(c) ==
  LET reply == ValidateNarrative(OpenAITurn(c.request))
      envelope == c.request.envelope
      Texts == {k \in DOMAIN envelope.output : envelope.output[k].type = "message"}
  IN  reply.ok <=> /\ c.request.is = "body" /\ c.request.size <= ResponseLimit /\ c.request.json = "object"
                   /\ envelope.status = "completed" /\ ~envelope.error /\ ~envelope.details
                   /\ \A k \in DOMAIN envelope.output : envelope.output[k].type \in {"message", "reasoning"}
                   /\ \E k \in Texts : /\ Texts = {k} /\ envelope.output[k].completed
                                       /\ envelope.output[k].parts = <<"output_text">>
                                       /\ envelope.output[k].text = [json |-> "object", value |-> "narrative"]

(***************************************************************************)
(* The instance that is checked.                                           *)
(***************************************************************************)

(* ---- call paths ---------------------------------------------------------------- *)

\* A handler, a service function with one nested in it, and a helper.
Function(id, name, file, lines, marks) ==
  [id |-> id, name |-> name, file |-> file, repo |-> "r1",
   lines |-> IF "unranged" \in marks THEN <<0, 0>>
                                                                     ELSE lines,
   decorated |-> "decorated" \in marks, checks |-> "checks" \in marks, indexed |-> "hidden" \notin marks, plain |-> "plain" \in marks]
Nodes(marked, marks) ==
  LET Marks(id) == IF id = marked THEN marks ELSE {}
  IN  <<Function(1, "get", "web", <<2, 4>>, Marks(1)), Function(2, "load", "db", <<1, 6>>, Marks(2)),
        Function(3, "query", "db", <<3, 5>>, Marks(3)), Function(4, "help", "lib", <<1, 2>>, Marks(4))>>
Edges == {<<1, 2>>, <<2, 3>>, <<1, 4>>, <<4, 2>>, <<3, 2>>, <<4, 3>>}
Graph == [nodes |-> Nodes(1, {}), edges |-> {<<1, 2>>, <<2, 3>>}, entries |-> {1}]

Endpoint(path, methods, file, handler, lines) ==
  [repo |-> "r1", methods |-> methods, path |-> path, file |-> file, handler |-> handler,
   lines |-> lines, specified |-> FALSE, observed |-> FALSE, called |-> FALSE, exposed |-> FALSE,
   calls |-> 0, routes |-> {}, observations |-> 0]
Finding(id, lines, flow) ==
  [id |-> id, rule |-> "sql", repo |-> "r1", file |-> "db", lines |-> lines, flow |-> flow,
   proven |-> FALSE, chain |-> <<>>, state |-> "candidate", root |-> "/a", relative |-> "db", base |-> "db",
   evidence |-> <<>>]
Handler == Endpoint(<<"load">>, {"GET"}, "web", "get", <<1, 4>>)
Loader == Endpoint(<<"x", "{id}">>, {"POST"}, "db", "load", <<1, 1>>)

Marked == {<<m, s>> : m \in 1..4, s \in {{}, {"decorated"}, {"hidden", "decorated"}, {"plain", "checks"},
                                  {"unranged", "checks"}}}
PathCases(mark) ==
  {[kind |-> "path",
    graph |-> [nodes |-> Nodes(mark[1], mark[2]), edges |-> edges, entries |-> entries],
    endpoints |-> endpoints, finding |-> finding] :
     edges \in SUBSET Edges, entries \in {{}, {1}, {4, 1}}, endpoints \in {<<Handler, Loader>>, <<[Handler EXCEPT !.lines = <<1, 1>>]>>},
     finding \in {Finding(1, l, f) : l \in {<<4, 4>>, <<2, 2>>, <<5, 6>>, <<7, 7>>},
                  f \in {"", "query"}}}

(* ---- requests --------------------------------------------------------------------- *)

Route(methods, patterns, filters) ==
  [id |-> <<"public">>, repo |-> "r1", methods |-> methods, patterns |-> patterns, filters |-> filters]
Filters == {<<>>, <<[name |-> "RewritePath", from |-> <<"api">>, path |-> <<"x">>]>>, <<[name |-> "StripPrefix", count |-> 1]>>,
            <<[name |-> "PrefixPath", path |-> <<"api">>]>>,
            <<[name |-> "StripPrefix", count |-> 2], [name |-> "PrefixPath", path |-> <<"x">>]>>,
            <<[name |-> "SetPath", path |-> <<"x", "load">>]>>}
Patterns == {<<"api", "**">>, <<"api", "*">>, <<"{id}", "load">>, <<"**">>, <<"load">>}
Request(i, method, path) ==
  [id |-> <<"runtime", i>>, repo |-> "r1", method |-> method, path |-> path]
Requests == {Request(1, m, p) :
               m \in {"GET", "POST"}, p \in {<<"load">>, <<"x", "api">>, <<"api", "load">>, <<"api", "x", "load">>, <<"api", "api", "load">>,
                                         <<"api">>, <<"x", "{id}">>, <<>>}}
RequestCases(filters) ==
  {[kind |-> "request", routes |-> routes, observations |-> observations, endpoints |-> endpoints] :
     routes \in {<<Route(m, <<p>>, filters)>> : m \in {{}, {"GET"}}, p \in Patterns},
     observations \in {<<r>> : r \in Requests} \cup {<<>>, <<Request(1, "GET", <<"load">>), Request(1, "GET", <<"api", "load">>)>>},
     endpoints \in {<<Handler, Loader>>, <<Handler, [Handler EXCEPT !.file = "db"], Endpoint(<<"x", "api", "load">>, {"GET"}, "web", "get", <<1, 4>>)>>,
                    <<Endpoint(<<"**">>, {"ALL"}, "web", "get", <<1, 4>>), Loader>>,
                    <<Endpoint(<<"api", "{id}">>, {"GET", "PUT"}, "web", "get", <<1, 4>>)>>}}

(* ---- the surface of a workspace -------------------------------------------------------- *)

Source(path, repo, language) ==
  [path |-> path, root |-> "/a", repo |-> repo, module |-> path, language |-> language, readable |-> TRUE,
   surface |-> "library", fetches |-> <<>>, clients |-> <<>>, configs |-> <<>>, routes |-> <<>>]
Url(absolute, rooted, parts) ==
  [absolute |-> absolute, rooted |-> rooted, dynamic |-> "{dynamic}" \in ToSet(parts), parts |-> parts]
Match(line, words, url) == [line |-> line, words |-> words, url |-> url]
Links == {Url(FALSE, TRUE, <<"load">>), Url(TRUE, FALSE, <<"", "load", "">>), Url(FALSE, FALSE, <<"load">>),
          Url(FALSE, FALSE, <<"{dynamic}", "api", "load">>), Url(FALSE, TRUE, <<"api", "{dynamic}">>),
          Url(FALSE, TRUE, <<"">>)}

Item(id, paths, methods, filters) ==
  [id |-> id, filters |-> filters,
   predicates |-> <<[name |-> "path", paths |-> paths], [name |-> "method", methods |-> methods]>>]
Strip == [name |-> "StripPrefix", count |-> 1]
Config(path, ignored, valid, routes, webflux) ==
  [path |-> path, ignored |-> ignored, valid |-> valid, routes |-> routes, webflux |-> webflux]
Public == Item("public", <<<<"api", "**">>>>, <<>>, <<Strip>>)
Configs == {<<>>, <<Config("app", FALSE, TRUE, <<Public>>, <<Item("", <<<<"load">>>>, <<"GET">>, <<>>)>>)>>,
            <<Config("app", TRUE, TRUE, <<Public>>, <<>>), Config("boot", FALSE, FALSE, <<Public>>, <<>>)>>,
            <<Config("app", FALSE, TRUE, <<Item("", <<>>, <<>>, <<>>), Item("", <<<<"x", "*">>>>, <<>>, <<>>)>>, <<>>),
              Config("boot", FALSE, TRUE, <<Public, Public, [Public EXCEPT !.id = "other"]>>, <<>>)>>}
Root(name, repo, configs) == [name |-> name, repo |-> repo, configs |-> configs]
Specified(path, methods) == Endpoint(path, methods, "openapi", "load", <<1, 1>>)

SurfaceCases(url) ==
  {[kind |-> "surface", endpoints |-> endpoints, observations |-> observations, specs |-> specs,
    roots |-> <<Root("/a", repo, configs), Root("/b", "r2", more)>>,
    files |-> <<[Source("view", "r1", language) EXCEPT !.fetches = <<Match(1, words, url)>>, !.readable = readable,
                                                       !.clients = <<Match(1, <<"GET">>, url), Match(2, <<"POST">>, url)>>,
                                                       !.configs = <<Match(3, <<>>, Url(FALSE, FALSE, <<>>))>>],
                [Source("gate", "r2", "java") EXCEPT !.routes = <<[id |-> "public", patterns |-> <<<<"api", "**">>>>, uri |-> TRUE,
                                                                   filters |-> <<[name |-> "SetPath", path |-> <<>>], Strip>>]>>]>>] :
     words \in {<<>>, <<"GET", "POST">>, <<"LOG">>}, language \in {"typescript", "go"}, readable \in BOOLEAN,
     repo \in {"", "r1"}, configs \in Configs, more \in {<<>>, <<Config("app", FALSE, TRUE, <<Public>>, <<>>), Config("b", FALSE, TRUE, <<Public>>, <<>>)>>},
     specs \in {<<>>, <<[root |-> "/b", operations |-> <<Specified(<<"load">>, {"GET"}), Specified(<<"api">>, {"PUT"}),
                                                        Specified(<<"api">>, {"PUT"})>>]>>},
     observations \in {<<>>, <<Request(1, "GET", <<"api", "load">>), Request(2, "", <<"load">>), Request(3, "GET", NoPath)>>},
     endpoints \in {<<Handler, Loader>>}}

\* Three functions in up to three repositories.
Owners == {"", "r1", "r2", "r3"}
Statements == {[id |-> 1, file |-> "db", lines |-> <<1, 1>>], [id |-> 2, file |-> "db", lines |-> <<3, 4>>],
               [id |-> 3, file |-> "web", lines |-> <<2, 2>>], [id |-> 4, file |-> "b/db", lines |-> <<4, 6>>]}
At(files, line) == [files |-> files, line |-> line]
OverlayCases(owner) ==
  {[kind |-> "overlay", functions |-> {[id |-> <<"function", 1>>, repo |-> owner], [id |-> <<"function", 2>>, repo |-> second],
                                       [id |-> <<"function", 3>>, repo |-> "r3"]},
    files |-> <<Source("view", "r1", "go"), Source("db", "", "go")>>, dependencies |-> dependencies,
    graph |-> Graph, statements |-> Statements, flows |-> {[source |-> source, sink |-> sink]}, relationships |-> relationships] :
     second \in Owners, dependencies \in SUBSET {<<"r1", "r2">>, <<"r2", "r3">>, <<"r3", "r1">>},
     relationships \in {{}, {Edge(1, 3, "spring-di-call"), Edge(1, 9, "spring-di-call"), Edge(1, 4, "spring-event")}},
     source \in {At({"web"}, 9), At({"none"}, 1)}, sink \in {At({"db"}, line) : line \in 1..5} \cup {At({"db", "b/db"}, 4)}}

\* A finding beside others, in files that were parsed or not.
Registry == {[id |-> "sql", class |-> "YamlRule", yaml |-> "select", definition |-> "d1"],
             [id |-> "eval", class |-> "YamlRule", yaml |-> "call", definition |-> "d1"],
             [id |-> "race", class |-> "PythonRule", yaml |-> "", definition |-> "d2"]}
PlaceCases(lines) ==
  {[kind |-> "place", finding |-> [Finding(1, lines, flow) EXCEPT !.rule = rule],
    others |-> {[Finding(2, l, "") EXCEPT !.rule = r, !.file = f, !.root = root, !.relative = "db", !.base = "db"] :
                  l \in {<<2, 2>>, <<4, 5>>}, r \in {"sql", "eval", "gone"}, f \in {"db", "web"}, root \in {"/a", "/c"}},
    registry |-> Registry, roots |-> <<Root("/a", "", <<>>)>>, files |-> files, size |-> size, around |-> around,
    graph |-> [Graph EXCEPT !.nodes = Nodes(2, marks)],
    endpoints |-> endpoints] :
     flow \in {"", "query"}, rule \in {"sql", "gone"}, files \in {<<>>, <<Source("db", "r1", "go"), Source("web", "r1", "go")>>},
     size \in {1, 4, 9}, around \in {0, 2}, marks \in {{}, {"plain"}},
     endpoints \in {<<>>, <<Handler, Loader>>, <<Loader, [Loader EXCEPT !.lines = <<4, 5>>], [Loader EXCEPT !.lines = <<2, 9>>]>>,
                    <<[Specified(<<"api">>, {"PUT"}) EXCEPT !.specified = TRUE],
                      [Specified(<<"api">>, {"PUT"}) EXCEPT !.specified = TRUE, !.handler = "gone"]>>}}

(* ---- recorded requests ------------------------------------------------------------------ *)

Record(id, trace, span, parent, method, given, parts) ==
  [id |-> id, trace |-> trace, span |-> span, parent |-> parent, method |-> method,
   url |-> [given |-> given, parts |-> parts]]
Records == {Record(NoRecordId, "t", "a", "", "GET", TRUE, <<"load">>), Record(0, "t", "b", "a", "", TRUE, <<"", "load">>),
            Record(NoRecordId, "t", "", "b", "POST", FALSE, <<>>), Record(1, "u", "c", "a", "GET", TRUE, <<>>),
            Record(0, "t", "c", "c", "GET", TRUE, <<"load">>)}
Artifact(format, digest, limit, contract, json, records) ==
  [format |-> format, digest |-> digest, repo |-> "r1", limit |-> limit, contract |-> contract, json |-> json,
   records |-> records]
ImportCases(first) ==
  {[kind |-> "import", artifacts |-> <<Artifact(format, "d1", limit, contract, json, <<first>> \o more)>> \o others] :
     format \in {"har", "otel-json", "browser-evidence-json"}, limit \in {1, 2, 3}, contract \in {1, 2}, json \in BOOLEAN,
     more \in UNION {[1..n -> Records] : n \in 0..2},
     others \in {<<>>, <<Artifact("otel-json", "d2", 1, 1, TRUE, <<Record(1, "t", "a", "b", "GET", TRUE, <<"load">>)>>)>>}}

(* ---- findings of other analysers --------------------------------------------------------- *)

Where(scheme, absolute, parts, line) == [scheme |-> scheme, absolute |-> absolute, parts |-> parts, line |-> line]
Inside == {Where("", FALSE, <<"a">>, <<3>>), Where("file", TRUE, <<"repo", "a">>, <<0>>), Where("", FALSE, <<".", "a", "..", "b">>, <<>>)}
Beyond == {Where("", FALSE, <<"..", "a">>, <<3>>), Where("", TRUE, <<"etc">>, <<1>>), Where("https", TRUE, <<"repo", "a">>, <<3>>), Where("", FALSE, <<>>, <<>>)}
Place(at) == [file |-> IF at.line = <<>> THEN <<"repo", "b">> ELSE <<"repo", "a">>, line |-> IF at.line = <<3>> THEN 3 ELSE 1]
Result(type, rule, print, at, flow, id, out) ==
  [type |-> type, rule |-> rule, print |-> print, at |-> at, end |-> <<>>, flow |-> flow, id |-> id, out |-> out]
Told(rule, print, at, flow) == Result("finding", rule, print, at, flow, "", <<>>)
OwnPlace == Where("", FALSE, <<"a">>, <<3>>)
Results == {Told("sql", "p1", at, <<>>) : at \in Inside \cup Beyond}
           \cup {Told("sql", "", OwnPlace, flow) : flow \in UNION {[1..n -> {OwnPlace, Where("", FALSE, <<"..">>, <<3>>)}] : n \in 2..3}}
Vertices == {Result("node", "", "", OwnPlace, <<>>, id, out) : id \in {"", "n"}, out \in {<<>>, <<"m">>, <<"m", "">>, <<"m", "o">>}}
Foreign(format, digest, limit, steps, healthy, version, runs, records) ==
  [format |-> format, digest |-> digest, repo |-> "r1", root |-> <<"repo">>, limit |-> limit, steps |-> steps,
   json |-> healthy, version |-> version, tool |-> "", runs |-> runs, records |-> records]
SarifOf(limit, steps, version, runs) == Foreign("sarif", "s1", limit, steps, TRUE, version, runs, <<>>)
Session(results) == [tool |-> "codeql", results |-> results]
ExternalCases(first) ==
  LET Few == {Told("sql", "p1", OwnPlace, <<>>), Told("eval", "", Where("", TRUE, <<"etc">>, <<1>>), <<>>),
              Told("eval", "", OwnPlace, <<OwnPlace, OwnPlace>>)}
      Other == Foreign("semgrep-json", "g1", 1, 1, TRUE, "", <<>>, <<Told("eval", "", OwnPlace, <<>>)>>)
      Bare(format, limit, healthy, records) ==
        Foreign(format, "s1", limit, 1, healthy, "", <<>>, [k \in DOMAIN records |-> [records[k] EXCEPT !.flow = <<>>]])
  IN  {[kind |-> "external", artifacts |-> <<SarifOf(limit, steps, "2.1.0", runs)>> \o others] :
         limit \in {1, 2}, steps \in {1, 2}, others \in {<<>>, <<Other>>},
         runs \in {<<Session(<<first>> \o more)>> : more \in UNION {[1..n -> Few] : n \in 0..2}}
                  \cup {<<Session(<<first>>), Session(<<>>), Session(<<more>>)>> : more \in Results}}
      \cup {[kind |-> "external", artifacts |-> <<SarifOf(1, 1, "2.0.0", <<Session(<<first>>)>>)>> \o others] :
              others \in {<<>>, <<Other>>}}
      \cup {[kind |-> "external", artifacts |-> <<Bare("semgrep-json", limit, healthy, <<first>> \o more)>>] :
              limit \in {1, 2}, healthy \in BOOLEAN,
              more \in UNION {[1..n -> {Told("sql", "p1", at, <<>>) : at \in Inside \cup Beyond}] : n \in 0..2}}
      \cup {[kind |-> "external", artifacts |-> <<Bare("joern-jsonl", limit, healthy, <<first>> \o more)>>] :
              limit \in {1, 2}, healthy \in BOOLEAN,
              more \in UNION {[1..n -> Vertices \cup {Told("sql", "p1", OwnPlace, <<>>)}] : n \in 0..2}}

\* What is imported lies below the root of its repository and within the
\* limits, nothing below the root is lost without a warning, and a flow leads
\* from its finding through every place that was kept.
ExternalIsAnnounced(c) ==
  LET first == c.artifacts[1]
      Readable(a) == a.json /\ (a.format = "sarif" => a.version = "2.1.0")
      Given(a) == IF a.format = "sarif" THEN FlattenSeq([k \in DOMAIN a.runs |-> a.runs[k].results]) ELSE a.records
      Owed(a) == SelectSeq(Given(a), LAMBDA r : r.type = "finding" /\ r.at \in Inside)
      Kept(r) == SelectSeq(r.flow, LAMBDA place : place \in Inside)
      Fits(f, r) == /\ f.rule = r.rule /\ IsPrefix(f.chain, [k \in DOMAIN Kept(r) |-> Place(Kept(r)[k])])
                    /\ Len(f.chain) <= first.steps
      Joins(a) == UNION {{<<r.id, r.out[k]>> : k \in DOMAIN r.out} : r \in {r \in ToSet(a.records) : r.type # "finding"}}
      Found(a, results, found) ==
        /\ Len(found) <= a.limit /\ (~Readable(a) => found = <<>>)
        /\ \A k \in DOMAIN found : k <= Len(results) /\ Fits(found[k], results[k])
      Whole(alone, results, given) ==
        IF alone.truncated THEN Len(given) > first.limit \/ \E r \in ToSet(results) : Len(r.flow) > first.steps
        ELSE /\ Len(alone.findings) = Len(results)
             /\ \A k \in DOMAIN results : first.format = "sarif" => Len(alone.findings[k].chain) = Len(Kept(results[k]))
             /\ first.format # "joern-jsonl" => alone.warnings = Len(given) - Len(results)
      Chained(f, edges) ==
        \A k \in DOMAIN f.chain :
          Edge(IF k = 1 THEN <<"external-finding", f.repo, f.id, 0>> ELSE FlowNode(f, k - 1), FlowNode(f, k), "code-flow") \in edges
      Flows(found, edges) ==
        /\ \A f \in found : /\ IsPrefix(first.root, f.file) /\ ".." \notin ToSet(f.file) /\ f.lines[1] >= 1
                            /\ Chained(f, edges)
        /\ \A e \in edges : e.kind = "code-flow" => \E f \in found : \E k \in DOMAIN f.chain : e.to = FlowNode(f, k)
      Drawn(edges, joins) ==
        LET Joined(j) == \E e \in ToSet(edges) : <<e.from[3], e.to[3]>> = j
        IN  /\ \A e \in ToSet(edges) : <<e.from[3], e.to[3]>> \in joins /\ "" \notin {e.from[3], e.to[3]}
            /\ Len(edges) < first.limit => \A j \in joins : "" \in {j[1], j[2]} \/ Joined(j)
      All(bundle) ==
        /\ bundle.truncated \/ (\E a \in ToSet(c.artifacts) : ~Readable(a)) => bundle.warnings > 0
        /\ \A a \in ToSet(c.artifacts) : Found(a, Owed(a), SelectSeq(bundle.findings, LAMBDA f : f.id[2] = a.digest))
        /\ Flows(ToSet(bundle.findings), ToSet(bundle.edges))
      Alone(read, cut) ==
        /\ Whole(read, Owed(first), Given(first)) /\ (read.truncated => cut)
        /\ first.format = "joern-jsonl" => Drawn(read.edges, Joins(first))
      Both(bundle) == All(bundle) /\ (Readable(first) => Alone(LoadExternal(first), bundle.truncated))
  IN  Both(ImportExternal(c.artifacts))

(* ---- reviews ----------------------------------------------------------------------- *)

Found(id, lines, proven) ==
  LET Bare == [Finding(id, lines, "") EXCEPT !.proven = proven]
      Provenance == AttachFindingProvenance(Bare, Registry, <<Source("db", "r1", "java")>>, <<>>)
  IN  [Bare EXCEPT !.chain = AttachCallChain(Graph, Bare), !.evidence = Provenance.id]
Observations == {[i \in 1..n |-> Request(i, "GET", <<"load">>)] : n \in 0..3}
Cve(present, affected, reachable, verified, ids) ==
  [present |-> present, affected |-> affected, reachable |-> reachable, verified |-> verified,
   ids |-> ids]
Cves == {Cve(p, a, r, v, ids) : p \in {"yes", "no", "unknown"}, a \in {"yes", "no", "unknown"},
         r \in {"yes", "unknown"},
                                v \in BOOLEAN, ids \in {{}, {<<"runtime", 1>>}, {<<"runtime", 7>>}}}
Answers == {[r \in ToSet(Roles) |-> IF r \in silent THEN NoReply ELSE IF r \in failing THEN Refused("timeout") ELSE Accepted("narrative")] :
              silent \in {{}, ToSet(Roles)}, failing \in {{}, {"surface"}, {"static"}, {"dynamic"}, {"cve"}}}
ReviewCases(observed) ==
  {[kind |-> "review", cves |-> cves, replies |-> replies,
    scan |-> [findings |-> findings, observations |-> observed, truncated |-> FALSE,
              endpoints |-> LinkRuntime(observed, <<>>, endpoints).endpoints]] :
     cves \in {{}} \cup {{v} : v \in Cves}, replies \in {[r \in ToSet(Roles) |-> NoReply]},
     findings \in {<<>>, <<Found(1, <<2, 2>>, TRUE)>>}, endpoints \in {<<Handler>>}}
  \cup
  {[kind |-> "review", cves |-> {}, replies |-> replies,
    scan |-> [findings |-> findings, observations |-> observed, truncated |-> FALSE,
              endpoints |-> LinkRuntime(observed, <<>>, endpoints).endpoints]] :
     replies \in Answers, endpoints \in {<<>>, <<Handler>>, <<Loader, Handler>>},
     findings \in {<<>>} \cup {<<Found(1, l, p)>> : l \in {<<2, 2>>, <<4, 4>>, <<5, 6>>}, p \in BOOLEAN}
                  \cup {<<Found(1, <<2, 2>>, p), Found(2, <<7, 7>>, FALSE),
                          Found(3, <<6, 6>>, FALSE)>> : p \in BOOLEAN}}

(* ---- replies ------------------------------------------------------------------------ *)

Texts == {[json |-> "object", value |-> "narrative"], [json |-> "object", value |-> "fields missing"],
          [json |-> "duplicate key", value |-> "narrative"]}
Good == [json |-> "object", value |-> "narrative"]
File(is, size, text) == [is |-> is, size |-> size, text |-> text]
TurnEvents == {[is |-> "take", n |-> 1], [is |-> "shut"], [is |-> "write", n |-> 2, text |-> TRUE],
               [is |-> "write", n |-> 1,
                text |-> FALSE], [is |-> "close", stream |-> "out"], [is |-> "close", stream |-> "err"],
               [is |-> "exit", code |-> "0"], [is |-> "exit", code |-> "1"], [is |-> "late"],
               [is |-> "file",
                file |-> File("link", 1, Good)], [is |-> "file", file |-> File("regular", 5, Good)]}
Ordinary == <<[is |-> "take", n |-> 2], [is |-> "write", n |-> 2, text |-> TRUE],
              [is |-> "close", stream |-> "out"],
              [is |-> "close", stream |-> "err"], [is |-> "exit", code |-> "0"]>>
Wrapper(success, stop, result) ==
  [json |-> "object", success |-> success, stop |-> stop, result |-> result]

\* An ordinary run with one turn more, one less, or two in the other order.
Without(k) == [j \in 1..(Len(Ordinary) - 1) |-> Ordinary[IF j < k THEN j ELSE j + 1]]
Swapped(i, j) == [Ordinary EXCEPT ![i] = Ordinary[j], ![j] = Ordinary[i]]
With(k, e) == SubSeq(Ordinary, 1, k) \o <<e>> \o SubSeq(Ordinary, k + 1, Len(Ordinary))
Runs == {Ordinary} \cup {Without(k) :
                         k \in DOMAIN Ordinary} \cup {Swapped(i, j) : i, j \in DOMAIN Ordinary}
          \cup {With(k, e) : k \in 0..Len(Ordinary), e \in TurnEvents}
CommandCases(prompt) ==
  {[kind |-> "command", agent |-> "codex", prompt |-> prompt, events |-> events, file |-> file,
    wrapper |-> Wrapper(TRUE, "none", Good)] :
     events \in Runs, file \in {File(i, s, t) : i \in {"none", "regular", "link"}, s \in {3, 4},
                                t \in Texts}}
  \cup
  {[kind |-> "command", agent |-> "claude", prompt |-> prompt, events |-> events,
    file |-> File("none", 0, Good), wrapper |-> wrapper] :
     events \in Runs,
     wrapper \in {Wrapper(s, stop, t) : s \in BOOLEAN,
                  stop \in {"none", "end_turn", "refusal", "max_turns"},
                                       t \in Texts \cup {[json |-> "no text", value |-> "nothing"]}}}

Message(type, completed, parts, text) ==
  [type |-> type, completed |-> completed, parts |-> parts, text |-> text]
Items == {Message("message", c, p, t) : c \in BOOLEAN,
          p \in {<<"output_text">>, <<"refusal">>, <<"output_text", "output_text">>}, t \in Texts}
           \cup {Message("reasoning", TRUE, <<>>, Good), Message("function_call", TRUE, <<>>, Good)}
Bodies == {[status |-> s, error |-> e, details |-> d, output |-> <<>>] :
             s \in {"completed", "incomplete", "failed"}, e \in BOOLEAN, d \in BOOLEAN}
ServiceCases(first) ==
  {[kind |-> "service",
    request |-> [is |-> is, size |-> size, json |-> json,
                 envelope |-> [body EXCEPT !.output = output]]] :
     is \in {"body", "timeout", "redirect"}, size \in {8, 9}, json \in {"object", "duplicate key"},
     body \in Bodies, output \in {<<first>>}}
  \cup
  {[kind |-> "service", request |-> [is |-> "body", size |-> 8, json |-> "object",
                                     envelope |-> [status |-> "completed", error |-> FALSE, details |-> FALSE, output |-> output]]] :
     output \in {<<first, second>> :
                 second \in Items} \cup {<<second, first>> : second \in Items} \cup {<<>>}}

EvidenceHolds(c) ==
  CASE c.kind = "path" -> CompletePathIsWalk(c) /\ DefenceIsOnTheWay(c)
    [] c.kind = "request" -> ObservedMeansDispatched(c) /\ LinkedMeansReachable(c)
    [] c.kind = "surface" -> SurfaceIsAccounted(c)
    [] c.kind = "overlay" -> OverlaysAddNoPath(c)
    [] c.kind = "place" -> FindingIsPlaced(c)
    [] c.kind = "import" -> ImportIsAnnounced(c)
    [] c.kind = "external" -> ExternalIsAnnounced(c)
    [] c.kind = "review" -> ReviewIsHonest(c)
    [] c.kind = "command" -> CommandReplyIsWhole(c)
    [] OTHER -> ServiceReplyIsWhole(c)
=============================================================================
