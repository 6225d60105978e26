--------------------------- MODULE MCVerification ---------------------------
EXTENDS Verification

Allowed == {"python3", "npm"}
TwoCases == <<Case("a", {"s200"}), Case("b", {"s200", "s500"})>>
Service(kind, cases) == ServicePlan(kind, "npm", "localhost", cases, Allowed, {})
ServiceFiles == {Service("proxy", TwoCases), Service("http", TwoCases), Service("browser", TwoCases),
                 ServicePlan("http", "npm", "localhost", TwoCases, Allowed, {RuntimeDirectory})}

Build == Step("build", "npm", <<"a">>)
Test(outputs) == Step("test", "npm", outputs)
CommandFiles == {CommandPlan(<<Build, Test(<<>>)>>, Allowed, TRUE, TRUE, {}),
                 CommandPlan(<<Build, Test(<<"a", "b">>)>>, Allowed, FALSE, TRUE, {"b"}),
                 CommandPlan(<<Test(<<"a">>)>>, Allowed, FALSE, FALSE, {})}

\* PlanFiles that are refused when they are loaded: ids that repeat, a service or
\* a step that is not allowed, a foreign origin, too many cases, no step.
SameIds == <<Case("a", {"s200"}), Case("a", {"s500"})>>
RefusedFiles ==
  {Service("proxy", SameIds), Service("proxy", TwoCases \o <<Case("c", {"s200"})>>),
   Service("http", <<>>),
   ServicePlan("http", "curl", "localhost", TwoCases, Allowed, {}),
   ServicePlan("http", "npm", "example.org", TwoCases, Allowed, {}),
   ServicePlan("http", "npm", "localhost", TwoCases, {"npm"}, {}),
   CommandPlan(<<Build, Build>>, Allowed, FALSE, TRUE, {}),
   CommandPlan(<<Test(<<"a", "a">>)>>, Allowed, TRUE, TRUE, {}),
   CommandPlan(<<>>, Allowed, TRUE, TRUE, {})}

MCPlanFiles == ServiceFiles \cup CommandFiles \cup RefusedFiles
=============================================================================
