SPECIFICATION AnalysesSpec
CONSTANTS
  Programs <- TwoFunctions
  ContextDepth = 2
  MaxContexts = 6
  MaxIterations = 64
  MaxCalls = 2
  FlowPrograms <- MCFlowPrograms
  TargetJava = 17
  MaxClasses = 50
  MaxTotalSize = 5
  PointsDepth = 2
  PointsContexts = 40
  PointsIterations = 16
  SqlNames = {"x", "y", "z"}
  MaxSteps = 24
  MaxPerFile = 3
  MaxRegex = 2
  Window = 2
  Strong = {"a"}
  CallTexts = {"open"}
  Supported = {"java", "go"}
  MaxOutput = 3
  MaxChain = 3
  Templates = {"{id}", "{dynamic}"}
  Segments = {"api", "load", "x"}
  OutputLimit = 3
  ResponseLimit = 8
  MaxEvidence = 4
  MaxToolCalls = 12
  TracedByTools = 5
  Tolerance = 1
INVARIANTS FlowsAreFound  CallsAreCovered ConstantQueriesAreFixed RulesReportWhatTheyDescribe FixturesProveRules ReviewsClaimNoMore MeasurementsAreHonest
PROPERTY StepsAreEdges
CHECK_DEADLOCK FALSE
