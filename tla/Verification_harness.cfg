SPECIFICATION FairVerificationSpec
CONSTANTS
  Statuses = {"s200", "s500"}
  PlanFiles <- MCPlanFiles
  Loopback = {"localhost"}
  MaxProxyCases = 2
  MaxEdits = 1
  MaxWrites = 4
INVARIANTS PassedMeansVerified EvidenceIsFaithful
PROPERTIES VerificationEnds
CHECK_DEADLOCK FALSE
