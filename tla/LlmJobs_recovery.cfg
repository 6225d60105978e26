SPECIFICATION FairSpec
CONSTANTS
  Workers = {w1, w2}
  Scans = {s1}
  Projects = {p1}
  ProjectOf <- OneProject
  Users = {alice}
  Configs = {c1}
  None = None
  Plans <- TwoBatches
  MaxBatches = 2
  MaxBatchSize = 2
  MaxJobs = 1
  MaxAttempts = 2
  MaxCalls = 4
  Rounds = 3
  MaxActive = 1
  MaxProjectActive = 1
  MaxSkips = 1
  LeaseTicks = 1
INVARIANT ReviewJobInvariant
PROPERTIES LateWorkIsRefused EveryReviewEnds
