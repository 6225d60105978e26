SPECIFICATION FairSpec
CONSTANTS
  Workers = {w1, w2}
  Projects = {p1}
  Users = {alice}
  Repositories = {r1, r2}
  Commits = {c1, c2}
  Contents = {full, part}
  None = None
  MaxJobs = 1
  MaxAttempts = 3
  MaxSkips = 2
  LeaseTicks = 2
INVARIANTS FencingInvariant JobInvariant
PROPERTIES SourceIsChosenOnce KeepsContract EveryJobEnds
