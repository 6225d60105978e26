SPECIFICATION Spec
CONSTANTS
  Workers = {w1}
  Projects = {p1}
  Users = {alice}
  Repositories = {r1, r2}
  Commits = {c1}
  Contents = {full}
  None = None
  MaxJobs = 2
  MaxAttempts = 1
  MaxSkips = 1
  LeaseTicks = 1
INVARIANTS RetryStaysInRepository
