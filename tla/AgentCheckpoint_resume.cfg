SPECIFICATION Spec
CONSTANTS
  TotalBudget = 7
  MaxCalls = 3
  MaxTotalPrompt = 9
  MaxOutput = 9
  p1 = p1
  p2 = p2
  None = None
  Procs <- MCProcs
  Identities = {"api", "command"}
  MeteredIdentities = {"api"}
  Worlds = {"before", "shorter", "changed"}
  Answers = {"x"}
  MaxRecords = 3
  Turns <- MCTurns
  Shown <- MCShown
  Asks <- MCAsks
  Counters = {0, 1}
  StartBound = 4
SYMMETRY Interchangeable
INVARIANTS CheckpointInvariant
PROPERTIES PublishedRunIsHistory LifetimeWithinBudget DurableOnlyGrows
CHECK_DEADLOCK FALSE
