SPECIFICATION Spec
CONSTANTS
  Runs = {r1}
  Plans = {p1, p2}
  Workspaces = {w1}
  NoSnapshot = NoSnapshot
INVARIANT OpenRunIsWaiting
