SPECIFICATION Spec
CONSTANTS
  Runs = {r1, r2}
  Plans = {p1, p2}
  Workspaces = {w1, w2}
  NoSnapshot = NoSnapshot
SYMMETRY Interchangeable
INVARIANT RunInvariant
PROPERTY ClosedIsFinal
