SPECIFICATION Spec
CONSTANTS
  Branches = {main, dev}
  Keys = {k1}
  Users = {alice}
  Requests = {q1, q2}
  Statuses = {"open", "fixed", "false_positive"}
  None = None
  MaxScans = 2
  MaxRevision = 2
  MaxIssues = 2
  MaxMoves = 1
SYMMETRY Symmetry
PROPERTIES NoEditIsLost TicketIsKept
