SPECIFICATION Spec
CONSTANTS
  Branches = {main, dev}
  Keys = {k1}
  Users = {alice}
  Requests = {}
  Statuses = {"open", "fixed", "false_positive", "accepted_risk"}
  None = None
  MaxScans = 3
  MaxRevision = 2
  MaxIssues = 0
  MaxMoves = 0
INVARIANTS RowInvariant
PROPERTIES CurrentNeverGoesBack AbsenceIsMeasured TriageSurvivesRescans
