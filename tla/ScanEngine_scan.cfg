SPECIFICATION Spec
CONSTANTS
  Files = {1, 2, 3}
  Contents <- MCContents
  Trees <- MCTrees
  PathKind <- MCPathKind
  Generated = {3}
  Imports <- MCImports
  Modes = {"repository", "file", "workspace", "pr", "snapshot"}
  Rules = {1, 2}
  Threshold = 3
  MinConfidence = 3000
  MaxPerRule = 2
  MaxPerFile = 2
  MaxRelated = 1
  External <- MCExternal
  Assisted = {"pr", "file"}
  VerifyThreshold = 9200
  BatchSize = 2
  Answers <- MCAnswers
  MaxEdits = 1
  MaxScans = 2
  MaxVersion = 2
INVARIANTS CacheIsFaithful AnalysisIsCurrent SnapshotInvariant CompletedHidesNothing
CHECK_DEADLOCK FALSE
