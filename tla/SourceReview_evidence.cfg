SPECIFICATION Spec
CONSTANTS
  Files = {1, 2}
  Text <- MCText
  Scans <- MCScans
  Findings <- MCFindings
  Roles <- MCRoles
  Requests <- MCRequests
  Batches <- MCBatches
  Invented <- MCInvented
  MaxSourceFiles = 2
  MaxFileSize = 4
  MaxTotalSize = 6
  MaxReadLines = 2
  MaxReadSize = 3
  MaxSearchFiles = 1
  MaxSearchSize = 4
  MaxMatches = 1
  MaxOutput = 3
  MaxRounds = 3
  MaxToolCalls = 4
  MaxEvidence = 7
  MaxPrompt = 6
  MaxEdits = 1
INVARIANTS ReviewInvariant CitationsAreGrounded CompleteReviewsCover SearchMissesNothing
