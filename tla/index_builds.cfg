\* Three files, two builds, one change of the working copy and one failing build.
CONSTANTS
  NumFiles = 3
  Converted = {2}
  MaxSize = 3
  MaxFileBytes = 2
  MaxIndexBytes = 3
  MaxFiles = 2
  TopK = 2
  MaxChanges = 1
  MaxBuilds = 2
  MaxFaults = 1

SPECIFICATION Spec
INVARIANT IngestionWhole
INVARIANT IndexesAgree
INVARIANT CandidatesCurrent
INVARIANT AgreementWins
