\* Overlapping previews reset a decided guard.
CONSTANTS
  w1 = w1
  w2 = w2
  NumGuards = 1
  Workers <- TwoWorkers
  Outcomes <- OneResult
  MaxRuns = 1
  MaxFaults = 0
  MaxCrashes = 0
  MaxEdits = 0

SPECIFICATION Spec
INVARIANT DecidedNotPreviewed
