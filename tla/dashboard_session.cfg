\* One run of one guard, audited again and again, two late requests, a lost
\* body and two failing writes.
CONSTANTS
  NumGuards = 1
  MaxRuns = 1
  Outcomes <- OneResult
  MaxLate = 2
  MaxCuts = 1
  MaxFaults = 2

SPECIFICATION FairSpec
INVARIANT ScreenIsOneRun
INVARIANT ShownDecisionStands
INVARIANT StaleOnlyAfterFailure
PROPERTY ActionSettles
