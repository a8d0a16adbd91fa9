\* Two guards, two interchangeable threads and two executions: requests of
\* every kind overlap, a store call raises, the server dies and a file is
\* changed from outside.
CONSTANTS
  w1 = w1
  w2 = w2
  NumGuards = 2
  Workers <- TwoWorkers
  Outcomes <- TwoResults
  MaxRuns = 2
  MaxFaults = 1
  MaxCrashes = 1
  MaxEdits = 1

SYMMETRY ThreadSymmetry
VIEW LiveState

SPECIFICATION Spec
INVARIANT ExecutionsApproved
INVARIANT InstalledMeansApproved
INVARIANT StatusReflectsDecision
INVARIANT StatusIsReported
INVARIANT ApprovalUsable
INVARIANT PreviewsComplete
PROPERTY ImplementsPolicy
