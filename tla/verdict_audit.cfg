\* Every repository of at most two files, which may change once during the audit.
CONSTANTS
  t1 = t1
  t2 = t2
  Terms <- TwoTerms
  MaxFiles = 2
  MaxCommits = 1

SPECIFICATION GuardedSpec
INVARIANT GuardTypeOK
INVARIANT VerdictStandsOnFiles
INVARIANT AssessmentMonotone
INVARIANT GuardAddressesGap
