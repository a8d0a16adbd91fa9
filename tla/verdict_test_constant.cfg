\* A number found only in a test file.
CONSTANTS
  t1 = t1
  t2 = t2
  Terms <- OneTerm
  MaxFiles = 1
  MaxCommits = 0

SPECIFICATION GuardedSpec
INVARIANT VerifiedIsImplemented
