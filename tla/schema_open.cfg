\* Two processes that open one file, with two old runs and a crash.
CONSTANTS
  p1 = p1
  p2 = p2
  i1 = i1
  i2 = i2
  r1 = r1
  r2 = r2
  Processes <- TwoProcesses
  Script <- ShortScript
  Counters <- ShortCounters
  GuardTables <- ShortGuards
  Totalled <- ShortTotalled
  Runs <- TwoRuns
  Incidents <- TwoIncidents
  CallCap = 2
  MaxUsed = 2
  MaxCrashes = 1

SPECIFICATION FairSpec
INVARIANT ReadyIsCurrent
PROPERTY ForeignUntouched
PROPERTY CallsCarriedOver
PROPERTY UpgradeCompletes
