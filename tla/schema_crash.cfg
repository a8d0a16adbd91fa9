\* One process that crashes once.
CONSTANTS
  p1 = p1
  p2 = p2
  i1 = i1
  i2 = i2
  r1 = r1
  r2 = r2
  Processes <- OneProcess
  Script <- ShortScript
  Counters <- ShortCounters
  GuardTables <- ShortGuards
  Totalled <- ShortTotalled
  Runs <- OneRun
  Incidents <- OneIncident
  CallCap = 2
  MaxUsed = 1
  MaxCrashes = 1

SPECIFICATION Spec
INVARIANT MigratesForward
