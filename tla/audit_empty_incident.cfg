\* The incident is audited before its actions are stored.
CONSTANTS
  r1 = r1
  a1 = a1
  a2 = a2
  a3 = a3
  incident = incident
  Runs <- OneRun
  Actions <- OneAction
  Supported <- OneAction
  Incident <- incident
  MaxModelCalls = 2
  Charged <- WithinLimit
  MaxSaves = 1
  MaxFaults = 0
  MaxCrashes = 0

SPECIFICATION ReaderSpec
INVARIANT GraphMatchesIncident
