\* A run of an incident with three actions, two with a supported check, and a request that reads it.
CONSTANTS
  r1 = r1
  a1 = a1
  a2 = a2
  a3 = a3
  incident = incident
  Runs <- OneRun
  Actions <- ThreeActions
  Supported <- TwoActions
  Incident <- incident
  MaxModelCalls = 2
  Charged <- AroundLimit
  MaxSaves = 1
  MaxFaults = 1
  MaxCrashes = 1

SPECIFICATION FairReaderSpec
INVARIANT AnswerStored
INVARIANT SafeFailure
INVARIANT RowsKeepActions
INVARIANT RoundsReserved
INVARIANT CompleteIsWhole
INVARIANT TotalsAgree
INVARIANT ReadsStand
PROPERTY TerminalFinal
PROPERTY ImplementsPolicy
PROPERTY AuditSettles
