\* Two creating threads and a gateway, on two servers with different limits.
CONSTANTS
  w1 = w1
  w2 = w2
  w3 = w3
  pA = pA
  pB = pB
  a1 = a1
  Workers <- ThreeWorkers
  Creators <- TwoWorkers
  Callers <- Gateway
  Projects <- TwoProjects
  Actions <- OneAction
  ServiceLimit <- MixedLimits
  MaxModelCallsPerIncident = 3

SPECIFICATION Spec
INVARIANT CallsCharged
INVARIANT CapHolds
PROPERTY BudgetOnlyTightens
PROPERTY AuditKeepsIncident
