--------------------------- MODULE MCStoreSchema ---------------------------
(* Instances of StoreSchema for TLC. *)
EXTENDS StoreSchema

CONSTANTS p1, p2, i1, i2, r1, r2

OneProcess == {p1}
TwoProcesses == {p1, p2}
OneRun == {r1}
TwoRuns == {r1, r2}
OneIncident == {i1}
TwoIncidents == {i1, i2}

(* One table of each kind, in the order of the script, and a second guard table. *)
ShortScript == <<"incidents", "incident_budget_counters", "audit_runs",
                 "guard_specs", "guard_approvals">>
ShortCounters == "incident_budget_counters"
ShortTotalled == {"audit_runs"}
ShortGuards == {"guard_specs", "guard_approvals"}
============================================================================
