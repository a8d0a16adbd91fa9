--------------------------- MODULE IncidentBudget ---------------------------
(***************************************************************************)
(* Creating one incident and spending its model-call budget.               *)
(*                                                                         *)
(* Requests that carry the same postmortem text share one stable incident  *)
(* id (services.py:75).  They run in threads of one or of several server   *)
(* processes over one database: IncidentService.create (services.py) and   *)
(* BoundedProviderGateway.generate (audit/budget.py) interleave between    *)
(* their store calls, and each store call is one SQLite transaction.       *)
(*                                                                         *)
(* Audit runs enter only through the references their rows hold on the     *)
(* incident: RegisterRun and PersistInvariants; AuditRun models them.      *)
(***************************************************************************)
EXTENDS Integers, FiniteSets

CONSTANTS Workers,        \* request threads
          Creators,       \* those that may serve POST /incidents
          Callers,        \* those that may call the provider for the run
          Projects,       \* values of project_id in the requests
          ServiceLimit,   \* ServiceLimit[w]: max_model_calls of w's server
          MaxModelCallsPerIncident,  \* 6 in audit/budget.py:20
          Actions         \* corrective actions the provider finds in the text

ASSUME RolesAssumption == Creators \subseteq Workers /\ Callers \subseteq Workers
ASSUME LimitAssumption ==
  /\ MaxModelCallsPerIncident \in Nat \ {0}
  /\ ServiceLimit \in [Workers -> 1..MaxModelCallsPerIncident]

NoOwner == "NO INCIDENT"
ASSUME OwnerAssumption == NoOwner \notin Projects

VARIABLES
  owner,    \* incidents.project_id, NoOwner before the row exists
  actions,  \* the corrective_actions rows of the incident
  used,     \* incident_budget_counters: model_calls_used, 0 without a row
  limit,    \* ... model_calls_limit; without a row the cap, which is neutral
            \* in the minimum the next reservation takes (storage.py:391-395)
  audited,  \* an audit_runs row references (incident, project)
  pinned,   \* actions that rows of that run reference
  pc,       \* pc[w]: next step of the request w serves
  req,      \* req[w]: the project_id of that request
  slot,     \* slot[w]: model_calls_used after w's reservation
  snap,     \* snap[w]: what the gateway loaded of the run
  called,   \* history: the slots with which the provider was called
  calls     \* history: calls of the provider

incidentRows == <<owner, actions>>
counter == <<used, limit>>
runRows == <<audited, pinned>>
threads == <<pc, req, slot, snap>>
history == <<called, calls>>
vars == <<incidentRows, counter, runRows, threads, history>>

Creating == {"lookup", "base", "reserve", "extract", "save"}
Calling == {"load", "charge", "record", "call"}
Slots == 1..MaxModelCallsPerIncident

Least(S) == CHOOSE n \in S : \A m \in S : n <= m

TypeOK ==
  /\ owner \in Projects \cup {NoOwner}
  /\ actions \subseteq Actions
  /\ used \in 0..MaxModelCallsPerIncident
  /\ limit \in Slots
  /\ audited \in BOOLEAN
  /\ pinned \subseteq Actions
  /\ pc \in [Workers -> {"idle"} \cup Creating \cup Calling]
  /\ req \in [Workers -> Projects]
  /\ slot \in [Workers -> 0..MaxModelCallsPerIncident]
  /\ snap \in [Workers -> [actions : SUBSET Actions, pinned : SUBSET Actions,
                           limit : Slots]]
  /\ called \subseteq 0..MaxModelCallsPerIncident
  /\ calls \in Nat

Init ==
  /\ owner = NoOwner /\ actions = {}
  /\ used = 0 /\ limit = MaxModelCallsPerIncident
  /\ audited = FALSE /\ pinned = {}
  /\ pc = [w \in Workers |-> "idle"]
  /\ req \in [Workers -> Projects]
  /\ slot = [w \in Workers |-> 0]
  /\ snap = [w \in Workers |->
               [actions |-> {}, pinned |-> {}, limit |-> MaxModelCallsPerIncident]]
  /\ called = {} /\ calls = 0

Goto(w, to) == pc' = [pc EXCEPT ![w] = to]

-----------------------------------------------------------------------------
(* Mutant of CanSave: no row of an audit is looked at. *)
AlwaysSave(project, items) == TRUE

(* SQLiteStore.save_incident: the row is inserted or overwritten, absent   *)
(* actions are deleted and the given ones upserted, in one transaction.    *)
(* Rows of an audit that reference the owner or an absent action make it   *)
(* fail and change nothing.                                                *)
CanSave(project, items) == /\ audited => project = owner
                           /\ pinned \subseteq items

SaveIncident(project, items) == owner' = project /\ actions' = items

(* Mutant of Effective: the limit of earlier reservations is forgotten. *)
LatestLimit(serviceLimit) == Least({serviceLimit, MaxModelCallsPerIncident})

(* SQLiteStore.reserve_incident_model_call, the transaction that succeeds. *)
Effective(serviceLimit) == Least({limit, serviceLimit, MaxModelCallsPerIncident})

(* Mutant of Charge: only the cap is checked. *)
ChargeUpToCap(w, serviceLimit) ==
  /\ used < MaxModelCallsPerIncident
  /\ used' = used + 1
  /\ limit' = Effective(serviceLimit)
  /\ slot' = [slot EXCEPT ![w] = used + 1]

Charge(w, serviceLimit) ==
  /\ used < Effective(serviceLimit)
  /\ used' = used + 1
  /\ limit' = Effective(serviceLimit)
  /\ slot' = [slot EXCEPT ![w] = used + 1]

(* The provider is invoked; it counts as called whether it answers or fails. *)
Invoke(w) == /\ called' = called \cup {slot[w]}
             /\ calls' = calls + 1

(* The request ends with an error: BudgetExceeded (429), StorageBusyError  *)
(* (503), an ownership or integrity error.                                 *)
Refuse(w) == /\ Goto(w, "idle")
             /\ UNCHANGED <<incidentRows, counter, runRows, req, slot, snap, history>>

-----------------------------------------------------------------------------
(* IncidentService.create *)

RequestIncident(w, project) ==
  /\ w \in Creators
  /\ pc[w] = "idle"
  /\ Goto(w, "lookup")
  /\ req' = [req EXCEPT ![w] = project]
  /\ UNCHANGED <<incidentRows, counter, runRows, slot, snap, history>>

(* The incident is looked up once; another project's incident is a 422. *)
LookupIncident(w) ==
  /\ pc[w] = "lookup"
  /\ \/ /\ owner = NoOwner
        /\ Goto(w, "base")
     \/ /\ owner = req[w]
        /\ Goto(w, "reserve")
     \/ /\ owner \notin {NoOwner, req[w]}
        /\ Goto(w, "idle")
  /\ UNCHANGED <<incidentRows, counter, runRows, req, slot, snap, history>>

(* A new incident is saved without actions before anything is charged. *)
SaveBase(w) ==
  /\ pc[w] = "base"
  /\ IF CanSave(req[w], {})
     THEN /\ SaveIncident(req[w], {})
          /\ Goto(w, "reserve")
          /\ UNCHANGED <<counter, runRows, req, slot, snap, history>>
     ELSE Refuse(w)

Reserve(w) ==
  /\ pc[w] = "reserve"
  /\ \/ /\ Charge(w, ServiceLimit[w])
        /\ Goto(w, "extract")
        /\ UNCHANGED <<incidentRows, runRows, req, snap, history>>
     \/ Refuse(w)    \* budget exhausted, or the database stayed locked

(* Mutant of Extract: a failed call is retried on the same reservation. *)
ExtractAndRetry(w) ==
  /\ pc[w] = "extract"
  /\ Invoke(w)
  /\ \E to \in {"save", "extract"} : Goto(w, to)
  /\ UNCHANGED <<incidentRows, counter, runRows, req, slot, snap>>

(* provider.generate finds the actions of the text, or raises. *)
Extract(w) ==
  /\ pc[w] = "extract"
  /\ Invoke(w)
  /\ \E to \in {"save", "idle"} : Goto(w, to)
  /\ UNCHANGED <<incidentRows, counter, runRows, req, slot, snap>>

SaveActions(w) ==
  /\ pc[w] = "save"
  /\ IF CanSave(req[w], Actions)
     THEN /\ SaveIncident(req[w], Actions)
          /\ Goto(w, "idle")
          /\ UNCHANGED <<counter, runRows, req, slot, snap, history>>
     ELSE Refuse(w)

-----------------------------------------------------------------------------
(* BoundedProviderGateway.generate, for the incident's audit run.  Only the *)
(* tests construct the gateway; it spends the same counter.                 *)

RequestCall(w) ==
  /\ w \in Callers
  /\ audited
  /\ pc[w] = "idle"
  /\ Goto(w, "load")
  /\ UNCHANGED <<incidentRows, counter, runRows, req, slot, snap, history>>

(* load_audit_state: the snapshot, with the incident's own limit in place *)
(* of the run's.                                                          *)
LoadRun(w) ==
  /\ pc[w] = "load"
  /\ Goto(w, "charge")
  /\ snap' = [snap EXCEPT ![w] = [actions |-> actions, pinned |-> pinned,
                                   limit |-> limit]]
  /\ UNCHANGED <<incidentRows, counter, runRows, req, slot, history>>

ChargeRun(w) ==
  /\ pc[w] = "charge"
  /\ \/ /\ Charge(w, snap[w].limit)
        /\ Goto(w, "record")
        /\ UNCHANGED <<incidentRows, runRows, req, snap, history>>
     \/ Refuse(w)

(* save_audit_state replaces the stored run by the loaded snapshot (and an *)
(* event), if the incident still has the actions that were loaded.         *)
RecordCharge(w) ==
  /\ pc[w] = "record"
  /\ IF snap[w].actions = actions
     THEN /\ pinned' = snap[w].pinned
          /\ Goto(w, "call")
          /\ UNCHANGED <<incidentRows, counter, audited, req, slot, snap, history>>
     ELSE Refuse(w)

CallProvider(w) ==
  /\ pc[w] = "call"
  /\ Invoke(w)
  /\ Goto(w, "idle")
  /\ UNCHANGED <<incidentRows, counter, runRows, req, slot, snap>>

-----------------------------------------------------------------------------
(* An audit run stores its row (save_audit_state of the initial state) ... *)
RegisterRun ==
  /\ owner # NoOwner /\ ~audited
  /\ audited' = TRUE
  /\ UNCHANGED <<incidentRows, counter, pinned, threads, history>>

(* ... and later its invariants, which reference the incident's actions. *)
PersistInvariants ==
  /\ audited /\ pinned # actions
  /\ pinned' = actions
  /\ UNCHANGED <<incidentRows, counter, audited, threads, history>>

(* A server dies and restarts: its requests are lost, the database stays. *)
Crash ==
  /\ \E w \in Workers : pc[w] # "idle"
  /\ pc' = [w \in Workers |-> "idle"]
  /\ UNCHANGED <<incidentRows, counter, runRows, req, slot, snap, history>>

Create(w) == \/ \E project \in Projects : RequestIncident(w, project)
             \/ LookupIncident(w) \/ SaveBase(w) \/ Reserve(w)
             \/ Extract(w) \/ SaveActions(w)

Generate(w) == RequestCall(w) \/ LoadRun(w) \/ ChargeRun(w) \/ RecordCharge(w) \/ CallProvider(w)

Next == \/ \E w \in Workers : Create(w) \/ Generate(w)
        \/ RegisterRun \/ PersistInvariants
        \/ Crash

Spec == Init /\ [][Next]_vars

-----------------------------------------------------------------------------
(* Properties *)

(* The provider is never called without a charge of its own: every call    *)
(* used a slot nobody else used, however many threads and processes compete *)
(* for the last slot, fail or crash (ADR-016: "so separate connections and  *)
(* workers cannot both consume the same final slot").                       *)
CallsCharged == calls = Cardinality(called) /\ called \subseteq 1..used

(* "... an absolute cap of six" for extraction and gateways together, and  *)
(* never more than the strictest limit the incident was charged under.     *)
CapHolds == calls <= limit /\ used <= limit /\ limit <= MaxModelCallsPerIncident

(* Nothing gives calls back: neither a resubmission, nor a server with a   *)
(* higher setting, nor the gateway's copy of the budget.                   *)
BudgetOnlyTightens == [][used' >= used /\ limit' <= limit]_vars

(* An audit keeps its ground: while rows of a run reference the incident,  *)
(* no request re-owns it or deletes an action the run speaks about.        *)
AuditKeepsIncident == [][audited => owner' = owner /\ pinned \subseteq actions']_vars
============================================================================
