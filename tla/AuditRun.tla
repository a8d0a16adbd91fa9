------------------------------ MODULE AuditRun ------------------------------
(***************************************************************************)
(* Audit runs of one incident: AuditService.start (services.py) and        *)
(* AuditWorkflow (audit/workflow.py) over SQLiteStore's complete snapshots *)
(* (storage.py).                                                           *)
(*                                                                         *)
(* A run is executed inside the request that starts it.  Its stages end    *)
(* with save_audit_state, which validates the snapshot against the         *)
(* incident as it is then and replaces the stored one in a transaction, so *)
(* after a save the state in memory and the stored row agree and `row`     *)
(* stands for both; `known` and `found` are what memory holds beyond it.   *)
(* Resubmissions of the postmortem change the incident between the steps.  *)
(*                                                                         *)
(* The compiler makes one invariant per action (compiler.py:60-134), so an *)
(* invariant is named by its action.                                       *)
(***************************************************************************)
EXTENDS Integers, FiniteSets, EvidenceGraph

CONSTANTS Runs,            \* run ids, one request thread each
          Actions,         \* corrective actions of the postmortem
          Supported,       \* those whose invariant has a supported check
          Incident,        \* the incident's own node in the evidence graph
          MaxModelCalls,   \* settings.max_model_calls of this server
          Charged,         \* values of the incident's counter at the start
          MaxSaves,        \* bound: resubmissions that change the incident
          MaxFaults,       \* bound: errors of the database or the repository
          MaxCrashes       \* bound: server crashes

ASSUME ActionsAssumption == /\ IsFiniteSet(Actions)
                            /\ Supported \subseteq Actions
                            /\ Incident \notin Actions
ASSUME CallsAssumption == MaxModelCalls \in Nat \ {0} /\ Charged \subseteq Nat
ASSUME BoundsAssumption == MaxSaves \in Nat /\ MaxFaults \in Nat /\ MaxCrashes \in Nat

VARIABLES
  actions,  \* the incident's corrective_actions rows
  charged,  \* model_calls_used of the incident
  row,      \* row[r]: the stored snapshot of r, NoRow before the first save
  pc,       \* pc[r]: the next step of r
  known,    \* known[r]: AuditWorkflowState.actions in memory
  found,    \* found[r]: invariants whose candidates were retrieved
  answer,   \* answer[r]: what the request returned
  saves, faults, crashes  \* how often the environment acted

run == <<row, pc, known, found, answer>>
environment == <<actions, charged, saves, faults, crashes>>
vars == <<run, environment>>

Stage == {"QUEUED", "PARSING", "COMPILING_INVARIANTS", "INDEXING",
          "INVESTIGATING", "VERIFYING"}
Terminal == {"COMPLETE", "FAILED"}

Owned(ids) == [id : ids, action : Actions]
Evidence == [id : Actions \X {"candidate", "check"}, invariant : Actions,
             kind : {"CODE"}, role : {"SUPPORTING_ONLY", "SUPPORTING", "UNAVAILABLE"}]

(* The records a graph was built from.  A graph is valid for one set of them *)
(* (GraphDeterminesRecords of AuditRun_proofs), so they stand for it.        *)
Audit == [incident : {Incident}, actions : SUBSET Actions,
          invariants : SUBSET Owned(Actions), verdicts : SUBSET Owned(Actions),
          evidence : SUBSET Evidence, checks : SUBSET [id : Actions, invariant : Actions]]
NoRecords == [incident |-> "NO GRAPH"]

Snapshot == [status : Stage \cup Terminal, total : Nat, invariants : SUBSET Actions,
             rounds : SUBSET Actions, candidates : SUBSET Actions,
             results : SUBSET Actions, verdicts : SUBSET Actions,
             graph : Audit \cup {NoRecords}]

NoRow == [status |-> "NO ROW"]

(* Mutant of Initial: actions are counted when verdicts are assigned. *)
InitialUncounted(acts) == [status |-> "QUEUED", total |-> 0,
                           invariants |-> {}, rounds |-> {}, candidates |-> {},
                           results |-> {}, verdicts |-> {}, graph |-> NoRecords]

(* The summary and state that run() builds before its first save. *)
Initial(acts) == [status |-> "QUEUED", total |-> Cardinality(acts),
                  invariants |-> {}, rounds |-> {}, candidates |-> {},
                  results |-> {}, verdicts |-> {}, graph |-> NoRecords]

Steps == {"idle", "begin", "load", "parsed", "compile", "index", "reserve", "search",
          "investigate", "verify", "graph", "complete",
          "reload", "validate", "fail", "done"}

TypeOK ==
  /\ actions \subseteq Actions
  /\ charged \in Charged
  /\ row \in [Runs -> Snapshot \cup {NoRow}]
  /\ pc \in [Runs -> Steps]
  /\ known \in [Runs -> SUBSET Actions]
  /\ found \in [Runs -> SUBSET Actions]
  /\ answer \in [Runs -> {"none", "error"} \cup Terminal]
  /\ saves \in 0..MaxSaves /\ faults \in 0..MaxFaults /\ crashes \in 0..MaxCrashes
  /\ \A r \in Runs : pc[r] \notin {"idle", "begin", "reload", "validate", "fail", "done"}
                       => row[r] \in Snapshot

(* The incident exists; extraction may not have stored its actions yet. *)
Init ==
  /\ actions \in {{}, Actions}
  /\ charged \in Charged
  /\ row = [r \in Runs |-> NoRow]
  /\ pc = [r \in Runs |-> "idle"]
  /\ known = [r \in Runs |-> {}]
  /\ found = [r \in Runs |-> {}]
  /\ answer = [r \in Runs |-> "none"]
  /\ saves = 0 /\ faults = 0 /\ crashes = 0

-----------------------------------------------------------------------------
(* Rows of a run reference actions; deleting one of them fails. *)
Pinned == UNION {row[r].invariants : r \in {q \in Runs : row[q] # NoRow}}

(* The records of snapshot s: a candidate is evidence for its invariant, a  *)
(* check leaves a result and its evidence, a gap if it is not supported.    *)
Candidates(s) == {[id |-> <<a, "candidate">>, invariant |-> a,
                   kind |-> "CODE", role |-> "SUPPORTING_ONLY"] : a \in s.candidates}
Checked(s) == {[id |-> <<a, "check">>, invariant |-> a, kind |-> "CODE",
                role |-> IF a \in Supported THEN "SUPPORTING" ELSE "UNAVAILABLE"] : a \in s.results}

RecordsOf(s, acts) ==
  [incident |-> Incident, actions |-> acts,
   invariants |-> {[id |-> a, action |-> a] : a \in s.invariants},
   evidence |-> Candidates(s) \cup Checked(s),
   checks |-> {[id |-> a, invariant |-> a] : a \in s.results},
   verdicts |-> {[id |-> a, action |-> a] : a \in s.verdicts}]

(* Mutant of Valid: a graph is required of every terminal run. *)
ValidWithGraph(s, acts) ==
  /\ acts = actions
  /\ s.invariants \cup s.verdicts \subseteq acts
  /\ IF s.graph # NoRecords THEN Validate(Build(s.graph), RecordsOf(s, acts)) ELSE s.status \notin Terminal

(* SQLiteStore._validate_audit_state for snapshot s and actions acts in *)
(* memory, against the incident as it is stored now.                    *)
Valid(s, acts) ==
  /\ acts = actions
  /\ s.rounds \subseteq s.invariants
  /\ WellOwned(RecordsOf(s, acts))
  /\ IF s.graph # NoRecords
     THEN Validate(Build(s.graph), RecordsOf(s, acts))
     ELSE s.status = "COMPLETE" => acts = {}

Goto(r, to) == pc' = [pc EXCEPT ![r] = to]

(* An exception in run()'s try block enters its handler. *)
Raise(r) == /\ Goto(r, "reload")
            /\ UNCHANGED <<row, known, found, answer>>

(* The database is locked or the disk fails. *)
Fault(r) == /\ faults < MaxFaults
            /\ faults' = faults + 1
            /\ Raise(r)
            /\ UNCHANGED <<actions, charged, saves, crashes>>

(* save_audit_state(s), then step `next`. *)
SaveAuditState(r, s, next) ==
  \/ /\ IF Valid(s, known[r])
        THEN /\ row' = [row EXCEPT ![r] = s]
             /\ Goto(r, next)
             /\ UNCHANGED <<known, found, answer>>
        ELSE Raise(r)
     /\ UNCHANGED environment
  \/ Fault(r)

-----------------------------------------------------------------------------
(* AuditService.start reads the incident and run() its budget.  A budget   *)
(* charged beyond what this server allows fails BudgetUsage's validation   *)
(* before the try block: the request ends with an error and leaves no row. *)
Start(r) ==
  /\ pc[r] = "idle"
  /\ known' = [known EXCEPT ![r] = actions]
  /\ IF charged > MaxModelCalls
     THEN /\ Goto(r, "done")
          /\ answer' = [answer EXCEPT ![r] = "error"]
     ELSE /\ Goto(r, "begin")
          /\ UNCHANGED answer
  /\ UNCHANGED <<row, found, environment>>

SaveInitial(r) ==
  /\ pc[r] = "begin"
  /\ SaveAuditState(r, Initial(known[r]), "load")

(* _load_incident_actions: the incident is read again ... *)
ReadActions(r) ==
  /\ pc[r] = "load"
  /\ known' = [known EXCEPT ![r] = actions]
  /\ Goto(r, "parsed")
  /\ UNCHANGED <<row, found, answer, environment>>

(* ... and the stage saved; total_actions keeps its value. *)
SaveParsed(r) ==
  /\ pc[r] = "parsed"
  /\ SaveAuditState(r, [row[r] EXCEPT !.status = "PARSING"], "compile")

CompileInvariants(r) ==
  /\ pc[r] = "compile"
  /\ SaveAuditState(r, [row[r] EXCEPT !.status = "COMPILING_INVARIANTS",
                                      !.invariants = known[r]], "index")

(* _retrieve_candidates: the index is built and its metadata saved ... *)
BuildIndex(r) ==
  /\ pc[r] = "index"
  /\ \/ /\ Goto(r, "reserve")
        /\ UNCHANGED <<row, known, found, answer>>
     \/ Raise(r)    \* the repository is gone or outside the workspace
  /\ UNCHANGED environment

Unsearched(r) == (row[r].invariants \cap Supported) \ found[r]

(* ... a round is charged and saved before its retrieval begins, with the *)
(* candidates retrieved so far ...                                        *)
ReserveRound(r) ==
  /\ pc[r] = "reserve"
  /\ \E a \in Unsearched(r) :
       SaveAuditState(r, [row[r] EXCEPT !.status = "INDEXING",
                                        !.rounds = @ \cup {a},
                                        !.candidates = found[r]], "search")

(* Mutant of Search: one reservation serves every supported invariant. *)
SearchAll(r) ==
  /\ pc[r] = "search"
  /\ found' = [found EXCEPT ![r] = row[r].invariants \cap Supported]
  /\ Goto(r, "reserve")
  /\ UNCHANGED <<row, known, answer, environment>>

(* ... the retriever searches for the invariant of that round ... *)
Search(r) ==
  /\ pc[r] = "search"
  /\ \/ /\ found' = [found EXCEPT ![r] = row[r].rounds]
        /\ Goto(r, "reserve")
        /\ UNCHANGED <<row, known, answer>>
     \/ Raise(r)
  /\ UNCHANGED environment

(* Mutant of SaveIndexed: the loop may stop early. *)
SaveIndexedEarly(r) ==
  /\ pc[r] = "reserve"
  /\ SaveAuditState(r, [row[r] EXCEPT !.status = "INDEXING",
                                      !.candidates = found[r]], "investigate")

(* ... and the stage is saved when no supported invariant is left. *)
SaveIndexed(r) ==
  /\ pc[r] = "reserve"
  /\ Unsearched(r) = {}
  /\ SaveAuditState(r, [row[r] EXCEPT !.status = "INDEXING",
                                      !.candidates = found[r]], "investigate")

(* Mutant of InvestigateChecks: a repository that cannot be opened is *)
(* indexed once more.                                                 *)
InvestigateOrRebuild(r) ==
  /\ pc[r] = "investigate"
  /\ \/ SaveAuditState(r, [row[r] EXCEPT !.status = "INVESTIGATING",
                                         !.results = row[r].invariants], "verify")
     \/ /\ Goto(r, "compile")
        /\ UNCHANGED <<row, known, found, answer, environment>>

(* _investigate_checks: every check runs, or the repository cannot be opened. *)
InvestigateChecks(r) ==
  /\ pc[r] = "investigate"
  /\ \/ SaveAuditState(r, [row[r] EXCEPT !.status = "INVESTIGATING",
                                         !.results = row[r].invariants], "verify")
     \/ Raise(r) /\ UNCHANGED environment

AssignVerdicts(r) ==
  /\ pc[r] = "verify"
  /\ SaveAuditState(r, [row[r] EXCEPT !.status = "VERIFYING",
                                      !.verdicts = known[r]], "graph")

BuildEvidenceGraph(r) ==
  /\ pc[r] = "graph"
  /\ SaveAuditState(r, [row[r] EXCEPT !.graph = RecordsOf(row[r], known[r])], "complete")

(* Mutant of PersistCompletion: an error after the save enters the handler. *)
CompleteThenRaise(r) ==
  /\ pc[r] = "complete"
  /\ row' = [row EXCEPT ![r].status = "COMPLETE"]
  /\ Goto(r, "reload")
  /\ UNCHANGED <<known, found, answer, environment>>

(* _persist_completion; invoke returns and run() answers. *)
PersistCompletion(r) ==
  /\ pc[r] = "complete"
  /\ LET s == [row[r] EXCEPT !.status = "COMPLETE"] IN
     \/ /\ Valid(s, known[r])
        /\ row' = [row EXCEPT ![r] = s]
        /\ answer' = [answer EXCEPT ![r] = "COMPLETE"]
        /\ Goto(r, "done")
        /\ UNCHANGED <<known, found, environment>>
     \/ /\ ~ Valid(s, known[r])
        /\ Raise(r)
        /\ UNCHANGED environment
     \/ Fault(r)

-----------------------------------------------------------------------------
(* The exception handler of run().  An exception it raises escapes. *)
Escape(r) == /\ Goto(r, "done")
             /\ answer' = [answer EXCEPT ![r] = "error"]
             /\ UNCHANGED <<row, known, found>>

(* load_audit_state: without a row the initial state is used; otherwise the *)
(* state gets the actions that the incident has now ...                     *)
Reload(r) ==
  /\ pc[r] = "reload"
  /\ IF row[r] = NoRow
     THEN Goto(r, "fail") /\ UNCHANGED known
     ELSE Goto(r, "validate") /\ known' = [known EXCEPT ![r] = actions]
  /\ UNCHANGED <<row, found, answer, environment>>

(* Mutant of ValidateReloaded: an invalid state is loaded again. *)
ReloadUntilValid(r) ==
  /\ pc[r] = "validate"
  /\ Goto(r, IF Valid(row[r], known[r]) THEN "fail" ELSE "reload")
  /\ UNCHANGED <<row, known, found, answer, environment>>

(* ... and is validated like one to be saved. *)
ValidateReloaded(r) ==
  /\ pc[r] = "validate"
  /\ IF Valid(row[r], known[r])
     THEN Goto(r, "fail") /\ UNCHANGED <<row, known, found, answer>>
     ELSE Escape(r)
  /\ UNCHANGED environment

(* Mutant of SaveFailed: the answer does not wait for the save. *)
AnswerFailed(r) ==
  /\ pc[r] = "fail"
  /\ faults < MaxFaults
  /\ faults' = faults + 1
  /\ answer' = [answer EXCEPT ![r] = "FAILED"]
  /\ Goto(r, "done")
  /\ UNCHANGED <<row, known, found, actions, charged, saves, crashes>>

SaveFailed(r) ==
  /\ pc[r] = "fail"
  /\ LET current == IF row[r] = NoRow THEN Initial(known[r]) ELSE row[r]
         s == [current EXCEPT !.status = "FAILED"]
     IN  \/ /\ Valid(s, known[r])
            /\ row' = [row EXCEPT ![r] = s]
            /\ answer' = [answer EXCEPT ![r] = "FAILED"]
            /\ Goto(r, "done")
            /\ UNCHANGED <<known, found, environment>>
         \/ /\ ~ Valid(s, known[r])
            /\ Escape(r)
            /\ UNCHANGED environment
         \/ /\ faults < MaxFaults
            /\ faults' = faults + 1
            /\ Escape(r)
            /\ UNCHANGED <<actions, charged, saves, crashes>>

-----------------------------------------------------------------------------
(* Mutant of SaveIncident: referenced actions are deleted like any other. *)
SaveAnyIncident ==
  /\ saves < MaxSaves
  /\ saves' = saves + 1
  /\ actions' \in {{}, Actions} \ {actions}
  /\ UNCHANGED <<run, charged, faults, crashes>>

(* IncidentService.create for the same text: the base save of a request    *)
(* that found no incident empties the actions, a successful one stores     *)
(* them (IncidentBudget models these requests).                            *)
SaveIncident ==
  /\ saves < MaxSaves
  /\ saves' = saves + 1
  /\ \E acts \in {{}, Actions} \ {actions} : Pinned \subseteq acts /\ actions' = acts
  /\ UNCHANGED <<run, charged, faults, crashes>>

(* The server dies: requests are lost, nothing resumes their runs. *)
Crash ==
  /\ crashes < MaxCrashes
  /\ crashes' = crashes + 1
  /\ pc' = [r \in Runs |-> IF pc[r] = "idle" THEN "idle" ELSE "done"]
  /\ UNCHANGED <<row, known, found, answer, actions, charged, saves, faults>>

Continue(r) ==
  \/ SaveInitial(r) \/ ReadActions(r) \/ SaveParsed(r) \/ CompileInvariants(r)
  \/ BuildIndex(r) \/ ReserveRound(r) \/ Search(r) \/ SaveIndexed(r)
  \/ InvestigateChecks(r) \/ AssignVerdicts(r) \/ BuildEvidenceGraph(r)
  \/ PersistCompletion(r)
  \/ Reload(r) \/ ValidateReloaded(r) \/ SaveFailed(r)

(* Every run has been answered or lost; the server goes on reading. *)
Quiet == (\A r \in Runs : pc[r] = "done") /\ UNCHANGED vars

Next == \/ \E r \in Runs : Start(r) \/ Continue(r)
        \/ SaveIncident
        \/ Crash
        \/ Quiet

Spec == Init /\ [][Next]_vars

(* A request thread runs until it answers. *)
FairSpec == Spec /\ \A r \in Runs : WF_vars(Continue(r))

-----------------------------------------------------------------------------
(* Properties *)

Stored == {r \in Runs : row[r] # NoRow}

(* Candidates are retrieved for an invariant only after its round is in the *)
(* stored budget, so a crash cannot give the round back (ADR-016: "Reserve  *)
(* and persist ... before").                                                *)
RoundsReserved == \A r \in Runs : found[r] = {} \/ found[r] \subseteq row[r].rounds

(* A run is COMPLETE only with a result and a verdict for each invariant,   *)
(* one charged round and its candidates for each supported one, and a graph *)
(* over all of them, whatever failed, was reloaded or changed in between.   *)
CompleteIsWhole ==
  \A r \in Stored : row[r].status = "COMPLETE" =>
    /\ row[r].results = row[r].invariants
    /\ row[r].verdicts = row[r].invariants
    /\ row[r].rounds = row[r].invariants \cap Supported
    /\ row[r].candidates = row[r].rounds
    /\ row[r].graph = RecordsOf(row[r], row[r].invariants)

(* What POST /runs answers is what GET /runs/{id} will find. *)
AnswerStored ==
  \A r \in Runs : answer[r] \in Terminal => r \in Stored /\ row[r].status = answer[r]

(* "audit failed safely" (workflow.py:108): unless the store fails, the      *)
(* incident changes under the run or its budget is beyond this server's      *)
(* limit, every failure ends as a stored FAILED run, never as an exception.  *)
SafeFailure ==
  \A r \in Runs : answer[r] = "error" => saves > 0 \/ faults > 0 \/ charged > MaxModelCalls

(* Rows of the runs reference existing actions only: the validation of each *)
(* save and the foreign keys that stop a resubmission meet without a gap.   *)
RowsKeepActions ==
  \A r \in Stored : row[r].invariants \cup row[r].verdicts \subseteq actions

(* The progress bar ends full: total_actions is counted before the incident *)
(* is read for the audit (workflow.py:86, 126), so the two agree only while *)
(* nobody resubmits the postmortem.                                         *)
TotalsAgree ==
  saves = 0 => \A r \in Stored :
                 row[r].status = "COMPLETE" => row[r].total = Cardinality(row[r].verdicts)

(* A terminal run stays as it is: the handler never turns a stored COMPLETE *)
(* into FAILED, and no stage runs after a failure.  No row disappears.      *)
KeepTerminal == \A r \in Stored : /\ row'[r] # NoRow
                                  /\ row[r].status \in Terminal => row'[r] = row[r]
TerminalFinal == [][KeepTerminal]_vars

(* Unless the server crashes, every audit that began is answered with a      *)
(* stored terminal run or an error: no failure path waits or repeats.        *)
AuditSettles ==
  \A r \in Runs :
    pc[r] = "begin" ~> answer[r] = "error" \/ row[r].status \in Terminal \/ crashes > 0

(* "Audit snapshots, evidence graphs, and guard approvals retain their       *)
(* cross-record integrity" (docs/TESTING.md:226); the graph has one node per *)
(* action of the incident (docs/ARCHITECTURE.md:289).  A run that completes  *)
(* before the incident's actions are stored breaks it, and cannot be read.   *)
GraphMatchesIncident ==
  \A r \in Stored : row[r].status = "COMPLETE" =>
    row[r].graph = RecordsOf(row[r], actions)

(* The audit implements AuditPolicy: whatever is interrupted, reloaded or    *)
(* saved anew, the stored stages come in order, a round is charged once and  *)
(* before it is searched, and nothing happens to a run after its answer.     *)
Policy == INSTANCE AuditPolicy WITH
  stage <- [r \in Runs |-> row[r].status],
  rounds <- [r \in Runs |-> IF row[r] = NoRow THEN {} ELSE row[r].rounds],
  searched <- found
ImplementsPolicy == Policy!Spec
============================================================================
