--------------------------- MODULE SnapshotReader ---------------------------
(***************************************************************************)
(* A request that reads a run beside the audit that writes it              *)
(* (AuditService.state, GuardService.preview): SQLiteStore.load_audit_state *)
(* selects from one table after another, each in a call of its own, while  *)
(* save_audit_state replaces all of them at once.  What it has put         *)
(* together is validated like a snapshot and answered, or refused.         *)
(*                                                                         *)
(* A part is what one call selects.  Left out are the incident's counter,  *)
(* constant in AuditRun, and the events, which validation compares with    *)
(* nothing but themselves.                                                 *)
(***************************************************************************)
EXTENDS AuditRun, Sequences

VARIABLES
  target,  \* the run that is read
  at,      \* the part that is read next, as its place in Order
  copy,    \* the parts read so far
  reading  \* what became of the request

reader == <<target, at, copy, reading>>

(* Mutant of Order: the summary is read when its records have been. *)
SummaryLast == <<"actions", "rounds", "invariants", "specs", "evidence",
                 "results", "verdicts", "nodes", "edges", "status">>

(* The graph last: validation meets it with records read before. *)
Order == <<"status", "actions", "rounds", "invariants", "specs", "evidence",
           "results", "verdicts", "nodes", "edges">>

Outcome == {"open", "answered", "refused", "missing", "lost"}

(* What the tables hold of a run and its incident's actions; an invariant *)
(* has one check spec.                                                    *)
Tables(s, acts) ==
  [status |-> s.status, actions |-> acts, rounds |-> s.rounds,
   invariants |-> s.invariants, specs |-> s.invariants,
   evidence |-> Candidates(s) \cup Checked(s),
   results |-> s.results, verdicts |-> s.verdicts,
   nodes |-> IF s.graph = NoRecords THEN {} ELSE Nodes(s.graph),
   edges |-> IF s.graph = NoRecords THEN {} ELSE Edges(s.graph)]

Unread == [status |-> "UNREAD", actions |-> {}, rounds |-> {}, invariants |-> {},
           specs |-> {}, evidence |-> {}, results |-> {}, verdicts |-> {},
           nodes |-> {}, edges |-> {}]

ReaderInit ==
  /\ Init
  /\ target \in Runs
  /\ at = 1
  /\ copy = Unread
  /\ reading = "open"

(* The next select.  Without a summary the request ends with a 404. *)
ReadPart ==
  /\ reading = "open"
  /\ at <= Len(Order)
  /\ IF row[target] = NoRow
     THEN reading' = "missing" /\ UNCHANGED <<at, copy>>
     ELSE /\ copy' = [copy EXCEPT ![Order[at]] = Tables(row[target], actions)[Order[at]]]
          /\ at' = at + 1
          /\ UNCHANGED reading
  /\ UNCHANGED <<target, vars>>

CopiedRecords(c) ==
  [incident |-> Incident, actions |-> c.actions,
   invariants |-> {[id |-> a, action |-> a] : a \in c.invariants},
   evidence |-> c.evidence,
   checks |-> {[id |-> a, invariant |-> a] : a \in c.results},
   verdicts |-> {[id |-> a, action |-> a] : a \in c.verdicts}]

(* _validate_audit_state on what was read; the incident is read once more. *)
Readable(c) ==
  /\ c.actions = actions
  /\ c.rounds \subseteq c.invariants
  /\ c.specs \subseteq c.invariants
  /\ c.results \subseteq c.specs
  /\ \A a \in c.results : <<a, "check">> \in Ids(c.evidence)
  /\ c.verdicts \subseteq c.invariants
  /\ WellOwned(CopiedRecords(c))
  /\ IF c.nodes \cup c.edges # {}
     THEN Validate([nodes |-> c.nodes, edges |-> c.edges], CopiedRecords(c))
     ELSE c.status = "COMPLETE" => c.actions = {}

AnswerRead ==
  /\ reading = "open"
  /\ at > Len(Order)
  /\ reading' = IF Readable(copy) THEN "answered" ELSE "refused"
  /\ UNCHANGED <<target, at, copy, vars>>

(* The audit goes on; a crash of the server loses an open read as well. *)
ServerStep ==
  /\ Next
  /\ IF crashes' > crashes /\ reading = "open"
     THEN reading' = "lost" /\ copy' = Unread /\ at' = 1
     ELSE UNCHANGED <<reading, copy, at>>
  /\ UNCHANGED target

ReaderNext == ServerStep \/ ReadPart \/ AnswerRead

ReaderSpec == ReaderInit /\ [][ReaderNext]_<<vars, reader>>

FairReaderSpec == ReaderSpec /\ \A r \in Runs : WF_vars(Continue(r))

-----------------------------------------------------------------------------
(* Properties *)

(* The parts that make up a run's records and graph. *)
Shown == {"invariants", "specs", "evidence", "results", "verdicts", "nodes", "edges"}

(* Reads tear, and it does not show where it matters: a read that says       *)
(* COMPLETE or FAILED has every part of the run as it is stored and stays,   *)
(* so no guard is proposed from half a run; a read that has a graph has the  *)
(* records of that graph; and a finished run is refused to a reader only if  *)
(* the postmortem was resubmitted.  It rests on the order of the selects.    *)
ReadsStand ==
  /\ reading = "answered" /\ copy.status \in Terminal =>
       \A part \in DOMAIN copy \ {"actions"} : copy[part] = Tables(row[target], actions)[part]
  /\ reading = "answered" /\ copy.nodes # {} =>
       \A part \in Shown : copy[part] = Tables(row[target], actions)[part]
  /\ reading = "refused" /\ copy.status \in Terminal => saves > 0
============================================================================
