---------------------------- MODULE EvidenceGraph ----------------------------
(***************************************************************************)
(* EvidenceGraphBuilder (audit/graph.py): the graph that explains an       *)
(* audit.  `build` makes it from the records of a run and `validate`       *)
(* compares a graph, new or stored, with the records.                      *)
(*                                                                         *)
(* Node and edge ids hash what they stand for, so a node is the kind and   *)
(* id of its record and an edge its ends and type; the lists of the code   *)
(* are sets here, and its checks for duplicates hold of any set.           *)
(*                                                                         *)
(* `audit` is a record: the incident's id, the ids of its actions, and     *)
(* sets of invariants, evidence, checks and verdicts that name, besides    *)
(* their own id, the record they belong to.                                *)
(***************************************************************************)

Kinds == {"INCIDENT", "ACTION", "INVARIANT", "EVIDENCE", "CHECK", "VERDICT"}

Node(kind, record) == [kind |-> kind, record |-> record]
Edge(source, target, type) == [source |-> source, target |-> target, type |-> type]

Ids(S) == {x.id : x \in S}

RecordIds(audit, kind) ==
  CASE kind = "INCIDENT"  -> {audit.incident}
    [] kind = "ACTION"    -> audit.actions
    [] kind = "INVARIANT" -> Ids(audit.invariants)
    [] kind = "EVIDENCE"  -> Ids(audit.evidence)
    [] kind = "CHECK"     -> Ids(audit.checks)
    [] kind = "VERDICT"   -> Ids(audit.verdicts)

Nodes(audit) == UNION {{Node(kind, id) : id \in RecordIds(audit, kind)} : kind \in Kinds}

(* How a piece of evidence relates to its invariant: gaps and contradictions *)
(* are told apart before tests are.                                          *)
Relation(e) ==
  CASE e.role = "CONTRADICTORY"              -> "CONTRADICTED_BY"
    [] e.role \in {"MISSING", "UNAVAILABLE"} -> "EVIDENCE_GAP"
    [] e.role \notin {"CONTRADICTORY", "MISSING", "UNAVAILABLE"} ->
         IF e.kind = "TEST" THEN "TESTED_BY" ELSE "SUPPORTED_BY"

Edges(audit) ==
  {Edge(Node("INCIDENT", audit.incident), Node("ACTION", a), "CONTAINS") : a \in audit.actions}
  \cup {Edge(Node("ACTION", i.action), Node("INVARIANT", i.id), "COMPILED_TO") : i \in audit.invariants}
  \cup {Edge(Node("INVARIANT", e.invariant), Node("EVIDENCE", e.id), Relation(e)) : e \in audit.evidence}
  \cup {Edge(Node("INVARIANT", c.invariant), Node("CHECK", c.id), "CHECKED_BY") : c \in audit.checks}
  \cup {Edge(Node("ACTION", v.action), Node("VERDICT", v.id), "CLASSIFIED_AS") : v \in audit.verdicts}

Build(audit) == [nodes |-> Nodes(audit), edges |-> Edges(audit)]

(* One node per record and no other, edges between them, and exactly the *)
(* relations of the records.                                             *)
Validate(graph, audit) ==
  /\ \A n \in graph.nodes : n.record \in RecordIds(audit, n.kind)
  /\ graph.nodes = Nodes(audit)
  /\ {e.source : e \in graph.edges} \cup {e.target : e \in graph.edges} \subseteq graph.nodes
  /\ graph.edges = Edges(audit)

(* What SQLiteStore._validate_audit_state requires of the records before the *)
(* graph: unique ids, and owners that are records of the run.                *)
UniqueIds(S) == \A x, y \in S : x.id = y.id => x = y

WellOwned(audit) ==
  /\ {i.action : i \in audit.invariants} \subseteq audit.actions
  /\ {e.invariant : e \in audit.evidence} \subseteq Ids(audit.invariants)
  /\ {c.invariant : c \in audit.checks} \subseteq Ids(audit.invariants)
  /\ {v.action : v \in audit.verdicts} \subseteq audit.actions
  /\ UniqueIds(audit.invariants) /\ UniqueIds(audit.evidence)
  /\ UniqueIds(audit.checks) /\ UniqueIds(audit.verdicts)
============================================================================
