--------------------------- MODULE AuditRun_proofs ---------------------------
(***************************************************************************)
(* Proofs about AuditRun, for any number of runs and actions, any settings *)
(* and bounds.  A step of a run changes that run alone, so what holds of a *)
(* run is a predicate of its values: RunOK.  That the graph a run stores   *)
(* fits its records rests on facts about every graph, which come first; the *)
(* reader beside the audit (SnapshotReader) comes last.                    *)
(***************************************************************************)
EXTENDS SnapshotReader, FiniteSetTheorems, TLAPS

-----------------------------------------------------------------------------
(* Every evidence graph, whatever its records. *)

(* What build returns passes validate, if the records own each other as the *)
(* store requires: the ValueError of graph.py cannot end an audit that the  *)
(* other checks of the store let through.                                   *)
THEOREM BuildIsValid ==
  ASSUME NEW audit, WellOwned(audit)
  PROVE  Validate(Build(audit), audit)
<1> DEFINE nodes == Nodes(audit)
<1>1. \A kind \in Kinds : \A id : id \in RecordIds(audit, kind) => Node(kind, id) \in nodes
  BY DEF Nodes
<1>2. \A n \in nodes : n.record \in RecordIds(audit, n.kind)
  BY DEF Nodes, Node
<1>3. \A e \in Edges(audit) : e.source \in nodes /\ e.target \in nodes
  <2> SUFFICES ASSUME NEW e \in Edges(audit)
               PROVE  e.source \in nodes /\ e.target \in nodes
    OBVIOUS
  <2>1. ASSUME NEW a \in audit.actions,
               e = Edge(Node("INCIDENT", audit.incident), Node("ACTION", a), "CONTAINS")
        PROVE  e.source \in nodes /\ e.target \in nodes
    BY <2>1, <1>1 DEF Kinds, RecordIds, Edge
  <2>2. ASSUME NEW i \in audit.invariants,
               e = Edge(Node("ACTION", i.action), Node("INVARIANT", i.id), "COMPILED_TO")
        PROVE  e.source \in nodes /\ e.target \in nodes
    BY <2>2, <1>1 DEF Kinds, RecordIds, Edge, Ids, WellOwned
  <2>3. ASSUME NEW v \in audit.evidence,
               e = Edge(Node("INVARIANT", v.invariant), Node("EVIDENCE", v.id), Relation(v))
        PROVE  e.source \in nodes /\ e.target \in nodes
    BY <2>3, <1>1 DEF Kinds, RecordIds, Edge, Ids, WellOwned
  <2>4. ASSUME NEW c \in audit.checks,
               e = Edge(Node("INVARIANT", c.invariant), Node("CHECK", c.id), "CHECKED_BY")
        PROVE  e.source \in nodes /\ e.target \in nodes
    BY <2>4, <1>1 DEF Kinds, RecordIds, Edge, Ids, WellOwned
  <2>5. ASSUME NEW v \in audit.verdicts,
               e = Edge(Node("ACTION", v.action), Node("VERDICT", v.id), "CLASSIFIED_AS")
        PROVE  e.source \in nodes /\ e.target \in nodes
    BY <2>5, <1>1 DEF Kinds, RecordIds, Edge, Ids, WellOwned
  <2> QED BY <2>1, <2>2, <2>3, <2>4, <2>5 DEF Edges
<1> QED BY <1>2, <1>3 DEF Validate, Build

(* A graph belongs to one set of records: if it is valid for two audits,    *)
(* they have the same actions, invariants, evidence, checks and verdicts,   *)
(* so a stored graph cannot go unnoticed when a record appears or vanishes. *)
THEOREM GraphDeterminesRecords ==
  ASSUME NEW graph, NEW before, NEW after,
         Validate(graph, before), Validate(graph, after)
  PROVE  \A kind \in Kinds : RecordIds(before, kind) = RecordIds(after, kind)
<1> SUFFICES ASSUME NEW kind \in Kinds
             PROVE  RecordIds(before, kind) = RecordIds(after, kind)
  OBVIOUS
<1>1. ASSUME NEW one, NEW other, Validate(graph, one), Validate(graph, other)
      PROVE  RecordIds(one, kind) \subseteq RecordIds(other, kind)
  <2> SUFFICES ASSUME NEW id \in RecordIds(one, kind)
               PROVE  id \in RecordIds(other, kind)
    OBVIOUS
  <2>1. Node(kind, id) \in Nodes(one)
    BY DEF Nodes
  <2>2. Node(kind, id) \in graph.nodes
    BY <1>1, <2>1 DEF Validate
  <2>3. Node(kind, id).record \in RecordIds(other, Node(kind, id).kind)
    BY <1>1, <2>2 DEF Validate
  <2> QED BY <2>3 DEF Node
<1> QED BY <1>1

(* Every record but the incident is explained by exactly one other: the     *)
(* graph of a run is a tree below its incident, so the dashboard can walk   *)
(* from a verdict, a check or a piece of evidence up to the incident.       *)
THEOREM OneParent ==
  ASSUME NEW audit, WellOwned(audit),
         NEW n \in Nodes(audit), n.kind # "INCIDENT"
  PROVE  /\ \E e \in Edges(audit) : e.target = n
         /\ \A e, f \in Edges(audit) : e.target = n /\ f.target = n => e = f
<1>a. PICK kind \in Kinds : \E id \in RecordIds(audit, kind) : n = Node(kind, id)
  BY DEF Nodes
<1>0. PICK id \in RecordIds(audit, kind) : n = Node(kind, id)
  BY <1>a
<1>1. n.kind = kind /\ n.record = id /\ kind # "INCIDENT"
  BY <1>0 DEF Node
<1>2. CASE kind = "ACTION"
  <2>1. id \in audit.actions
    BY <1>2 DEF RecordIds
  <2>2. Edge(Node("INCIDENT", audit.incident), n, "CONTAINS") \in Edges(audit)
    BY <2>1, <1>0, <1>2 DEF Edges
  <2>3. ASSUME NEW e \in Edges(audit), e.target = n
        PROVE  e = Edge(Node("INCIDENT", audit.incident), n, "CONTAINS")
    BY <2>3, <1>0, <1>2 DEF Edges, Edge, Node
  <2> QED BY <2>2, <2>3 DEF Edge
<1>3. CASE kind = "INVARIANT"
  <2>1. PICK i \in audit.invariants : i.id = id
    BY <1>3 DEF RecordIds, Ids
  <2>2. Edge(Node("ACTION", i.action), n, "COMPILED_TO") \in Edges(audit)
    BY <2>1, <1>0, <1>3 DEF Edges
  <2>3. ASSUME NEW e \in Edges(audit), e.target = n
        PROVE  e = Edge(Node("ACTION", i.action), n, "COMPILED_TO")
    <3>1. PICK j \in audit.invariants :
             e = Edge(Node("ACTION", j.action), Node("INVARIANT", j.id), "COMPILED_TO")
      BY <2>3, <1>0, <1>3 DEF Edges, Edge, Node
    <3>2. j.id = i.id
      BY <3>1, <2>3, <2>1, <1>1 DEF Edge, Node
    <3>3. j = i
      BY <3>2 DEF WellOwned, UniqueIds
    <3> QED BY <3>1, <3>3, <2>3 DEF Edge
  <2> QED BY <2>2, <2>3 DEF Edge
<1>4. CASE kind = "EVIDENCE"
  <2>1. PICK i \in audit.evidence : i.id = id
    BY <1>4 DEF RecordIds, Ids
  <2>2. Edge(Node("INVARIANT", i.invariant), n, Relation(i)) \in Edges(audit)
    BY <2>1, <1>0, <1>4 DEF Edges
  <2>3. ASSUME NEW e \in Edges(audit), e.target = n
        PROVE  e = Edge(Node("INVARIANT", i.invariant), n, Relation(i))
    <3>1. PICK j \in audit.evidence :
             e = Edge(Node("INVARIANT", j.invariant), Node("EVIDENCE", j.id), Relation(j))
      BY <2>3, <1>0, <1>4 DEF Edges, Edge, Node
    <3>2. j.id = i.id
      BY <3>1, <2>3, <2>1, <1>1 DEF Edge, Node
    <3>3. j = i
      BY <3>2 DEF WellOwned, UniqueIds
    <3> QED BY <3>1, <3>3, <2>3 DEF Edge
  <2> QED BY <2>2, <2>3 DEF Edge
<1>5. CASE kind = "CHECK"
  <2>1. PICK i \in audit.checks : i.id = id
    BY <1>5 DEF RecordIds, Ids
  <2>2. Edge(Node("INVARIANT", i.invariant), n, "CHECKED_BY") \in Edges(audit)
    BY <2>1, <1>0, <1>5 DEF Edges
  <2>3. ASSUME NEW e \in Edges(audit), e.target = n
        PROVE  e = Edge(Node("INVARIANT", i.invariant), n, "CHECKED_BY")
    <3>1. PICK j \in audit.checks :
             e = Edge(Node("INVARIANT", j.invariant), Node("CHECK", j.id), "CHECKED_BY")
      BY <2>3, <1>0, <1>5 DEF Edges, Edge, Node
    <3>2. j.id = i.id
      BY <3>1, <2>3, <2>1, <1>1 DEF Edge, Node
    <3>3. j = i
      BY <3>2 DEF WellOwned, UniqueIds
    <3> QED BY <3>1, <3>3, <2>3 DEF Edge
  <2> QED BY <2>2, <2>3 DEF Edge
<1>6. CASE kind = "VERDICT"
  <2>1. PICK i \in audit.verdicts : i.id = id
    BY <1>6 DEF RecordIds, Ids
  <2>2. Edge(Node("ACTION", i.action), n, "CLASSIFIED_AS") \in Edges(audit)
    BY <2>1, <1>0, <1>6 DEF Edges
  <2>3. ASSUME NEW e \in Edges(audit), e.target = n
        PROVE  e = Edge(Node("ACTION", i.action), n, "CLASSIFIED_AS")
    <3>1. PICK j \in audit.verdicts :
             e = Edge(Node("ACTION", j.action), Node("VERDICT", j.id), "CLASSIFIED_AS")
      BY <2>3, <1>0, <1>6 DEF Edges, Edge, Node
    <3>2. j.id = i.id
      BY <3>1, <2>3, <2>1, <1>1 DEF Edge, Node
    <3>3. j = i
      BY <3>2 DEF WellOwned, UniqueIds
    <3> QED BY <3>1, <3>3, <2>3 DEF Edge
  <2> QED BY <2>2, <2>3 DEF Edge
<1> QED BY <1>1, <1>2, <1>3, <1>4, <1>5, <1>6 DEF Kinds

-----------------------------------------------------------------------------
(* What holds of a run *)

Running == {"load", "parsed", "compile", "index", "reserve", "search",
            "investigate", "verify", "graph", "complete"}
Failing == {"reload", "validate", "fail"}

(* What a run has done when it is at step p, with snapshot s, actions k in *)
(* memory and searched invariants f.                                       *)
Progress(p, s, k, f) ==
  /\ p \in {"idle", "begin"} => s = NoRow
  /\ p = "validate" => s # NoRow
  /\ p \in {"load", "parsed", "compile"} => s.invariants = {} /\ f = {}
  /\ p \in Running \ {"load", "parsed", "compile"} => s.invariants = k
  /\ p = "index" => f = {} /\ s.rounds = {}
  /\ p = "reserve" => f = s.rounds
  /\ p \in {"investigate", "verify", "graph", "complete"} =>
       s.rounds = s.invariants \cap Supported /\ s.candidates = s.rounds
  /\ p \in {"verify", "graph", "complete"} => s.results = s.invariants
  /\ p \in {"graph", "complete"} => s.verdicts = s.invariants
  /\ p \in Running \ {"complete"} => s.graph = NoRecords
  /\ p = "complete" => s.graph = RecordsOf(s, k)

(* What a snapshot says is about its invariants; COMPLETE says all of it. *)
Sound(s) ==
  /\ s.rounds \subseteq s.invariants \cap Supported
  /\ s.candidates \subseteq s.rounds
  /\ s.results \subseteq s.invariants /\ s.verdicts \subseteq s.invariants
  /\ s.status = "COMPLETE" =>
       /\ s.results = s.invariants /\ s.verdicts = s.invariants
       /\ s.rounds = s.invariants \cap Supported /\ s.candidates = s.rounds
       /\ s.graph = RecordsOf(s, s.invariants)

RunOK(p, s, k, f, a) ==
  /\ Progress(p, s, k, f)
  /\ s = NoRow => f = {}
  /\ s # NoRow => /\ Sound(s)
                  /\ f \subseteq s.rounds
                  /\ s.status \in Terminal => p = "done"
  /\ p # "done" => a = "none"
  /\ a \in Terminal => s # NoRow /\ s.status = a

(* Rows keep the foreign keys that the store enforces. *)
RowPinned(r) == row[r] # NoRow => row[r].invariants \subseteq actions

(* While nobody resubmits the postmortem, a run knows the incident ... *)
Undisturbed(r) ==
  saves = 0 =>
    /\ pc[r] \notin {"idle", "done"} => known[r] = actions
    /\ row[r] # NoRow => /\ row[r].total = Cardinality(actions)
                         /\ row[r].status = "COMPLETE" => row[r].verdicts = actions
                         /\ row[r].graph # NoRecords => row[r].graph = RecordsOf(row[r], actions)

(* ... and while the store does not fail either, no exception escapes. *)
NoEscape(r) ==
  saves = 0 /\ faults = 0 => (answer[r] = "error" => charged > MaxModelCalls)

RunInv(r) == /\ RunOK(pc[r], row[r], known[r], found[r], answer[r])
             /\ RowPinned(r)
             /\ Undisturbed(r)
             /\ NoEscape(r)

IInv == TypeOK /\ \A r \in Runs : RunInv(r)

-----------------------------------------------------------------------------
(* Snapshots and their records *)

LEMMA SnapshotIsNotNoRow == \A s \in Snapshot : s # NoRow
<1> SUFFICES ASSUME NEW s \in Snapshot PROVE s # NoRow
  OBVIOUS
<1>1. s.status \in Stage \cup Terminal
  BY DEF Snapshot
<1>2. NoRow.status = "NO ROW"
  BY DEF NoRow
<1>3. "NO ROW" \notin Stage \cup Terminal
  BY DEF Stage, Terminal
<1> QED
  BY <1>1, <1>2, <1>3

(* The records of a snapshot depend on its fields that a graph shows. *)
LEMMA SameRecords ==
  ASSUME NEW s, NEW t, NEW acts,
         t.invariants = s.invariants, t.candidates = s.candidates,
         t.results = s.results, t.verdicts = s.verdicts
  PROVE  RecordsOf(t, acts) = RecordsOf(s, acts)
BY DEF RecordsOf, Candidates, Checked

LEMMA RecordsType ==
  ASSUME NEW s \in Snapshot, NEW acts \in SUBSET Actions
  PROVE  RecordsOf(s, acts) \in Audit
<1>1. s.invariants \subseteq Actions /\ s.verdicts \subseteq Actions
      /\ s.candidates \subseteq Actions /\ s.results \subseteq Actions
  BY DEF Snapshot
<1>2. Candidates(s) \subseteq Evidence
  BY <1>1 DEF Candidates, Evidence
<1>3. Checked(s) \subseteq Evidence
  BY <1>1 DEF Checked, Evidence
<1>4. {[id |-> a, action |-> a] : a \in s.invariants} \subseteq Owned(Actions)
      /\ {[id |-> a, action |-> a] : a \in s.verdicts} \subseteq Owned(Actions)
      /\ {[id |-> a, invariant |-> a] : a \in s.results} \subseteq [id : Actions, invariant : Actions]
  BY <1>1 DEF Owned
<1> QED
  BY <1>2, <1>3, <1>4 DEF RecordsOf, Audit

(* A graph that was built is not the absence of one. *)
LEMMA RecordsAreAGraph ==
  ASSUME NEW s, NEW acts
  PROVE  RecordsOf(s, acts) # NoRecords
<1>1. "actions" \in DOMAIN RecordsOf(s, acts)
  BY DEF RecordsOf
<1>2. "actions" \notin DOMAIN NoRecords
  BY DEF NoRecords
<1> QED
  BY <1>1, <1>2

(* The records of a sound snapshot are well owned. *)
LEMMA SoundIsOwned ==
  ASSUME NEW s, NEW acts, Sound(s), s.invariants \subseteq acts
  PROVE  WellOwned(RecordsOf(s, acts))
<1> DEFINE R == RecordsOf(s, acts)
<1>1. /\ R.actions = acts
      /\ R.invariants = {[id |-> a, action |-> a] : a \in s.invariants}
      /\ R.evidence = Candidates(s) \cup Checked(s)
      /\ R.checks = {[id |-> a, invariant |-> a] : a \in s.results}
      /\ R.verdicts = {[id |-> a, action |-> a] : a \in s.verdicts}
  BY DEF RecordsOf
<1>2. s.candidates \subseteq s.invariants /\ s.results \subseteq s.invariants
      /\ s.verdicts \subseteq s.invariants
  BY DEF Sound
<1>3. \A a \in s.invariants : a \in Ids(R.invariants)
  <2> SUFFICES ASSUME NEW a \in s.invariants PROVE a \in Ids(R.invariants)
    OBVIOUS
  <2>1. [id |-> a, action |-> a] \in R.invariants
    BY <1>1
  <2>2. [id |-> a, action |-> a].id = a
    OBVIOUS
  <2> HIDE DEF R
  <2> QED
    BY <2>1, <2>2 DEF Ids
<1>4. \A e \in R.evidence : e.invariant \in s.invariants
  BY <1>1, <1>2 DEF Candidates, Checked
<1>5. UniqueIds(R.invariants) /\ UniqueIds(R.checks) /\ UniqueIds(R.verdicts)
  BY <1>1 DEF UniqueIds
<1>6. UniqueIds(R.evidence)
  <2> SUFFICES ASSUME NEW x \in R.evidence, NEW y \in R.evidence, x.id = y.id PROVE x = y
    BY DEF UniqueIds
  <2>1. ASSUME NEW a, NEW b PROVE <<a, "candidate">> # <<b, "check">>
    OBVIOUS
  <2>2. ASSUME NEW a, NEW b, <<a, "candidate">> = <<b, "candidate">> PROVE a = b
    BY <2>2
  <2>3. ASSUME NEW a, NEW b, <<a, "check">> = <<b, "check">> PROVE a = b
    BY <2>3
  <2>4. CASE x \in Candidates(s) /\ y \in Candidates(s)
    BY <2>2, <2>4 DEF Candidates
  <2>5. CASE x \in Checked(s) /\ y \in Checked(s)
    <3>1. PICK a \in s.results : x = [id |-> <<a, "check">>, invariant |-> a, kind |-> "CODE",
                role |-> IF a \in Supported THEN "SUPPORTING" ELSE "UNAVAILABLE"]
      BY <2>5 DEF Checked
    <3>2. PICK b \in s.results : y = [id |-> <<b, "check">>, invariant |-> b, kind |-> "CODE",
                role |-> IF b \in Supported THEN "SUPPORTING" ELSE "UNAVAILABLE"]
      BY <2>5 DEF Checked
    <3>3. a = b
      BY <3>1, <3>2, <2>3
    <3> QED BY <3>1, <3>2, <3>3
  <2>6. ASSUME NEW u \in Candidates(s), NEW v \in Checked(s) PROVE u.id # v.id
    BY <2>1 DEF Candidates, Checked
  <2> QED BY <2>4, <2>5, <2>6, <1>1
<1>7. \A i \in R.invariants : i.action \in R.actions
  BY <1>1
<1>8. \A v \in R.verdicts : v.action \in R.actions
  BY <1>1, <1>2
<1>9. \A c \in R.checks : c.invariant \in s.invariants
  BY <1>1, <1>2
<1> HIDE DEF R
<1>10. WellOwned(R)
  BY <1>3, <1>4, <1>5, <1>6, <1>7, <1>8, <1>9 DEF WellOwned
<1> QED
  BY <1>10 DEF R

(* Validation lets through what it is meant to, and nothing else. *)
LEMMA SoundIsValid ==
  ASSUME NEW s, Sound(s), s.invariants \subseteq actions,
         s.graph = NoRecords \/ s.graph = RecordsOf(s, actions),
         s.status # "COMPLETE" \/ s.graph # NoRecords
  PROVE  Valid(s, actions)
<1>1. WellOwned(RecordsOf(s, actions))
  BY SoundIsOwned
<1>2. s.rounds \subseteq s.invariants
  BY DEF Sound
<1>3. s.graph # NoRecords => Validate(Build(s.graph), RecordsOf(s, actions))
  BY <1>1, BuildIsValid
<1> QED
  BY <1>1, <1>2, <1>3 DEF Valid

LEMMA ValidKnows ==
  ASSUME NEW s, NEW acts, Valid(s, acts)
  PROVE  acts = actions /\ s.invariants \subseteq actions
<1>1. acts = actions /\ WellOwned(RecordsOf(s, acts))
  BY DEF Valid
<1>2. \A i \in RecordsOf(s, acts).invariants : i.action \in RecordsOf(s, acts).actions
  BY <1>1 DEF WellOwned
<1>3. RecordsOf(s, acts).actions = acts
      /\ RecordsOf(s, acts).invariants = {[id |-> a, action |-> a] : a \in s.invariants}
  BY DEF RecordsOf
<1>4. \A a \in s.invariants : [id |-> a, action |-> a] \in RecordsOf(s, acts).invariants
  BY <1>3
<1>5. \A a \in s.invariants : [id |-> a, action |-> a].action = a
  OBVIOUS
<1> QED
  BY <1>1, <1>2, <1>3, <1>4, <1>5

-----------------------------------------------------------------------------
(* Steps of a run *)

EnvironmentOf(r) ==
  /\ UNCHANGED <<actions, charged, saves, crashes>>
  /\ faults' = faults \/ (faults < MaxFaults /\ faults' = faults + 1)

(* What a step of run r leaves alone. *)
StepOf(r) ==
  /\ EnvironmentOf(r)
  /\ \A q \in Runs \ {r} :
       /\ pc'[q] = pc[q] /\ row'[q] = row[q] /\ known'[q] = known[q]
       /\ found'[q] = found[q] /\ answer'[q] = answer[q]

Raised(r) ==
  /\ pc' = [pc EXCEPT ![r] = "reload"]
  /\ UNCHANGED <<row, known, found, answer>>
  /\ EnvironmentOf(r)

Saved(r, s, next) ==
  /\ Valid(s, known[r])
  /\ row' = [row EXCEPT ![r] = s]
  /\ pc' = [pc EXCEPT ![r] = next]
  /\ UNCHANGED <<known, found, answer, environment>>

LEMMA SaveCases ==
  ASSUME NEW r, NEW s, NEW next, SaveAuditState(r, s, next)
  PROVE  Saved(r, s, next) \/ Raised(r)
BY DEF SaveAuditState, Saved, Raised, Raise, Fault, Goto, environment, EnvironmentOf

LEMMA RaiseCases ==
  ASSUME NEW r, Raise(r), UNCHANGED environment
  PROVE  Raised(r)
BY DEF Raised, Raise, Goto, environment, EnvironmentOf

(* The other runs keep their invariant. *)
LEMMA OthersKeep ==
  ASSUME IInv, TypeOK', NEW r \in Runs, StepOf(r), RunInv(r)'
  PROVE  IInv'
<1> SUFFICES ASSUME NEW q \in Runs \ {r} PROVE RunInv(q)'
  BY DEF IInv
<1>1. RunInv(q)
  BY DEF IInv
<1>2. /\ pc'[q] = pc[q] /\ row'[q] = row[q] /\ known'[q] = known[q]
      /\ found'[q] = found[q] /\ answer'[q] = answer[q]
      /\ actions' = actions /\ charged' = charged /\ saves' = saves
  BY DEF StepOf, EnvironmentOf
<1>3. faults' = 0 => faults = 0
  BY DEF StepOf, EnvironmentOf, IInv, TypeOK
<1> QED
  BY <1>1, <1>2, <1>3 DEF RunInv, RowPinned, Undisturbed, NoEscape

(* A run that raises enters the handler with the row it has. *)
LEMMA RaiseKeeps ==
  ASSUME IInv, NEW r \in Runs, Raised(r), pc[r] \notin {"idle", "done"}
  PROVE  IInv'
<1>1. TypeOK'
  BY BoundsAssumption DEF IInv, TypeOK, Raised, EnvironmentOf, Steps
<1>2. StepOf(r)
  BY DEF StepOf, Raised, IInv, TypeOK
<1>3. pc'[r] = "reload" /\ row'[r] = row[r] /\ known'[r] = known[r]
      /\ found'[r] = found[r] /\ answer'[r] = answer[r]
      /\ actions' = actions /\ charged' = charged /\ saves' = saves
  BY DEF Raised, EnvironmentOf, IInv, TypeOK
<1>4. faults' = 0 => faults = 0
  BY DEF Raised, EnvironmentOf, IInv, TypeOK
<1>5. RunInv(r)
  BY DEF IInv
<1>6. RunOK("reload", row[r], known[r], found[r], answer[r])
  BY <1>5 DEF RunInv, RunOK, Progress, Running
<1>7. RunInv(r)'
  BY <1>3, <1>4, <1>5, <1>6 DEF RunInv, RowPinned, Undisturbed, NoEscape
<1> QED
  BY <1>1, <1>2, <1>7, OthersKeep

(* A save that goes through stores a sound snapshot of the next stage. *)
LEMMA SaveKeeps ==
  ASSUME IInv, NEW r \in Runs, NEW s \in Snapshot, NEW next \in Running,
         Saved(r, s, next), pc[r] \notin {"idle", "done"},
         Progress(next, s, known[r], found[r]), Sound(s),
         found[r] \subseteq s.rounds, s.status \notin Terminal,
         saves = 0 => s.total = Cardinality(actions),
         s.graph = NoRecords \/ s.graph = RecordsOf(s, known[r])
  PROVE  IInv'
<1>1. TypeOK'
  BY DEF IInv, TypeOK, Saved, environment, Steps, Running
<1>2. StepOf(r)
  BY DEF StepOf, EnvironmentOf, Saved, environment, IInv, TypeOK
<1>3. pc'[r] = next /\ row'[r] = s /\ known'[r] = known[r]
      /\ found'[r] = found[r] /\ answer'[r] = answer[r]
      /\ actions' = actions /\ charged' = charged /\ saves' = saves /\ faults' = faults
  BY DEF Saved, environment, IInv, TypeOK
<1>4. RunInv(r)
  BY DEF IInv
<1>5. known[r] = actions /\ s.invariants \subseteq actions
  BY ValidKnows DEF Saved
<1>6. s # NoRow
  BY SnapshotIsNotNoRow
<1>7. RunOK(next, s, known[r], found[r], answer[r])
  <2>1. answer[r] = "none" /\ "none" \notin Terminal
    BY <1>4 DEF RunInv, RunOK, Terminal
  <2> QED
    BY <2>1, <1>6 DEF RunOK
<1>8. RunInv(r)'
  <2>1. s.status # "COMPLETE"
    BY DEF Terminal
  <2>2. RowPinned(r)'
    BY <1>3, <1>5 DEF RowPinned
  <2>3. Undisturbed(r)'
    BY <1>3, <1>5, <2>1 DEF Undisturbed
  <2>4. NoEscape(r)'
    BY <1>3, <1>4 DEF RunInv, NoEscape
  <2> QED
    BY <1>3, <1>7, <2>2, <2>3, <2>4 DEF RunInv
<1> QED
  BY <1>1, <1>2, <1>8, OthersKeep

(* save_audit_state at a stage: either the stage is stored or the run raises. *)
LEMMA SaveAuditStateKeeps ==
  ASSUME IInv, NEW r \in Runs, NEW s \in Snapshot, NEW next \in Running,
         SaveAuditState(r, s, next), pc[r] \notin {"idle", "done"},
         Progress(next, s, known[r], found[r]), Sound(s),
         found[r] \subseteq s.rounds, s.status \notin Terminal,
         saves = 0 => s.total = Cardinality(actions),
         s.graph = NoRecords \/ s.graph = RecordsOf(s, known[r])
  PROVE  IInv'
BY SaveCases, SaveKeeps, RaiseKeeps

-----------------------------------------------------------------------------
(* The steps of a run, one by one *)

LEMMA StartKeeps ==
  ASSUME IInv, NEW r \in Runs, Start(r)
  PROVE  IInv'
<1>1. TypeOK'
  BY DEF IInv, TypeOK, Start, environment, Steps, Goto, Terminal
<1>2. StepOf(r)
  BY DEF StepOf, EnvironmentOf, Start, Goto, environment, IInv, TypeOK
<1>3. RunInv(r) /\ pc[r] = "idle"
  BY DEF IInv, Start
<1>4. row[r] = NoRow /\ found[r] = {} /\ answer[r] = "none"
  BY <1>3 DEF RunInv, RunOK, Progress
<1>5. row'[r] = NoRow /\ found'[r] = {} /\ known'[r] = actions
      /\ actions' = actions /\ charged' = charged
  BY <1>4 DEF Start, environment, IInv, TypeOK
<1>6. CASE charged > MaxModelCalls
  <2>1. pc'[r] = "done" /\ answer'[r] = "error"
    BY <1>6 DEF Start, Goto, IInv, TypeOK
  <2>2. RunOK("done", NoRow, actions, {}, "error")
    BY DEF RunOK, Progress, Running, Terminal
  <2>3. RunInv(r)'
    BY <1>5, <1>6, <2>1, <2>2 DEF RunInv, RowPinned, Undisturbed, NoEscape
  <2> QED
    BY <1>1, <1>2, <2>3, OthersKeep
<1>7. CASE ~ (charged > MaxModelCalls)
  <2>1. pc'[r] = "begin" /\ answer'[r] = "none"
    BY <1>4, <1>7 DEF Start, Goto, IInv, TypeOK
  <2>2. RunOK("begin", NoRow, actions, {}, "none")
    BY DEF RunOK, Progress, Running, Terminal
  <2>3. RunInv(r)'
    BY <1>5, <2>1, <2>2 DEF RunInv, RowPinned, Undisturbed, NoEscape
  <2> QED
    BY <1>1, <1>2, <2>3, OthersKeep
<1> QED
  BY <1>6, <1>7

LEMMA SaveInitialKeeps ==
  ASSUME IInv, NEW r \in Runs, SaveInitial(r)
  PROVE  IInv'
<1> DEFINE s == Initial(known[r])
<1>1. pc[r] = "begin" /\ SaveAuditState(r, s, "load") /\ RunInv(r)
  BY DEF SaveInitial, IInv
<1>2. known[r] \subseteq Actions
  BY DEF IInv, TypeOK
<1>3. Cardinality(known[r]) \in Nat
  BY <1>2, ActionsAssumption, FS_Subset, FS_CardinalityType
<1>4. s \in Snapshot
  BY <1>3 DEF Initial, Snapshot, Stage
<1>5. row[r] = NoRow /\ found[r] = {}
  BY <1>1 DEF RunInv, RunOK, Progress
<1>6. /\ s.status = "QUEUED" /\ s.total = Cardinality(known[r]) /\ s.graph = NoRecords
      /\ s.invariants = {} /\ s.rounds = {} /\ s.candidates = {} /\ s.results = {} /\ s.verdicts = {}
  BY DEF Initial
<1>7. saves = 0 => known[r] = actions
  BY <1>1 DEF RunInv, Undisturbed
<1> HIDE DEF s
<1>8. Progress("load", s, known[r], found[r]) /\ Sound(s)
  BY <1>5, <1>6 DEF Progress, Sound, Running
<1>9. "load" \in Running /\ s.status \notin Terminal
  BY <1>6 DEF Running, Terminal
<1> QED
  BY <1>1, <1>4, <1>5, <1>6, <1>7, <1>8, <1>9, SaveAuditStateKeeps

(* What a stage finds when it begins. *)
LEMMA StageFacts ==
  ASSUME IInv, NEW r \in Runs, pc[r] \in Running
  PROVE  /\ row[r] \in Snapshot /\ row[r] # NoRow
         /\ known[r] \subseteq Actions /\ found[r] \subseteq Actions
         /\ Progress(pc[r], row[r], known[r], found[r]) /\ Sound(row[r])
         /\ found[r] \subseteq row[r].rounds /\ answer[r] = "none"
         /\ row[r].status \notin Terminal
         /\ pc[r] \notin {"idle", "done"}
         /\ saves = 0 => known[r] = actions /\ row[r].total = Cardinality(actions)
<1>1. row[r] \in Snapshot /\ known[r] \subseteq Actions /\ found[r] \subseteq Actions
  BY DEF IInv, TypeOK, Running
<1>2. row[r] # NoRow
  BY <1>1, SnapshotIsNotNoRow
<1>3. pc[r] \notin {"idle", "done"}
  BY DEF Running
<1>4. RunInv(r)
  BY DEF IInv
<1>5. /\ Progress(pc[r], row[r], known[r], found[r]) /\ Sound(row[r])
      /\ found[r] \subseteq row[r].rounds /\ answer[r] = "none"
      /\ row[r].status \notin Terminal
  BY <1>2, <1>3, <1>4 DEF RunInv, RunOK
<1>6. saves = 0 => known[r] = actions /\ row[r].total = Cardinality(actions)
  BY <1>2, <1>3, <1>4 DEF RunInv, Undisturbed
<1> QED
  BY <1>1, <1>2, <1>3, <1>5, <1>6

(* A step that only moves on: nothing is stored, k and f are in memory. *)
LEMMA MoveKeeps ==
  ASSUME IInv, NEW r \in Runs, pc[r] \in Running,
         NEW next \in Running, NEW k \in SUBSET Actions, NEW f \in SUBSET Actions,
         pc' = [pc EXCEPT ![r] = next],
         known' = [known EXCEPT ![r] = k], found' = [found EXCEPT ![r] = f],
         UNCHANGED <<row, answer, environment>>,
         Progress(next, row[r], k, f), f \subseteq row[r].rounds,
         k = known[r] \/ k = actions
  PROVE  IInv'
<1>1. TypeOK'
  BY DEF IInv, TypeOK, environment, Steps, Running
<1>2. StepOf(r)
  BY DEF StepOf, EnvironmentOf, environment, IInv, TypeOK
<1>3. /\ pc'[r] = next /\ row'[r] = row[r] /\ known'[r] = k
      /\ found'[r] = f /\ answer'[r] = answer[r]
      /\ actions' = actions /\ charged' = charged /\ saves' = saves /\ faults' = faults
  BY DEF environment, IInv, TypeOK
<1>4. RunInv(r)
  BY DEF IInv
<1>5. RunOK(next, row[r], k, f, answer[r])
  <2>1. answer[r] = "none" /\ "none" \notin Terminal
    BY StageFacts DEF Terminal
  <2> QED
    BY <2>1, StageFacts DEF RunOK
<1>6. RowPinned(r)' /\ NoEscape(r)'
  BY <1>3, <1>4 DEF RunInv, RowPinned, NoEscape
<1>7. Undisturbed(r)'
  BY <1>3, <1>4, StageFacts DEF RunInv, Undisturbed
<1>8. RunInv(r)'
  BY <1>3, <1>5, <1>6, <1>7 DEF RunInv
<1> QED
  BY <1>1, <1>2, <1>8, OthersKeep

LEMMA ReadActionsKeeps ==
  ASSUME IInv, NEW r \in Runs, ReadActions(r)
  PROVE  IInv'
<1>1. pc[r] = "load" /\ pc[r] \in Running
  BY DEF ReadActions, Running
<1>2. actions \subseteq Actions /\ found[r] \subseteq Actions /\ found' = [found EXCEPT ![r] = found[r]]
  BY DEF IInv, TypeOK, ReadActions
<1>3. Progress("parsed", row[r], actions, found[r])
  BY <1>1, StageFacts DEF Progress, Running
<1>4. "parsed" \in Running
  BY DEF Running
<1> QED
  BY <1>1, <1>2, <1>3, <1>4, StageFacts, MoveKeeps DEF ReadActions, Goto

LEMMA SearchKeeps ==
  ASSUME IInv, NEW r \in Runs, Search(r)
  PROVE  IInv'
<1>1. pc[r] = "search" /\ pc[r] \in Running
  BY DEF Search, Running
<1>2. CASE Raise(r)
  BY <1>1, <1>2, RaiseCases, RaiseKeeps DEF Search
<1>3. CASE /\ found' = [found EXCEPT ![r] = row[r].rounds]
           /\ Goto(r, "reserve")
           /\ UNCHANGED <<row, known, answer>>
  <2>1. known[r] \subseteq Actions /\ known' = [known EXCEPT ![r] = known[r]]
    BY <1>3 DEF IInv, TypeOK
  <2>2. row[r].rounds \subseteq Actions
    BY <1>1, StageFacts DEF Snapshot
  <2>3. Progress("reserve", row[r], known[r], row[r].rounds)
    BY <1>1, StageFacts DEF Progress, Running
  <2>4. "reserve" \in Running
    BY DEF Running
  <2> QED
    BY <1>1, <1>3, <2>1, <2>2, <2>3, <2>4, MoveKeeps DEF Search, Goto
<1> QED
  BY <1>2, <1>3 DEF Search

LEMMA BuildIndexKeeps ==
  ASSUME IInv, NEW r \in Runs, BuildIndex(r)
  PROVE  IInv'
<1>1. pc[r] = "index" /\ pc[r] \in Running
  BY DEF BuildIndex, Running
<1>2. CASE Raise(r)
  BY <1>1, <1>2, RaiseCases, RaiseKeeps DEF BuildIndex
<1>3. CASE Goto(r, "reserve") /\ UNCHANGED <<row, known, found, answer>>
  <2>1. known' = [known EXCEPT ![r] = known[r]] /\ found' = [found EXCEPT ![r] = found[r]]
    BY <1>3 DEF IInv, TypeOK
  <2>2. Progress("reserve", row[r], known[r], found[r])
    BY <1>1, StageFacts DEF Progress, Running
  <2>3. "reserve" \in Running
    BY DEF Running
  <2> QED
    BY <1>1, <1>3, <2>1, <2>2, <2>3, StageFacts, MoveKeeps DEF BuildIndex, Goto
<1> QED
  BY <1>2, <1>3 DEF BuildIndex

LEMMA SaveParsedKeeps ==
  ASSUME IInv, NEW r \in Runs, SaveParsed(r)
  PROVE  IInv'
<1>1. pc[r] = "parsed" /\ pc[r] \in Running
  BY DEF SaveParsed, Running
<1> DEFINE s == [row[r] EXCEPT !.status = "PARSING"]
<1>2. SaveAuditState(r, s, "compile")
  BY DEF SaveParsed
<1>3. row[r] \in Snapshot /\ known[r] \subseteq Actions /\ found[r] \subseteq Actions
  BY <1>1, StageFacts
<1>4. s \in Snapshot
  BY <1>3, StageFacts, <1>1 DEF Snapshot, Stage
<1>5. /\ s.status = "PARSING"  /\ s.invariants = row[r].invariants
      /\ s.rounds = row[r].rounds  /\ s.candidates = row[r].candidates
      /\ s.results = row[r].results  /\ s.verdicts = row[r].verdicts
      /\ s.graph = row[r].graph  /\ s.total = row[r].total
  BY <1>1, StageFacts DEF Snapshot
<1> HIDE DEF s
<1>6. Progress("compile", s, known[r], found[r]) /\ Sound(s) /\ found[r] \subseteq s.rounds
  BY <1>1, <1>5, StageFacts DEF Progress, Sound, Running
<1>7. "compile" \in Running /\ s.status \notin Terminal
  BY <1>1, <1>5, StageFacts DEF Running, Terminal
<1>8. s.graph = NoRecords
  BY <1>1, <1>5, StageFacts DEF Progress, Running
<1> QED
  BY <1>1, <1>2, <1>4, <1>5, <1>6, <1>7, <1>8, StageFacts, SaveAuditStateKeeps

LEMMA CompileInvariantsKeeps ==
  ASSUME IInv, NEW r \in Runs, CompileInvariants(r)
  PROVE  IInv'
<1>1. pc[r] = "compile" /\ pc[r] \in Running
  BY DEF CompileInvariants, Running
<1> DEFINE s == [row[r] EXCEPT !.status = "COMPILING_INVARIANTS", !.invariants = known[r]]
<1>2. SaveAuditState(r, s, "index")
  BY DEF CompileInvariants
<1>3. row[r] \in Snapshot /\ known[r] \subseteq Actions /\ found[r] \subseteq Actions
  BY <1>1, StageFacts
<1>4. s \in Snapshot
  BY <1>3, StageFacts, <1>1 DEF Snapshot, Stage
<1>5. /\ s.status = "COMPILING_INVARIANTS"  /\ s.invariants = known[r]
      /\ s.rounds = row[r].rounds  /\ s.candidates = row[r].candidates
      /\ s.results = row[r].results  /\ s.verdicts = row[r].verdicts
      /\ s.graph = row[r].graph  /\ s.total = row[r].total
  BY <1>1, StageFacts DEF Snapshot
<1> HIDE DEF s
<1>6. Progress("index", s, known[r], found[r]) /\ Sound(s) /\ found[r] \subseteq s.rounds
  BY <1>1, <1>5, StageFacts DEF Progress, Sound, Running
<1>7. "index" \in Running /\ s.status \notin Terminal
  BY <1>1, <1>5, StageFacts DEF Running, Terminal
<1>8. s.graph = NoRecords
  BY <1>1, <1>5, StageFacts DEF Progress, Running
<1> QED
  BY <1>1, <1>2, <1>4, <1>5, <1>6, <1>7, <1>8, StageFacts, SaveAuditStateKeeps

LEMMA SaveIndexedKeeps ==
  ASSUME IInv, NEW r \in Runs, SaveIndexed(r)
  PROVE  IInv'
<1>1. pc[r] = "reserve" /\ pc[r] \in Running
  BY DEF SaveIndexed, Running
<1> DEFINE s == [row[r] EXCEPT !.status = "INDEXING", !.candidates = found[r]]
<1>2. SaveAuditState(r, s, "investigate")
  BY DEF SaveIndexed
<1>3. row[r] \in Snapshot /\ known[r] \subseteq Actions /\ found[r] \subseteq Actions
  BY <1>1, StageFacts
<1>4. s \in Snapshot
  BY <1>3, StageFacts, <1>1 DEF Snapshot, Stage
<1>5. /\ s.status = "INDEXING"  /\ s.invariants = row[r].invariants
      /\ s.rounds = row[r].rounds  /\ s.candidates = found[r]
      /\ s.results = row[r].results  /\ s.verdicts = row[r].verdicts
      /\ s.graph = row[r].graph  /\ s.total = row[r].total
  BY <1>1, StageFacts DEF Snapshot
<1> HIDE DEF s
<1>6. Progress("investigate", s, known[r], found[r]) /\ Sound(s) /\ found[r] \subseteq s.rounds
  BY <1>1, <1>5, StageFacts DEF Progress, Sound, Running, SaveIndexed, Unsearched
<1>7. "investigate" \in Running /\ s.status \notin Terminal
  BY <1>1, <1>5, StageFacts DEF Running, Terminal
<1>8. s.graph = NoRecords
  BY <1>1, <1>5, StageFacts DEF Progress, Running
<1> QED
  BY <1>1, <1>2, <1>4, <1>5, <1>6, <1>7, <1>8, StageFacts, SaveAuditStateKeeps

LEMMA AssignVerdictsKeeps ==
  ASSUME IInv, NEW r \in Runs, AssignVerdicts(r)
  PROVE  IInv'
<1>1. pc[r] = "verify" /\ pc[r] \in Running
  BY DEF AssignVerdicts, Running
<1> DEFINE s == [row[r] EXCEPT !.status = "VERIFYING", !.verdicts = known[r]]
<1>2. SaveAuditState(r, s, "graph")
  BY DEF AssignVerdicts
<1>3. row[r] \in Snapshot /\ known[r] \subseteq Actions /\ found[r] \subseteq Actions
  BY <1>1, StageFacts
<1>4. s \in Snapshot
  BY <1>3, StageFacts, <1>1 DEF Snapshot, Stage
<1>5. /\ s.status = "VERIFYING"  /\ s.invariants = row[r].invariants
      /\ s.rounds = row[r].rounds  /\ s.candidates = row[r].candidates
      /\ s.results = row[r].results  /\ s.verdicts = known[r]
      /\ s.graph = row[r].graph  /\ s.total = row[r].total
  BY <1>1, StageFacts DEF Snapshot
<1> HIDE DEF s
<1>6. Progress("graph", s, known[r], found[r]) /\ Sound(s) /\ found[r] \subseteq s.rounds
  BY <1>1, <1>5, StageFacts DEF Progress, Sound, Running
<1>7. "graph" \in Running /\ s.status \notin Terminal
  BY <1>1, <1>5, StageFacts DEF Running, Terminal
<1>8. s.graph = NoRecords
  BY <1>1, <1>5, StageFacts DEF Progress, Running
<1> QED
  BY <1>1, <1>2, <1>4, <1>5, <1>6, <1>7, <1>8, StageFacts, SaveAuditStateKeeps

LEMMA ReserveRoundKeeps ==
  ASSUME IInv, NEW r \in Runs, ReserveRound(r)
  PROVE  IInv'
<1>1. pc[r] = "reserve" /\ pc[r] \in Running
  BY DEF ReserveRound, Running
<1>2. PICK a \in Unsearched(r) :
        SaveAuditState(r, [row[r] EXCEPT !.status = "INDEXING",
                                         !.rounds = @ \cup {a},
                                         !.candidates = found[r]], "search")
  BY DEF ReserveRound
<1>3. a \in row[r].invariants \cap Supported /\ a \in Actions
  BY <1>1, StageFacts DEF Unsearched, Snapshot
<1> DEFINE s == [row[r] EXCEPT !.status = "INDEXING",
                               !.rounds = @ \cup {a},
                               !.candidates = found[r]]
<1>4. s \in Snapshot
  BY <1>1, <1>3, StageFacts DEF Snapshot, Stage
<1>5. /\ s.status = "INDEXING" /\ s.total = row[r].total
      /\ s.invariants = row[r].invariants /\ s.rounds = row[r].rounds \cup {a}
      /\ s.candidates = found[r] /\ s.results = row[r].results
      /\ s.verdicts = row[r].verdicts /\ s.graph = row[r].graph
  BY <1>1, StageFacts DEF Snapshot
<1>6. SaveAuditState(r, s, "search")
  BY <1>2
<1> HIDE DEF s
<1>7. Progress("search", s, known[r], found[r]) /\ Sound(s) /\ found[r] \subseteq s.rounds
  BY <1>1, <1>3, <1>5, StageFacts DEF Progress, Sound, Running
<1>8. "search" \in Running /\ s.status \notin Terminal
  BY <1>5 DEF Running, Terminal
<1>9. s.graph = NoRecords
  BY <1>1, <1>5, StageFacts DEF Progress, Running
<1> QED
  BY <1>1, <1>4, <1>5, <1>6, <1>7, <1>8, <1>9, StageFacts, SaveAuditStateKeeps

LEMMA InvestigateChecksKeeps ==
  ASSUME IInv, NEW r \in Runs, InvestigateChecks(r)
  PROVE  IInv'
<1>1. pc[r] = "investigate" /\ pc[r] \in Running
  BY DEF InvestigateChecks, Running
<1> DEFINE s == [row[r] EXCEPT !.status = "INVESTIGATING", !.results = row[r].invariants]
<1>2. CASE Raise(r) /\ UNCHANGED environment
  BY <1>1, <1>2, RaiseCases, RaiseKeeps
<1>3. CASE SaveAuditState(r, s, "verify")
  <2>1. s \in Snapshot
    BY <1>1, StageFacts DEF Snapshot, Stage
  <2>2. /\ s.status = "INVESTIGATING" /\ s.total = row[r].total
        /\ s.invariants = row[r].invariants /\ s.rounds = row[r].rounds
        /\ s.candidates = row[r].candidates /\ s.results = row[r].invariants
        /\ s.verdicts = row[r].verdicts /\ s.graph = row[r].graph
    BY <1>1, StageFacts DEF Snapshot
  <2> HIDE DEF s
  <2>3. Progress("verify", s, known[r], found[r]) /\ Sound(s) /\ found[r] \subseteq s.rounds
    BY <1>1, <2>2, StageFacts DEF Progress, Sound, Running
  <2>4. "verify" \in Running /\ s.status \notin Terminal
    BY <2>2 DEF Running, Terminal
  <2>5. s.graph = NoRecords
    BY <1>1, <2>2, StageFacts DEF Progress, Running
  <2> QED
    BY <1>1, <1>3, <2>1, <2>2, <2>3, <2>4, <2>5, StageFacts, SaveAuditStateKeeps
<1> QED
  BY <1>2, <1>3 DEF InvestigateChecks

LEMMA BuildEvidenceGraphKeeps ==
  ASSUME IInv, NEW r \in Runs, BuildEvidenceGraph(r)
  PROVE  IInv'
<1>1. pc[r] = "graph" /\ pc[r] \in Running
  BY DEF BuildEvidenceGraph, Running
<1> DEFINE s == [row[r] EXCEPT !.graph = RecordsOf(row[r], known[r])]
<1>2. SaveAuditState(r, s, "complete")
  BY DEF BuildEvidenceGraph
<1>3. RecordsOf(row[r], known[r]) \in Audit
  BY <1>1, StageFacts, RecordsType
<1>4. s \in Snapshot
  BY <1>1, <1>3, StageFacts DEF Snapshot
<1>5. /\ s.status = row[r].status /\ s.total = row[r].total
      /\ s.invariants = row[r].invariants /\ s.rounds = row[r].rounds
      /\ s.candidates = row[r].candidates /\ s.results = row[r].results
      /\ s.verdicts = row[r].verdicts /\ s.graph = RecordsOf(row[r], known[r])
  BY <1>1, StageFacts DEF Snapshot
<1> HIDE DEF s
<1>6. s.graph = RecordsOf(s, known[r])
  BY <1>5, SameRecords
<1>7. s.status \notin Terminal /\ s.status # "COMPLETE"
  BY <1>1, <1>5, StageFacts DEF Terminal
<1>8. Progress("complete", s, known[r], found[r]) /\ Sound(s) /\ found[r] \subseteq s.rounds
  BY <1>1, <1>5, <1>6, <1>7, StageFacts DEF Progress, Sound, Running
<1>9. "complete" \in Running
  BY DEF Running
<1> QED
  BY <1>1, <1>2, <1>4, <1>5, <1>6, <1>7, <1>8, <1>9, StageFacts, SaveAuditStateKeeps

(* The last save and the answer. *)
LEMMA PersistCompletionKeeps ==
  ASSUME IInv, NEW r \in Runs, PersistCompletion(r)
  PROVE  IInv'
<1>1. pc[r] = "complete" /\ pc[r] \in Running
  BY DEF PersistCompletion, Running
<1> DEFINE s == [row[r] EXCEPT !.status = "COMPLETE"]
<1>2. CASE Raise(r) /\ UNCHANGED environment
  BY <1>1, <1>2, RaiseCases, RaiseKeeps, StageFacts
<1>3. CASE Fault(r)
  <2>1. Raised(r)
    BY <1>3 DEF Fault, Raise, Raised, Goto, EnvironmentOf
  <2> QED
    BY <1>1, <2>1, RaiseKeeps, StageFacts
<1>4. CASE /\ Valid(s, known[r])
           /\ row' = [row EXCEPT ![r] = s]
           /\ answer' = [answer EXCEPT ![r] = "COMPLETE"]
           /\ Goto(r, "done")
           /\ UNCHANGED <<known, found, environment>>
  <2>1. s \in Snapshot
    BY <1>1, StageFacts DEF Snapshot, Terminal
  <2>2. /\ s.status = "COMPLETE" /\ s.total = row[r].total
        /\ s.invariants = row[r].invariants /\ s.rounds = row[r].rounds
        /\ s.candidates = row[r].candidates /\ s.results = row[r].results
        /\ s.verdicts = row[r].verdicts /\ s.graph = row[r].graph
    BY <1>1, StageFacts DEF Snapshot
  <2>3. known[r] = actions /\ s.invariants \subseteq actions
    BY <1>4, ValidKnows
  <2>4. row'[r] = s /\ pc'[r] = "done" /\ answer'[r] = "COMPLETE"
        /\ known'[r] = known[r] /\ found'[r] = found[r]
        /\ actions' = actions /\ charged' = charged /\ saves' = saves /\ faults' = faults
    BY <1>4 DEF Goto, environment, IInv, TypeOK
  <2>5. TypeOK'
    BY <1>4, <2>1 DEF IInv, TypeOK, Goto, environment, Steps, Terminal
  <2>6. StepOf(r)
    BY <1>4 DEF StepOf, EnvironmentOf, Goto, environment, IInv, TypeOK
  <2> HIDE DEF s
  <2>7. s # NoRow
    BY <2>1, SnapshotIsNotNoRow
  <2>8. /\ s.results = s.invariants /\ s.verdicts = s.invariants /\ s.invariants = known[r]
        /\ s.rounds = s.invariants \cap Supported /\ s.candidates = s.rounds
    BY <1>1, <2>2, StageFacts DEF Progress, Running
  <2>9. s.graph = RecordsOf(s, s.invariants)
    <3>1. row[r].graph = RecordsOf(row[r], known[r])
      BY <1>1, StageFacts DEF Progress
    <3>2. RecordsOf(s, known[r]) = RecordsOf(row[r], known[r])
      BY <2>2, SameRecords
    <3> QED
      BY <2>2, <2>8, <3>1, <3>2
  <2>10. Sound(s) /\ found[r] \subseteq s.rounds
    BY <1>1, <2>2, <2>8, <2>9, StageFacts DEF Sound
  <2>11. RunOK("done", s, known[r], found[r], "COMPLETE")
    BY <2>2, <2>7, <2>10 DEF RunOK, Progress, Running, Terminal
  <2>12. RowPinned(r)'
    BY <2>3, <2>4 DEF RowPinned
  <2>13. NoEscape(r)'
    BY <2>4 DEF NoEscape
  <2>14. saves = 0 => s.total = Cardinality(actions)
    BY <1>1, <2>2, StageFacts
  <2>15. s.verdicts = actions /\ s.graph = RecordsOf(s, actions)
    BY <2>3, <2>8, <2>9
  <2>16. Undisturbed(r)'
    BY <2>4, <2>14, <2>15 DEF Undisturbed
  <2>17. RunInv(r)'
    BY <2>4, <2>11, <2>12, <2>13, <2>16 DEF RunInv
  <2> QED
    BY <2>5, <2>6, <2>17, OthersKeep
<1> QED
  BY <1>2, <1>3, <1>4 DEF PersistCompletion

-----------------------------------------------------------------------------
(* The exception handler *)

(* An exception of the handler ends the request; it needs a reason. *)
LEMMA EscapeKeeps ==
  ASSUME IInv, NEW r \in Runs, Escape(r), EnvironmentOf(r), pc[r] \in Failing,
         saves # 0 \/ faults' # 0
  PROVE  IInv'
<1>1. TypeOK'
  BY BoundsAssumption DEF IInv, TypeOK, Escape, Goto, EnvironmentOf, Steps
<1>2. StepOf(r)
  BY DEF StepOf, Escape, Goto, IInv, TypeOK
<1>3. pc'[r] = "done" /\ row'[r] = row[r] /\ known'[r] = known[r]
      /\ found'[r] = found[r] /\ answer'[r] = "error"
      /\ actions' = actions /\ charged' = charged /\ saves' = saves
  BY DEF Escape, Goto, EnvironmentOf, IInv, TypeOK
<1>4. RunInv(r)
  BY DEF IInv
<1>5. RunOK("done", row[r], known[r], found[r], "error")
  BY <1>4 DEF RunInv, RunOK, Progress, Running, Failing, Terminal
<1>6. NoEscape(r)'
  BY <1>3 DEF NoEscape
<1>7. RowPinned(r)' /\ Undisturbed(r)'
  BY <1>3, <1>4 DEF RunInv, RowPinned, Undisturbed, Failing
<1>8. RunInv(r)'
  BY <1>3, <1>5, <1>6, <1>7 DEF RunInv
<1> QED
  BY <1>1, <1>2, <1>8, OthersKeep

(* Undisturbed, the handler finds a snapshot that is still valid. *)
LEMMA HandlerFinds ==
  ASSUME IInv, NEW r \in Runs, pc[r] \in Failing
  PROVE  /\ row[r] \in Snapshot \/ (row[r] = NoRow /\ found[r] = {})
         /\ row[r] # NoRow => /\ Sound(row[r]) /\ found[r] \subseteq row[r].rounds
                              /\ row[r].status \notin Terminal
         /\ answer[r] = "none"
         /\ row[r] # NoRow => row[r].invariants \subseteq actions
         /\ saves = 0 => /\ known[r] = actions
                         /\ row[r] # NoRow =>
                              /\ row[r].total = Cardinality(actions)
                              /\ row[r].graph = NoRecords \/ row[r].graph = RecordsOf(row[r], actions)
<1>1. RunInv(r) /\ row[r] \in Snapshot \cup {NoRow}
  BY DEF IInv, TypeOK
<1>2. pc[r] # "done" /\ pc[r] \notin {"idle", "done"}
  BY DEF Failing
<1>3. RunOK(pc[r], row[r], known[r], found[r], answer[r])
  BY <1>1 DEF RunInv
<1>4. row[r] # NoRow => row[r].invariants \subseteq actions
  BY <1>1 DEF RunInv, RowPinned
<1>5. saves = 0 => /\ known[r] = actions
                   /\ row[r] # NoRow =>
                        /\ row[r].total = Cardinality(actions)
                        /\ row[r].graph = NoRecords \/ row[r].graph = RecordsOf(row[r], actions)
  BY <1>1, <1>2 DEF RunInv, Undisturbed
<1> QED
  BY <1>1, <1>2, <1>3, <1>4, <1>5 DEF RunOK

LEMMA ReloadKeeps ==
  ASSUME IInv, NEW r \in Runs, Reload(r)
  PROVE  IInv'
<1>1. pc[r] = "reload" /\ pc[r] \in Failing
  BY DEF Reload, Failing
<1>2. TypeOK'
  BY DEF IInv, TypeOK, Reload, Goto, environment, Steps
<1>3. StepOf(r)
  BY DEF StepOf, EnvironmentOf, Reload, Goto, environment, IInv, TypeOK
<1>4. /\ pc'[r] \in {"fail", "validate"} /\ known'[r] \in {known[r], actions}
      /\ pc'[r] = "validate" => row[r] # NoRow
      /\ row'[r] = row[r] /\ found'[r] = found[r] /\ answer'[r] = answer[r]
      /\ actions' = actions /\ charged' = charged /\ saves' = saves /\ faults' = faults
  BY DEF Reload, Goto, environment, IInv, TypeOK
<1>5. RunInv(r)
  BY DEF IInv
<1>6. RunOK(pc'[r], row[r], known'[r], found[r], answer[r])
  BY <1>1, <1>4, <1>5 DEF RunInv, RunOK, Progress, Running
<1>7. Undisturbed(r)'
  BY <1>1, <1>4, <1>5 DEF RunInv, Undisturbed
<1>8. RowPinned(r)' /\ NoEscape(r)'
  BY <1>4, <1>5 DEF RunInv, RowPinned, NoEscape
<1>9. RunInv(r)'
  BY <1>4, <1>6, <1>7, <1>8 DEF RunInv
<1> QED
  BY <1>2, <1>3, <1>9, OthersKeep

LEMMA ValidateReloadedKeeps ==
  ASSUME IInv, NEW r \in Runs, ValidateReloaded(r)
  PROVE  IInv'
<1>1. pc[r] = "validate" /\ pc[r] \in Failing /\ EnvironmentOf(r)
      /\ saves' = saves /\ faults' = faults
  BY DEF ValidateReloaded, Failing, EnvironmentOf, environment
<1>2. RunInv(r)
  BY DEF IInv
<1>3. row[r] # NoRow
  BY <1>1, <1>2 DEF RunInv, RunOK, Progress
<1>4. CASE Valid(row[r], known[r])
  <2>1. Goto(r, "fail") /\ UNCHANGED <<row, known, found, answer, environment>>
    BY <1>4 DEF ValidateReloaded
  <2>2. TypeOK'
    BY <2>1 DEF IInv, TypeOK, Goto, environment, Steps
  <2>3. StepOf(r)
    BY <2>1 DEF StepOf, EnvironmentOf, Goto, environment, IInv, TypeOK
  <2>4. /\ pc'[r] = "fail" /\ row'[r] = row[r] /\ known'[r] = known[r]
        /\ found'[r] = found[r] /\ answer'[r] = answer[r]
        /\ actions' = actions /\ charged' = charged /\ saves' = saves /\ faults' = faults
    BY <2>1 DEF Goto, environment, IInv, TypeOK
  <2>5. RunOK("fail", row[r], known[r], found[r], answer[r])
    BY <1>1, <1>2 DEF RunInv, RunOK, Progress, Running
  <2>6. RowPinned(r)' /\ Undisturbed(r)' /\ NoEscape(r)'
    BY <1>1, <1>2, <2>4 DEF RunInv, RowPinned, Undisturbed, NoEscape
  <2>7. RunInv(r)'
    BY <2>4, <2>5, <2>6 DEF RunInv
  <2> QED
    BY <2>2, <2>3, <2>7, OthersKeep
<1>5. CASE ~ Valid(row[r], known[r])
  <2>1. Escape(r)
    BY <1>5 DEF ValidateReloaded
  <2>2. ASSUME saves = 0 PROVE FALSE
    <3>1. row[r].status # "COMPLETE"
      BY <1>1, <1>3, HandlerFinds DEF Terminal
    <3>2. Valid(row[r], actions)
      BY <1>1, <1>3, <2>2, <3>1, HandlerFinds, SoundIsValid
    <3> QED
      BY <1>1, <1>5, <2>2, <3>2, HandlerFinds
  <2> QED
    BY <1>1, <2>1, <2>2, EscapeKeeps
<1> QED
  BY <1>4, <1>5

(* What the handler stores: the snapshot it found, or the initial one. *)
LEMMA FailedSnapshot ==
  ASSUME IInv, NEW r \in Runs, pc[r] = "fail",
         NEW s, s = [(IF row[r] = NoRow THEN Initial(known[r]) ELSE row[r]) EXCEPT !.status = "FAILED"]
  PROVE  /\ s \in Snapshot /\ s.status = "FAILED" /\ Sound(s) /\ found[r] \subseteq s.rounds
         /\ saves = 0 => /\ known[r] = actions /\ s.invariants \subseteq actions
                         /\ s.total = Cardinality(actions)
                         /\ s.graph = NoRecords \/ s.graph = RecordsOf(s, actions)
<1>1. pc[r] \in Failing
  BY DEF Failing
<1>2. CASE row[r] = NoRow
  <2>1. known[r] \subseteq Actions
    BY DEF IInv, TypeOK
  <2>2. Cardinality(known[r]) \in Nat
    BY <2>1, ActionsAssumption, FS_Subset, FS_CardinalityType
  <2>3. s = [Initial(known[r]) EXCEPT !.status = "FAILED"]
    BY <1>2
  <2>4. s \in Snapshot
    BY <2>2, <2>3 DEF Initial, Snapshot, Terminal
  <2>5. /\ s.status = "FAILED" /\ s.total = Cardinality(known[r]) /\ s.graph = NoRecords
        /\ s.invariants = {} /\ s.rounds = {} /\ s.candidates = {} /\ s.results = {} /\ s.verdicts = {}
    BY <2>3 DEF Initial
  <2>6. Sound(s)
    BY <2>5 DEF Sound
  <2>7. found[r] = {}
    BY <1>1, <1>2, HandlerFinds, SnapshotIsNotNoRow
  <2> QED
    BY <1>1, <2>4, <2>5, <2>6, <2>7, HandlerFinds
<1>3. CASE row[r] # NoRow
  <2>1. row[r] \in Snapshot
    BY <1>1, <1>3, HandlerFinds
  <2>2. s = [row[r] EXCEPT !.status = "FAILED"]
    BY <1>3
  <2>3. s \in Snapshot
    BY <2>1, <2>2 DEF Snapshot, Terminal
  <2>4. /\ s.status = "FAILED" /\ s.total = row[r].total
        /\ s.invariants = row[r].invariants /\ s.rounds = row[r].rounds
        /\ s.candidates = row[r].candidates /\ s.results = row[r].results
        /\ s.verdicts = row[r].verdicts /\ s.graph = row[r].graph
    BY <2>1, <2>2 DEF Snapshot
  <2>5. RecordsOf(s, actions) = RecordsOf(row[r], actions)
    BY <2>4 DEF RecordsOf, Candidates, Checked
  <2>6. Sound(s) /\ found[r] \subseteq s.rounds
    BY <1>1, <1>3, <2>4, HandlerFinds DEF Sound
  <2> QED
    BY <1>1, <1>3, <2>3, <2>4, <2>5, <2>6, HandlerFinds
<1> QED
  BY <1>2, <1>3

LEMMA SaveFailedKeeps ==
  ASSUME IInv, NEW r \in Runs, SaveFailed(r)
  PROVE  IInv'
<1>1. pc[r] = "fail" /\ pc[r] \in Failing
  BY DEF SaveFailed, Failing
<1> DEFINE s == [(IF row[r] = NoRow THEN Initial(known[r]) ELSE row[r]) EXCEPT !.status = "FAILED"]
<1>2. /\ s \in Snapshot /\ s.status = "FAILED" /\ Sound(s) /\ found[r] \subseteq s.rounds
      /\ saves = 0 => /\ known[r] = actions /\ s.invariants \subseteq actions
                      /\ s.total = Cardinality(actions)
                      /\ s.graph = NoRecords \/ s.graph = RecordsOf(s, actions)
  BY <1>1, FailedSnapshot
<1>3. \/ /\ Valid(s, known[r])
         /\ row' = [row EXCEPT ![r] = s]
         /\ answer' = [answer EXCEPT ![r] = "FAILED"]
         /\ Goto(r, "done")
         /\ UNCHANGED <<known, found, environment>>
      \/ /\ ~ Valid(s, known[r])
         /\ Escape(r)
         /\ UNCHANGED environment
      \/ /\ faults < MaxFaults
         /\ faults' = faults + 1
         /\ Escape(r)
         /\ UNCHANGED <<actions, charged, saves, crashes>>
  BY DEF SaveFailed
<1> HIDE DEF s
<1>4. CASE /\ Valid(s, known[r])
           /\ row' = [row EXCEPT ![r] = s]
           /\ answer' = [answer EXCEPT ![r] = "FAILED"]
           /\ Goto(r, "done")
           /\ UNCHANGED <<known, found, environment>>
  <2>1. known[r] = actions /\ s.invariants \subseteq actions
    BY <1>4, ValidKnows
  <2>2. row'[r] = s /\ pc'[r] = "done" /\ answer'[r] = "FAILED"
        /\ known'[r] = known[r] /\ found'[r] = found[r]
        /\ actions' = actions /\ charged' = charged /\ saves' = saves /\ faults' = faults
    BY <1>4 DEF Goto, environment, IInv, TypeOK
  <2>3. TypeOK'
    BY <1>2, <1>4 DEF IInv, TypeOK, Goto, environment, Steps, Terminal
  <2>4. StepOf(r)
    BY <1>4 DEF StepOf, EnvironmentOf, Goto, environment, IInv, TypeOK
  <2>5. RunOK("done", s, known[r], found[r], "FAILED")
    BY <1>2, SnapshotIsNotNoRow DEF RunOK, Progress, Running, Terminal
  <2>6. RowPinned(r)' /\ NoEscape(r)'
    BY <2>1, <2>2 DEF RowPinned, NoEscape
  <2>7. Undisturbed(r)'
    BY <1>2, <2>2 DEF Undisturbed
  <2>8. RunInv(r)'
    BY <2>2, <2>5, <2>6, <2>7 DEF RunInv
  <2> QED
    BY <2>3, <2>4, <2>8, OthersKeep
<1>5. CASE ~ Valid(s, known[r]) /\ Escape(r) /\ UNCHANGED environment
  <2>1. saves # 0
    BY <1>2, <1>5, SoundIsValid
  <2>2. EnvironmentOf(r)
    BY <1>5 DEF EnvironmentOf, environment
  <2> QED
    BY <1>1, <1>5, <2>1, <2>2, EscapeKeeps
<1>6. CASE /\ faults < MaxFaults
           /\ faults' = faults + 1
           /\ Escape(r)
           /\ UNCHANGED <<actions, charged, saves, crashes>>
  <2>1. EnvironmentOf(r) /\ faults' # 0
    BY <1>6 DEF EnvironmentOf, IInv, TypeOK
  <2> QED
    BY <1>1, <1>6, <2>1, EscapeKeeps
<1> QED
  BY <1>3, <1>4, <1>5, <1>6

-----------------------------------------------------------------------------
(* The environment *)

LEMMA SaveIncidentKeeps ==
  ASSUME IInv, SaveIncident
  PROVE  IInv'
<1>1. TypeOK'
  BY BoundsAssumption DEF IInv, TypeOK, SaveIncident, run
<1>2. saves' # 0
  BY BoundsAssumption DEF IInv, TypeOK, SaveIncident
<1>3. Pinned \subseteq actions'
  BY DEF SaveIncident
<1> SUFFICES ASSUME NEW r \in Runs PROVE RunInv(r)'
  BY <1>1 DEF IInv
<1>4. RunInv(r) /\ UNCHANGED <<row, pc, known, found, answer>>
  BY DEF IInv, SaveIncident, run
<1>5. RowPinned(r)'
  BY <1>3, <1>4 DEF RowPinned, Pinned
<1>6. Undisturbed(r)' /\ NoEscape(r)'
  BY <1>2 DEF Undisturbed, NoEscape
<1> QED
  BY <1>4, <1>5, <1>6 DEF RunInv

LEMMA CrashKeeps ==
  ASSUME IInv, Crash
  PROVE  IInv'
<1>1. TypeOK'
  BY BoundsAssumption DEF IInv, TypeOK, Crash, Steps
<1> SUFFICES ASSUME NEW r \in Runs PROVE RunInv(r)'
  BY <1>1 DEF IInv
<1>2. RunInv(r)
  BY DEF IInv
<1>3. pc'[r] = IF pc[r] = "idle" THEN "idle" ELSE "done"
  BY DEF Crash
<1>4. UNCHANGED <<row, known, found, answer, actions, charged, saves, faults>>
  BY DEF Crash
<1>5. RunOK(pc[r], row[r], known[r], found[r], answer[r])
      => RunOK("done", row[r], known[r], found[r], answer[r]) \/ pc[r] = "idle"
  BY DEF RunOK, Progress, Running
<1>6. RunOK(pc'[r], row[r], known[r], found[r], answer[r])
  BY <1>2, <1>3, <1>5 DEF RunInv
<1>7. RowPinned(r)' /\ Undisturbed(r)' /\ NoEscape(r)'
  BY <1>2, <1>3, <1>4 DEF RunInv, RowPinned, Undisturbed, NoEscape
<1> QED
  BY <1>4, <1>6, <1>7 DEF RunInv

LEMMA StutterKeeps ==
  ASSUME IInv, UNCHANGED vars
  PROVE  IInv'
<1>1. UNCHANGED <<row, pc, known, found, answer, actions, charged, saves, faults, crashes>>
  BY DEF vars, run, environment
<1>2. TypeOK'
  BY <1>1 DEF IInv, TypeOK
<1> SUFFICES ASSUME NEW r \in Runs PROVE RunInv(r)'
  BY <1>2 DEF IInv
<1>3. RunInv(r)
  BY DEF IInv
<1> QED
  BY <1>1, <1>3 DEF RunInv, RowPinned, Undisturbed, NoEscape

-----------------------------------------------------------------------------
(* The invariant *)

LEMMA InitHolds == Init => IInv
<1> SUFFICES ASSUME Init PROVE IInv
  OBVIOUS
<1>1. TypeOK
  BY BoundsAssumption DEF Init, TypeOK, Steps
<1> SUFFICES ASSUME NEW r \in Runs PROVE RunInv(r)
  BY <1>1 DEF IInv
<1>2. row[r] = NoRow /\ pc[r] = "idle" /\ found[r] = {} /\ answer[r] = "none"
  BY DEF Init
<1>3. RunOK("idle", NoRow, known[r], {}, "none")
  BY DEF RunOK, Progress, Running, Terminal
<1> QED
  BY <1>2, <1>3 DEF RunInv, RowPinned, Undisturbed, NoEscape

LEMMA ContinueKeeps ==
  ASSUME IInv, NEW r \in Runs, Continue(r)
  PROVE  IInv'
BY SaveInitialKeeps, ReadActionsKeeps, SaveParsedKeeps, CompileInvariantsKeeps,
   BuildIndexKeeps, ReserveRoundKeeps, SearchKeeps, SaveIndexedKeeps,
   InvestigateChecksKeeps, AssignVerdictsKeeps, BuildEvidenceGraphKeeps,
   PersistCompletionKeeps, ReloadKeeps, ValidateReloadedKeeps, SaveFailedKeeps
   DEF Continue

LEMMA NextKeeps == IInv /\ [Next]_vars => IInv'
<1> SUFFICES ASSUME IInv, [Next]_vars PROVE IInv'
  OBVIOUS
<1>1. ASSUME NEW r \in Runs, Start(r) \/ Continue(r) PROVE IInv'
  BY <1>1, StartKeeps, ContinueKeeps
<1>2. CASE Quiet \/ UNCHANGED vars
  BY <1>2, StutterKeeps DEF Quiet
<1> QED
  BY <1>1, <1>2, SaveIncidentKeeps, CrashKeeps DEF Next

LEMMA Invariance == Spec => []IInv
BY InitHolds, NextKeeps, PTL DEF Spec

-----------------------------------------------------------------------------
(* The properties *)

LEMMA ImpliesRoundsReserved == IInv => RoundsReserved
BY DEF IInv, RunInv, RunOK, RoundsReserved

LEMMA ImpliesCompleteIsWhole == IInv => CompleteIsWhole
BY DEF IInv, RunInv, RunOK, Sound, CompleteIsWhole, Stored

LEMMA ImpliesAnswerStored == IInv => AnswerStored
BY DEF IInv, RunInv, RunOK, AnswerStored, Stored

LEMMA ImpliesSafeFailure == IInv => SafeFailure
BY BoundsAssumption DEF IInv, TypeOK, RunInv, NoEscape, SafeFailure

LEMMA ImpliesRowsKeepActions == IInv => RowsKeepActions
<1> SUFFICES ASSUME IInv, NEW r \in Runs, row[r] # NoRow
             PROVE  row[r].invariants \cup row[r].verdicts \subseteq actions
  BY DEF RowsKeepActions, Stored
<1>1. RunInv(r)
  BY DEF IInv
<1>2. row[r].invariants \subseteq actions
  BY <1>1 DEF RunInv, RowPinned
<1>3. row[r].verdicts \subseteq row[r].invariants
  BY <1>1 DEF RunInv, RunOK, Sound
<1> QED
  BY <1>2, <1>3

LEMMA ImpliesTotalsAgree == IInv => TotalsAgree
BY DEF IInv, RunInv, Undisturbed, TotalsAgree, Stored

(* Only a run that is under way changes its row, and into a snapshot. *)
LEMMA RowChanges ==
  ASSUME IInv, IInv', [Next]_vars, NEW r \in Runs, row'[r] # row[r]
  PROVE  pc[r] # "done" /\ row'[r] # NoRow
<1>1. ASSUME NEW q \in Runs, Start(q) PROVE FALSE
  BY <1>1 DEF Start
<1>2. ASSUME NEW q \in Runs, Continue(q)
      PROVE  pc[r] # "done" /\ (pc'[r] \in Running \/ answer'[r] \in Terminal)
  <2>1. ASSUME NEW s, NEW next \in Running, SaveAuditState(q, s, next), pc[q] # "done"
        PROVE  pc[r] # "done" /\ pc'[r] \in Running
    <3>1. Saved(q, s, next)
      BY <2>1, SaveCases DEF Raised
    <3>2. r = q
      BY <3>1 DEF Saved, IInv, TypeOK
    <3> QED
      BY <2>1, <3>1, <3>2 DEF Saved, IInv, TypeOK
  <2>2. CASE ReadActions(q) \/ BuildIndex(q) \/ Search(q) \/ Reload(q) \/ ValidateReloaded(q)
    BY <2>2 DEF ReadActions, BuildIndex, Search, Reload, ValidateReloaded, Raise, Escape
  <2>3. CASE PersistCompletion(q) \/ SaveFailed(q)
    <3>1. pc[q] # "done" /\ \E s : row' = [row EXCEPT ![q] = s]
      BY <2>3 DEF PersistCompletion, SaveFailed, Raise, Fault, Escape
    <3>2. r = q
      BY <3>1 DEF IInv, TypeOK
    <3>3. answer'[q] \in Terminal
      BY <2>3, <3>2 DEF PersistCompletion, SaveFailed, Raise, Fault, Escape, IInv, TypeOK, Terminal
    <3> QED
      BY <3>1, <3>2, <3>3
  <2>4. CASE SaveInitial(q)
    BY <2>1, <2>4 DEF SaveInitial, Running
  <2>5. CASE SaveParsed(q) \/ CompileInvariants(q) \/ AssignVerdicts(q) \/ BuildEvidenceGraph(q)
    BY <2>1, <2>5 DEF SaveParsed, CompileInvariants, AssignVerdicts, BuildEvidenceGraph, Running
  <2>6. CASE ReserveRound(q) \/ SaveIndexed(q)
    BY <2>1, <2>6 DEF ReserveRound, SaveIndexed, Running
  <2>7. CASE InvestigateChecks(q)
    BY <2>1, <2>7 DEF InvestigateChecks, Raise, Running
  <2> QED
    BY <1>2, <2>2, <2>3, <2>4, <2>5, <2>6, <2>7 DEF Continue
<1>3. ~ (SaveIncident \/ Crash \/ Quiet \/ UNCHANGED vars)
  BY DEF SaveIncident, Crash, Quiet, vars, run
<1>4. pc[r] # "done" /\ (pc'[r] \in Running \/ answer'[r] \in Terminal)
  BY <1>1, <1>2, <1>3 DEF Next
<1>5. pc'[r] \in Running => row'[r] \in Snapshot
  BY DEF IInv, TypeOK, Running
<1>6. answer'[r] \in Terminal => row'[r] # NoRow
  BY DEF IInv, RunInv, RunOK
<1> QED
  BY <1>4, <1>5, <1>6, SnapshotIsNotNoRow

(* Every state is of the declared type, for any runs, actions and bounds. *)
THEOREM TypeCorrect == Spec => []TypeOK
BY Invariance, PTL DEF IInv

(* No candidate is retrieved before its round is in the stored budget, so a *)
(* crash never gives a round back (workflow.py, _retrieve_candidates).      *)
THEOREM RoundsReservedCorrect == Spec => []RoundsReserved
BY Invariance, ImpliesRoundsReserved, PTL

(* A stored COMPLETE run has results, verdicts, rounds, candidates and a    *)
(* graph for all of its invariants, whatever failed or changed before it.   *)
THEOREM CompleteIsWholeCorrect == Spec => []CompleteIsWhole
BY Invariance, ImpliesCompleteIsWhole, PTL

(* The status a request answers is the one that is stored: both the last    *)
(* save and the handler of run() save before they return.                   *)
THEOREM AnswerStoredCorrect == Spec => []AnswerStored
BY Invariance, ImpliesAnswerStored, PTL

(* An exception leaves run() only after a resubmission, an error of the     *)
(* store or for a budget above this server's limit.                         *)
THEOREM SafeFailureCorrect == Spec => []SafeFailure
BY Invariance, ImpliesSafeFailure, PTL

(* The validation of a save and the foreign keys that stop a resubmission   *)
(* keep every stored invariant and verdict on an action that exists.        *)
THEOREM RowsKeepActionsCorrect == Spec => []RowsKeepActions
BY Invariance, ImpliesRowsKeepActions, PTL

(* Without a resubmission, a COMPLETE run's total is its verdicts' number.  *)
THEOREM TotalsAgreeCorrect == Spec => []TotalsAgree
BY Invariance, ImpliesTotalsAgree, PTL

(* The handler never overwrites a terminal run, and no row disappears.      *)
THEOREM TerminalFinalCorrect == Spec => TerminalFinal
<1>1. IInv /\ IInv' /\ [Next]_vars => [KeepTerminal]_vars
  <2> SUFFICES ASSUME IInv, IInv', [Next]_vars, NEW r \in Runs, row[r] # NoRow
               PROVE  /\ row'[r] # NoRow
                      /\ row[r].status \in Terminal => row'[r] = row[r]
    BY DEF KeepTerminal, Stored
  <2>1. row[r].status \in Terminal => pc[r] = "done"
    BY DEF IInv, RunInv, RunOK
  <2> QED
    BY <2>1, RowChanges
<1> QED
  BY <1>1, Invariance, PTL DEF Spec, TerminalFinal

-----------------------------------------------------------------------------
(* Reads beside the audit (SnapshotReader) *)

(* A stored graph is of the run's own records, and of all its checks. *)
GraphIsOwn(r) ==
  row[r] # NoRow /\ row[r].graph # NoRecords =>
    /\ row[r].graph = RecordsOf(row[r], row[r].graph.actions)
    /\ row[r].results = row[r].invariants

(* Two snapshots that show the same records and graph. *)
SameShown(s, t) ==
  /\ t.invariants = s.invariants /\ t.candidates = s.candidates
  /\ t.results = s.results /\ t.verdicts = s.verdicts /\ t.graph = s.graph

(* A row changes at a stage, where there is no graph yet, or with the last  *)
(* save of the run, which changes the status alone.                         *)
LEMMA RowSteps ==
  ASSUME IInv, [Next]_vars, NEW r \in Runs, row'[r] # row[r]
  PROVE  \/ pc'[r] \in Running /\ (row[r] = NoRow \/ row[r].graph = NoRecords)
         \/ row[r] = NoRow /\ row'[r].graph = NoRecords /\ row'[r].invariants = {}
         \/ row[r] # NoRow /\ SameShown(row[r], row'[r])
<1> DEFINE Conclusion == \/ pc'[r] \in Running /\ (row[r] = NoRow \/ row[r].graph = NoRecords)
                         \/ row[r] = NoRow /\ row'[r].graph = NoRecords /\ row'[r].invariants = {}
                         \/ row[r] # NoRow /\ SameShown(row[r], row'[r])
<1>1. ASSUME NEW q \in Runs, Start(q) PROVE FALSE
  BY <1>1 DEF Start
<1>2. ASSUME NEW q \in Runs, Continue(q) PROVE Conclusion
  <2>1. ASSUME NEW s, NEW next \in Running, SaveAuditState(q, s, next),
               pc[q] \in {"begin"} \cup (Running \ {"complete"})
        PROVE  Conclusion
    <3>1. Saved(q, s, next)
      BY <2>1, SaveCases DEF Raised
    <3>2. r = q /\ pc'[r] = next
      BY <3>1 DEF Saved, IInv, TypeOK
    <3>3. row[r] = NoRow \/ row[r].graph = NoRecords
      BY <2>1, <3>2 DEF IInv, RunInv, RunOK, Progress
    <3> QED
      BY <2>1, <3>2, <3>3
  <2>2. CASE ReadActions(q) \/ BuildIndex(q) \/ Search(q) \/ Reload(q) \/ ValidateReloaded(q)
    BY <2>2 DEF ReadActions, BuildIndex, Search, Reload, ValidateReloaded, Raise, Escape
  <2>3. CASE PersistCompletion(q)
    <3>1. row' = [row EXCEPT ![q] = [row[q] EXCEPT !.status = "COMPLETE"]]
      BY <2>3 DEF PersistCompletion, Raise, Fault
    <3>2. r = q
      BY <3>1 DEF IInv, TypeOK
    <3>3. row[r] \in Snapshot
      BY <2>3, <3>2 DEF PersistCompletion, IInv, TypeOK
    <3>4. row'[r] = [row[r] EXCEPT !.status = "COMPLETE"]
      BY <3>1, <3>2 DEF IInv, TypeOK
    <3>5. SameShown(row[r], row'[r])
      BY <3>3, <3>4 DEF SameShown, Snapshot
    <3> QED
      BY <3>3, <3>5, SnapshotIsNotNoRow
  <2>4. CASE SaveFailed(q)
    <3>1. row' = [row EXCEPT ![q] = [(IF row[q] = NoRow THEN Initial(known[q]) ELSE row[q])
                                       EXCEPT !.status = "FAILED"]]
      BY <2>4 DEF SaveFailed, Escape
    <3>2. r = q
      BY <3>1 DEF IInv, TypeOK
    <3>3. row'[r] = [(IF row[r] = NoRow THEN Initial(known[r]) ELSE row[r])
                       EXCEPT !.status = "FAILED"]
      BY <3>1, <3>2 DEF IInv, TypeOK
    <3>4. CASE row[r] = NoRow
      BY <3>3, <3>4 DEF Initial
    <3>5. CASE row[r] # NoRow
      <4>1. row[r] \in Snapshot
        BY <3>5 DEF IInv, TypeOK
      <4>2. SameShown(row[r], row'[r])
        BY <3>3, <3>5, <4>1 DEF SameShown, Snapshot
      <4> QED
        BY <3>5, <4>2
    <3> QED
      BY <3>4, <3>5
  <2>5. CASE SaveInitial(q)
    BY <2>1, <2>5 DEF SaveInitial, Running
  <2>6. CASE SaveParsed(q) \/ CompileInvariants(q) \/ AssignVerdicts(q) \/ BuildEvidenceGraph(q)
    BY <2>1, <2>6 DEF SaveParsed, CompileInvariants, AssignVerdicts, BuildEvidenceGraph, Running
  <2>7. CASE ReserveRound(q) \/ SaveIndexed(q)
    BY <2>1, <2>7 DEF ReserveRound, SaveIndexed, Running
  <2>8. CASE InvestigateChecks(q)
    BY <2>1, <2>8 DEF InvestigateChecks, Raise, Running
  <2> QED
    BY <1>2, <2>2, <2>3, <2>4, <2>5, <2>6, <2>7, <2>8 DEF Continue
<1>3. ~ (SaveIncident \/ Crash \/ Quiet \/ UNCHANGED vars)
  BY DEF SaveIncident, Crash, Quiet, vars, run
<1> QED
  BY <1>1, <1>2, <1>3 DEF Next

LEMMA GraphStaysOwn ==
  ASSUME IInv, IInv', [Next]_vars, NEW r \in Runs, GraphIsOwn(r)
  PROVE  GraphIsOwn(r)'
<1> SUFFICES ASSUME row'[r] # NoRow, row'[r].graph # NoRecords
             PROVE  /\ row'[r].graph = RecordsOf(row'[r], row'[r].graph.actions)
                    /\ row'[r].results = row'[r].invariants
  BY DEF GraphIsOwn
<1>1. CASE row'[r] = row[r]
  BY <1>1 DEF GraphIsOwn
<1>2. CASE row'[r] # row[r] /\ pc'[r] \in Running
  <2>1. Progress(pc'[r], row'[r], known'[r], found'[r])
    BY DEF IInv, RunInv, RunOK
  <2>2. row'[r].graph = RecordsOf(row'[r], known'[r]) /\ row'[r].results = row'[r].invariants
    BY <1>2, <2>1 DEF Progress
  <2>3. row'[r].graph.actions = known'[r]
    BY <2>2 DEF RecordsOf
  <2> QED
    BY <2>2, <2>3
<1>3. CASE row'[r] # row[r] /\ pc'[r] \notin Running
  <2>1. row[r] # NoRow /\ SameShown(row[r], row'[r])
    BY <1>3, RowSteps
  <2>2. row[r].graph = RecordsOf(row[r], row[r].graph.actions) /\ row[r].results = row[r].invariants
    BY <2>1 DEF GraphIsOwn, SameShown
  <2>3. RecordsOf(row'[r], row[r].graph.actions) = RecordsOf(row[r], row[r].graph.actions)
    BY <2>1, SameRecords DEF SameShown
  <2> QED
    BY <2>1, <2>2, <2>3 DEF SameShown
<1> QED
  BY <1>1, <1>2, <1>3

(* Once there is a graph, what is shown of a run stays. *)
LEMMA ShownStays ==
  ASSUME IInv, IInv', [Next]_vars, NEW r \in Runs, row[r] # NoRow, row[r].graph # NoRecords
  PROVE  row'[r] # NoRow /\ SameShown(row[r], row'[r])
<1>1. CASE row'[r] = row[r]
  BY <1>1 DEF SameShown
<1>2. CASE row'[r] # row[r]
  BY <1>2, RowSteps, RowChanges
<1> QED
  BY <1>1, <1>2

Names == {"status", "actions", "rounds", "invariants", "specs", "evidence",
          "results", "verdicts", "nodes", "edges"}

LEMMA OrderFacts ==
  /\ Len(Order) = 10
  /\ \A i \in 1..10 : Order[i] \in Names
  /\ \A name \in Names : \E i \in 1..10 : Order[i] = name
  /\ \A i \in 1..10 : /\ i = 1 <=> Order[i] = "status"
                      /\ i = 2 <=> Order[i] = "actions"
                      /\ i = 9 <=> Order[i] = "nodes"
                      /\ i = 10 <=> Order[i] = "edges"
<1>1. \A i \in 1..10 : i = 1 \/ i = 2 \/ i = 3 \/ i = 4 \/ i = 5 \/ i = 6 \/ i = 7
                       \/ i = 8 \/ i = 9 \/ i = 10
  OBVIOUS
<1>2. /\ Order[1] = "status" /\ Order[2] = "actions" /\ Order[3] = "rounds"
      /\ Order[4] = "invariants" /\ Order[5] = "specs" /\ Order[6] = "evidence"
      /\ Order[7] = "results" /\ Order[8] = "verdicts" /\ Order[9] = "nodes"
      /\ Order[10] = "edges" /\ Len(Order) = 10
  BY DEF Order
<1> QED
  BY <1>1, <1>2 DEF Names

(* Every piece of evidence a run may store: its id determines it. *)
AnyEvidence == LET all == [candidates |-> Actions, results |-> Actions]
               IN  Candidates(all) \cup Checked(all)

(* What has been read so far of a run that was finished when its summary   *)
(* was read is what is stored; a graph that was read is the stored one.    *)
CopyInv ==
  /\ target \in Runs /\ at \in 1..11
  /\ copy = [name \in Names |-> copy[name]]
  /\ at = 1 => copy = Unread
  /\ at > 1 => row[target] # NoRow
  /\ copy.status \in Terminal =>
       /\ row[target] # NoRow /\ row[target].status \in Terminal
       /\ \A i \in 1..10 : i < at /\ i # 2 => copy[Order[i]] = Tables(row[target], actions)[Order[i]]
  /\ reading = "open" /\ at > 2 /\ saves = 0 => copy.actions = actions
  /\ copy.nodes # {} =>
       /\ row[target] # NoRow /\ row[target].graph # NoRecords
       /\ copy.nodes = Nodes(row[target].graph)
       /\ at > 10 => copy.edges = Edges(row[target].graph)
  /\ copy.evidence \subseteq AnyEvidence
  /\ reading \in {"answered", "refused"} => at > 10

ReaderInv == /\ IInv
             /\ \A r \in Runs : GraphIsOwn(r)
             /\ CopyInv
             /\ ReadsStand

LEMMA ReaderInitHolds == ReaderInit => ReaderInv
<1> SUFFICES ASSUME ReaderInit PROVE ReaderInv
  OBVIOUS
<1>1. IInv
  BY InitHolds DEF ReaderInit
<1>2. \A r \in Runs : GraphIsOwn(r)
  BY DEF ReaderInit, Init, GraphIsOwn
<1>3. CopyInv
  BY DEF ReaderInit, CopyInv, Unread, Names, Terminal
<1>4. ReadsStand
  BY DEF ReaderInit, ReadsStand
<1> QED
  BY <1>1, <1>2, <1>3, <1>4 DEF ReaderInv

LEMMA EvidenceStored ==
  ASSUME IInv, NEW r \in Runs, row[r] # NoRow
  PROVE  Tables(row[r], actions).evidence \subseteq AnyEvidence
<1>1. row[r].candidates \subseteq Actions /\ row[r].results \subseteq Actions
  BY DEF IInv, TypeOK, Snapshot
<1>2. Candidates(row[r]) \subseteq Candidates([candidates |-> Actions, results |-> Actions])
  BY <1>1 DEF Candidates
<1>3. Checked(row[r]) \subseteq Checked([candidates |-> Actions, results |-> Actions])
  BY <1>1 DEF Checked
<1> QED
  BY <1>2, <1>3 DEF Tables, AnyEvidence

(* What the tables hold of records and graph follows from the snapshot. *)
LEMMA SameTables ==
  ASSUME NEW s, NEW t, NEW acts, NEW other, SameShown(s, t)
  PROVE  \A part \in Shown : Tables(t, other)[part] = Tables(s, acts)[part]
<1>1. Candidates(t) \cup Checked(t) = Candidates(s) \cup Checked(s)
  BY DEF SameShown, Candidates, Checked
<1> QED
  BY <1>1 DEF SameShown, Tables, Shown

(* A select leaves the server alone. *)
LEMMA ReadPartKeeps ==
  ASSUME ReaderInv, ReadPart
  PROVE  ReaderInv'
<1>1. /\ row' = row /\ actions' = actions /\ saves' = saves /\ target' = target
      /\ UNCHANGED vars
  BY DEF ReadPart, vars, run, environment
<1>2. IInv'
  BY <1>1, StutterKeeps DEF ReaderInv
<1>3. \A r \in Runs : GraphIsOwn(r)'
  BY <1>1 DEF ReaderInv, GraphIsOwn
<1>4. Tables(row[target], actions)' = Tables(row[target], actions)
  BY <1>1 DEF Tables, Candidates, Checked
<1>5. CASE row[target] = NoRow
  <2>1. at' = at /\ copy' = copy /\ reading' = "missing"
    BY <1>5 DEF ReadPart
  <2>2. CopyInv'
    BY <1>1, <1>4, <2>1 DEF ReaderInv, CopyInv
  <2>3. ReadsStand'
    BY <2>1 DEF ReadsStand
  <2> QED
    BY <1>2, <1>3, <2>2, <2>3 DEF ReaderInv
<1>6. CASE row[target] # NoRow
  <2>1. /\ at' = at + 1 /\ at \in 1..10 /\ reading' = "open" /\ reading = "open"
        /\ copy' = [copy EXCEPT ![Order[at]] = Tables(row[target], actions)[Order[at]]]
    BY <1>6, OrderFacts DEF ReadPart, ReaderInv, CopyInv
  <2>2. Order[at] \in Names
    BY <2>1, OrderFacts
  <2>3. copy' = [name \in Names |-> IF name = Order[at] THEN Tables(row[target], actions)[name] ELSE copy[name]]
    BY <2>1, <2>2 DEF ReaderInv, CopyInv
  <2>4. copy' = [name \in Names |-> copy'[name]]
    BY <2>3
  <2>5. \A name \in Names : copy'[name] = IF name = Order[at] THEN Tables(row[target], actions)[name] ELSE copy[name]
    BY <2>3
  <2>6. /\ at = 1 <=> Order[at] = "status"
        /\ at = 2 <=> Order[at] = "actions"
        /\ at = 9 <=> Order[at] = "nodes"
        /\ at = 10 <=> Order[at] = "edges"
    BY <2>1, OrderFacts
  <2>7. /\ "status" \in Names /\ "actions" \in Names /\ "nodes" \in Names
        /\ "edges" \in Names /\ "evidence" \in Names
    BY DEF Names
  <2>8. /\ Tables(row[target], actions).status = row[target].status /\ Tables(row[target], actions).actions = actions
        /\ Tables(row[target], actions).nodes = IF row[target].graph = NoRecords THEN {} ELSE Nodes(row[target].graph)
        /\ Tables(row[target], actions).edges = IF row[target].graph = NoRecords THEN {} ELSE Edges(row[target].graph)
    BY DEF Tables
  <2>9. copy'.status \in Terminal =>
          /\ row[target].status \in Terminal
          /\ \A i \in 1..10 : i < at' /\ i # 2 => copy'[Order[i]] = Tables(row[target], actions)[Order[i]]
    <3> SUFFICES ASSUME copy'.status \in Terminal
                 PROVE  /\ row[target].status \in Terminal
                        /\ \A i \in 1..10 : i < at + 1 /\ i # 2 =>
                             copy'[Order[i]] = Tables(row[target], actions)[Order[i]]
      BY <2>1
    <3>1. CASE at = 1
      <4>1. row[target].status \in Terminal
        BY <2>5, <2>6, <2>7, <2>8, <3>1
      <4>2. copy'[Order[1]] = Tables(row[target], actions)[Order[1]]
        BY <2>2, <2>5, <3>1
      <4> QED
        BY <3>1, <4>1, <4>2
    <3>2. CASE at # 1
      <4>1. copy.status \in Terminal
        BY <2>5, <2>6, <2>7, <3>2
      <4>2. /\ row[target].status \in Terminal
            /\ \A i \in 1..10 : i < at /\ i # 2 => copy[Order[i]] = Tables(row[target], actions)[Order[i]]
        BY <4>1 DEF ReaderInv, CopyInv
      <4>3. ASSUME NEW i \in 1..10, i < at + 1, i # 2
            PROVE  copy'[Order[i]] = Tables(row[target], actions)[Order[i]]
        <5>1. Order[i] \in Names
          BY OrderFacts
        <5>2. i < at \/ i = at
          BY <2>1, <4>3
        <5> QED
          BY <2>5, <4>2, <4>3, <5>1, <5>2
      <4> QED
        BY <4>2, <4>3
    <3> QED
      BY <3>1, <3>2
  <2>10. at' > 2 /\ saves = 0 => copy'.actions = actions
    <3>1. CASE at = 2
      BY <2>5, <2>6, <2>7, <2>8, <3>1
    <3>2. CASE at > 2
      <4>1. saves = 0 => copy.actions = actions
        BY <2>1, <3>2 DEF ReaderInv, CopyInv
      <4> QED
        BY <2>5, <2>6, <2>7, <3>2, <4>1
    <3> QED
      BY <2>1, <3>1, <3>2
  <2>11. copy'.nodes # {} =>
           /\ row[target].graph # NoRecords
           /\ copy'.nodes = Nodes(row[target].graph)
           /\ at' > 10 => copy'.edges = Edges(row[target].graph)
    <3> SUFFICES ASSUME copy'.nodes # {}
                 PROVE  /\ row[target].graph # NoRecords
                        /\ copy'.nodes = Nodes(row[target].graph)
                        /\ at' > 10 => copy'.edges = Edges(row[target].graph)
      OBVIOUS
    <3>1. row[target].graph # NoRecords /\ copy'.nodes = Nodes(row[target].graph)
      <4>1. CASE at = 9
        BY <2>5, <2>6, <2>7, <2>8, <4>1
      <4>2. CASE at # 9
        <5>1. copy'.nodes = copy.nodes
          BY <2>5, <2>6, <2>7, <4>2
        <5> QED
          BY <5>1 DEF ReaderInv, CopyInv
      <4> QED
        BY <4>1, <4>2
    <3>2. ASSUME at' > 10 PROVE copy'.edges = Edges(row[target].graph)
      <4>1. at = 10
        BY <2>1, <3>2
      <4> QED
        BY <2>5, <2>6, <2>7, <2>8, <3>1, <4>1
    <3> QED
      BY <3>1, <3>2
  <2>12. copy'.evidence \subseteq AnyEvidence
    <3>1. Tables(row[target], actions).evidence \subseteq AnyEvidence /\ copy.evidence \subseteq AnyEvidence
      BY <1>6, EvidenceStored DEF ReaderInv, CopyInv
    <3> QED
      BY <2>5, <2>7, <3>1
  <2>13. CopyInv'
    <3>1. target \in Runs /\ at + 1 \in 1..11 /\ at + 1 # 1
      BY <2>1 DEF ReaderInv, CopyInv
    <3>2. AnyEvidence' = AnyEvidence
      BY DEF AnyEvidence, Candidates, Checked
    <3> QED
      BY <1>1, <1>4, <1>6, <2>1, <2>4, <2>9, <2>10, <2>11, <2>12, <3>1, <3>2 DEF CopyInv
  <2>14. ReadsStand'
    BY <2>1 DEF ReadsStand
  <2> QED
    BY <1>2, <1>3, <2>13, <2>14 DEF ReaderInv
<1> QED
  BY <1>5, <1>6

(* The audit, a resubmission or a crash beside the reader. *)
LEMMA ServerStepKeeps ==
  ASSUME ReaderInv, [Next]_vars,
         \/ /\ crashes' > crashes /\ reading = "open"
            /\ reading' = "lost" /\ copy' = Unread /\ at' = 1
         \/ UNCHANGED <<reading, copy, at>>,
         target' = target
  PROVE  ReaderInv'
<1>1. IInv /\ IInv'
  BY NextKeeps DEF ReaderInv
<1>2. \A r \in Runs : GraphIsOwn(r)'
  BY <1>1, GraphStaysOwn DEF ReaderInv
<1>3. target \in Runs
  BY DEF ReaderInv, CopyInv
<1>4. CASE reading' = "lost" /\ copy' = Unread /\ at' = 1
  <2>1. CopyInv'
    BY <1>3, <1>4 DEF CopyInv, Unread, Names, Terminal
  <2>2. ReadsStand'
    BY <1>4 DEF ReadsStand
  <2> QED
    BY <1>1, <1>2, <2>1, <2>2 DEF ReaderInv
<1>5. CASE reading' = reading /\ copy' = copy /\ at' = at
  <2>1. row[target] # NoRow => row'[target] # NoRow
    BY <1>1, <1>3, RowChanges
  <2>2. row[target] # NoRow /\ row[target].status \in Terminal => row'[target] = row[target]
    <3>1. row[target] # NoRow /\ row[target].status \in Terminal => pc[target] = "done"
      BY <1>1, <1>3 DEF IInv, RunInv, RunOK
    <3> QED
      BY <1>1, <1>3, <3>1, RowChanges
  <2>3. row[target] # NoRow /\ row[target].graph # NoRecords => SameShown(row[target], row'[target])
    BY <1>1, <1>3, ShownStays
  <2>4. saves' = 0 => saves = 0 /\ actions' = actions
    <3>1. CASE SaveIncident
      BY <1>1, <3>1 DEF SaveIncident, IInv, TypeOK
    <3>2. CASE ~ SaveIncident
      <4>1. saves' = saves /\ actions' = actions
        <5>1. ASSUME NEW r \in Runs, Start(r) PROVE saves' = saves /\ actions' = actions
          BY <5>1 DEF Start, environment
        <5>2. ASSUME NEW r \in Runs, Continue(r) PROVE saves' = saves /\ actions' = actions
          BY <5>2 DEF Continue, SaveInitial, ReadActions, SaveParsed, CompileInvariants,
             BuildIndex, ReserveRound, Search, SaveIndexed, InvestigateChecks, AssignVerdicts,
             BuildEvidenceGraph, PersistCompletion, Reload, ValidateReloaded, SaveFailed,
             SaveAuditState, Fault, environment
        <5>3. CASE Crash
          BY <5>3 DEF Crash
        <5>4. CASE Quiet \/ UNCHANGED vars
          BY <5>4 DEF Quiet, vars, environment
        <5> QED
          BY <3>2, <5>1, <5>2, <5>3, <5>4 DEF Next
      <4> QED
        BY <4>1
    <3> QED
      BY <3>1, <3>2
  <2>5. \A part \in Names \ {"actions"} : row'[target] = row[target] =>
          Tables(row'[target], actions')[part] = Tables(row[target], actions)[part]
    BY DEF Tables, Names
  <2>6. copy.status \in Terminal =>
          /\ row'[target] # NoRow /\ row'[target].status \in Terminal
          /\ \A i \in 1..10 : i < at /\ i # 2 =>
               copy[Order[i]] = Tables(row'[target], actions')[Order[i]]
    <3> SUFFICES ASSUME copy.status \in Terminal
                 PROVE  /\ row'[target] # NoRow /\ row'[target].status \in Terminal
                        /\ \A i \in 1..10 : i < at /\ i # 2 =>
                             copy[Order[i]] = Tables(row'[target], actions')[Order[i]]
      OBVIOUS
    <3>1. row[target] # NoRow /\ row[target].status \in Terminal /\ row'[target] = row[target]
      BY <2>2 DEF ReaderInv, CopyInv
    <3>2. ASSUME NEW i \in 1..10, i < at, i # 2
          PROVE  copy[Order[i]] = Tables(row'[target], actions')[Order[i]]
      <4>1. copy[Order[i]] = Tables(row[target], actions)[Order[i]]
        BY <3>2 DEF ReaderInv, CopyInv
      <4>2. Order[i] \in Names \ {"actions"}
        BY <3>2, OrderFacts
      <4> QED
        BY <2>5, <3>1, <4>1, <4>2
    <3> QED
      BY <3>1, <3>2
  <2>7. copy.nodes # {} =>
          /\ row'[target] # NoRow /\ row'[target].graph # NoRecords
          /\ copy.nodes = Nodes(row'[target].graph)
          /\ at > 10 => copy.edges = Edges(row'[target].graph)
    BY <2>1, <2>3 DEF ReaderInv, CopyInv, SameShown
  <2>8. CopyInv'
    <3>1. AnyEvidence' = AnyEvidence
      BY DEF AnyEvidence, Candidates, Checked
    <3>2. /\ at \in 1..11 /\ copy = [name \in Names |-> copy[name]]
          /\ at = 1 => copy = Unread
          /\ at > 1 => row[target] # NoRow
          /\ reading = "open" /\ at > 2 /\ saves = 0 => copy.actions = actions
          /\ copy.evidence \subseteq AnyEvidence
          /\ reading \in {"answered", "refused"} => at > 10
      BY DEF ReaderInv, CopyInv
    <3> QED
      BY <1>3, <1>5, <2>1, <2>4, <2>6, <2>7, <3>1, <3>2 DEF CopyInv
  <2>9. ReadsStand'
    <3>1. ASSUME reading = "answered", copy.status \in Terminal,
                 NEW part \in DOMAIN copy \ {"actions"}
          PROVE  copy[part] = Tables(row'[target], actions')[part]
      <4>1. copy[part] = Tables(row[target], actions)[part]
        BY <3>1 DEF ReaderInv, ReadsStand
      <4>2. row'[target] = row[target]
        BY <2>2, <3>1 DEF ReaderInv, CopyInv
      <4>3. part \in Names \ {"actions"}
        BY <3>1 DEF ReaderInv, CopyInv
      <4> QED
        BY <2>5, <4>1, <4>2, <4>3
    <3>2. ASSUME reading = "answered", copy.nodes # {}, NEW part \in Shown
          PROVE  copy[part] = Tables(row'[target], actions')[part]
      <4>1. copy[part] = Tables(row[target], actions)[part]
        BY <3>2 DEF ReaderInv, ReadsStand
      <4>2. SameShown(row[target], row'[target])
        BY <2>3, <3>2 DEF ReaderInv, CopyInv
      <4> QED
        BY <3>2, <4>1, <4>2, SameTables
    <3>3. reading = "refused" /\ copy.status \in Terminal => saves' > 0
      <4>1. reading = "refused" /\ copy.status \in Terminal => saves > 0
        BY DEF ReaderInv, ReadsStand
      <4>2. saves' \in Nat
        BY <1>1, BoundsAssumption DEF IInv, TypeOK
      <4> QED
        BY <2>4, <4>1, <4>2
    <3> QED
      BY <1>5, <3>1, <3>2, <3>3 DEF ReadsStand
  <2> QED
    BY <1>1, <1>2, <2>8, <2>9 DEF ReaderInv
<1> QED
  BY <1>4, <1>5

(* The nodes of a graph name its records: equal nodes, equal records. *)
LEMMA NodesNameRecords ==
  ASSUME NEW one, NEW other, Nodes(one) = Nodes(other)
  PROVE  \A kind \in Kinds : RecordIds(one, kind) = RecordIds(other, kind)
<1>1. ASSUME NEW a, NEW b, Nodes(a) = Nodes(b), NEW kind \in Kinds, NEW id \in RecordIds(a, kind)
      PROVE  id \in RecordIds(b, kind)
  <2>0. Node(kind, id) \in Nodes(a)
    BY DEF Nodes
  <2>1. Node(kind, id) \in Nodes(b)
    BY <1>1, <2>0
  <2>2. PICK k \in Kinds : Node(kind, id) \in {Node(k, i) : i \in RecordIds(b, k)}
    BY <2>1 DEF Nodes
  <2>3. PICK i \in RecordIds(b, k) : Node(kind, id) = Node(k, i)
    BY <2>2
  <2> QED
    BY <2>3 DEF Node
<1> QED
  BY <1>1

LEMMA EvidenceById ==
  ASSUME NEW x \in AnyEvidence, NEW y \in AnyEvidence, x.id = y.id
  PROVE  x = y
<1> DEFINE all == [candidates |-> Actions, results |-> Actions]
<1>1. ASSUME NEW u \in Candidates(all), NEW v \in Checked(all) PROVE u.id # v.id
  BY DEF Candidates, Checked
<1>2. CASE x \in Candidates(all) /\ y \in Candidates(all)
  BY <1>2 DEF Candidates
<1>3. CASE x \in Checked(all) /\ y \in Checked(all)
  BY <1>3 DEF Checked
<1> QED
  BY <1>1, <1>2, <1>3 DEF AnyEvidence

LEMMA IdsOfOwned ==
  ASSUME NEW S
  PROVE  /\ Ids({[id |-> a, action |-> a] : a \in S}) = S
         /\ Ids({[id |-> a, invariant |-> a] : a \in S}) = S
<1>1. \A a : [id |-> a, action |-> a].id = a /\ [id |-> a, invariant |-> a].id = a
  OBVIOUS
<1>2. ASSUME NEW x \in S
      PROVE  /\ x \in Ids({[id |-> a, action |-> a] : a \in S})
             /\ x \in Ids({[id |-> a, invariant |-> a] : a \in S})
  <2>1. /\ [id |-> x, action |-> x] \in {[id |-> a, action |-> a] : a \in S}
        /\ [id |-> x, invariant |-> x] \in {[id |-> a, invariant |-> a] : a \in S}
    OBVIOUS
  <2>2. \A R, e : e \in R => e.id \in Ids(R)
    BY DEF Ids
  <2> QED
    BY <1>1, <2>1, <2>2
<1>3. ASSUME NEW x \in Ids({[id |-> a, action |-> a] : a \in S}) PROVE x \in S
  BY DEF Ids
<1>4. ASSUME NEW x \in Ids({[id |-> a, invariant |-> a] : a \in S}) PROVE x \in S
  BY DEF Ids
<1> QED
  BY <1>2, <1>3, <1>4

(* A copy whose graph fits its records shows the run of that graph. *)
LEMMA GraphShowsRun ==
  ASSUME ReaderInv, Readable(copy), copy.nodes # {}, at > 10
  PROVE  \A part \in Shown : copy[part] = Tables(row[target], actions)[part]
<1> DEFINE s == row[target]
           graph == s.graph
           read == CopiedRecords(copy)
<1>1. target \in Runs /\ s # NoRow /\ graph # NoRecords
      /\ copy.nodes = Nodes(graph) /\ copy.edges = Edges(graph)
  BY DEF ReaderInv, CopyInv
<1>2. graph = RecordsOf(s, graph.actions) /\ s.results = s.invariants
  BY <1>1 DEF ReaderInv, GraphIsOwn
<1>3. Nodes(read) = Nodes(graph)
  <2>1. copy.nodes \cup copy.edges # {}
    OBVIOUS
  <2>2. Validate([nodes |-> copy.nodes, edges |-> copy.edges], read)
    BY <2>1 DEF Readable
  <2> HIDE DEF read, graph
  <2> QED
    BY <1>1, <2>2 DEF Validate
<1>4. \A kind \in Kinds : RecordIds(read, kind) = RecordIds(graph, kind)
  <2> HIDE DEF read, graph
  <2> QED
    BY <1>3, NodesNameRecords
<1>5. /\ Ids(read.invariants) = Ids(graph.invariants)
      /\ Ids(read.evidence) = Ids(graph.evidence)
      /\ Ids(read.checks) = Ids(graph.checks)
      /\ Ids(read.verdicts) = Ids(graph.verdicts)
  <2> HIDE DEF read, graph
  <2>1. RecordIds(read, "INVARIANT") = RecordIds(graph, "INVARIANT")
        /\ RecordIds(read, "EVIDENCE") = RecordIds(graph, "EVIDENCE")
        /\ RecordIds(read, "CHECK") = RecordIds(graph, "CHECK")
        /\ RecordIds(read, "VERDICT") = RecordIds(graph, "VERDICT")
    BY <1>4 DEF Kinds
  <2> QED
    BY <2>1 DEF RecordIds
<1>7. /\ read.invariants = {[id |-> a, action |-> a] : a \in copy.invariants}
      /\ read.evidence = copy.evidence
      /\ read.checks = {[id |-> a, invariant |-> a] : a \in copy.results}
      /\ read.verdicts = {[id |-> a, action |-> a] : a \in copy.verdicts}
  BY DEF CopiedRecords
<1>8. /\ graph.invariants = {[id |-> a, action |-> a] : a \in s.invariants}
      /\ graph.evidence = Candidates(s) \cup Checked(s)
      /\ graph.checks = {[id |-> a, invariant |-> a] : a \in s.results}
      /\ graph.verdicts = {[id |-> a, action |-> a] : a \in s.verdicts}
  <2>1. ASSUME NEW acts
        PROVE  /\ RecordsOf(s, acts).invariants = {[id |-> a, action |-> a] : a \in s.invariants}
               /\ RecordsOf(s, acts).evidence = Candidates(s) \cup Checked(s)
               /\ RecordsOf(s, acts).checks = {[id |-> a, invariant |-> a] : a \in s.results}
               /\ RecordsOf(s, acts).verdicts = {[id |-> a, action |-> a] : a \in s.verdicts}
    BY DEF RecordsOf
  <2> HIDE DEF s
  <2> QED
    BY <1>2, <2>1
<1> HIDE DEF read, graph
<1> HIDE DEF s
<1>9. copy.invariants = s.invariants /\ copy.results = s.results /\ copy.verdicts = s.verdicts
  <2>1. Ids(read.invariants) = copy.invariants /\ Ids(graph.invariants) = s.invariants
    BY <1>7, <1>8, IdsOfOwned
  <2>2. Ids(read.checks) = copy.results /\ Ids(graph.checks) = s.results
    BY <1>7, <1>8, IdsOfOwned
  <2>3. Ids(read.verdicts) = copy.verdicts /\ Ids(graph.verdicts) = s.verdicts
    BY <1>7, <1>8, IdsOfOwned
  <2> QED
    BY <1>5, <2>1, <2>2, <2>3
<1>10. copy.evidence = Candidates(s) \cup Checked(s)
  <2>1. copy.evidence \subseteq AnyEvidence
    BY DEF ReaderInv, CopyInv
  <2>2. graph.evidence \subseteq AnyEvidence
    <3>1. Tables(s, actions).evidence \subseteq AnyEvidence
      BY <1>1, EvidenceStored DEF ReaderInv, s
    <3> QED
      BY <1>8, <3>1 DEF Tables
  <2>3. Ids(copy.evidence) = Ids(graph.evidence)
    BY <1>5, <1>7
  <2>4. ASSUME NEW A, NEW B, A \subseteq AnyEvidence, B \subseteq AnyEvidence, Ids(A) = Ids(B), NEW x \in A
        PROVE  x \in B
    <3>1. x.id \in Ids(B)
      BY <2>4 DEF Ids
    <3>2. PICK y \in B : y.id = x.id
      BY <3>1 DEF Ids
    <3>3. x = y
      BY <2>4, <3>2, EvidenceById
    <3> QED
      BY <3>3
  <2> QED
    BY <1>8, <2>1, <2>2, <2>3, <2>4
<1>11. copy.specs = s.invariants
  <2>1. copy.specs \subseteq copy.invariants /\ copy.results \subseteq copy.specs
    BY DEF Readable
  <2> QED
    BY <1>2, <1>9, <2>1
<1>12. /\ Tables(s, actions).invariants = s.invariants /\ Tables(s, actions).specs = s.invariants
       /\ Tables(s, actions).evidence = Candidates(s) \cup Checked(s)
       /\ Tables(s, actions).results = s.results /\ Tables(s, actions).verdicts = s.verdicts
       /\ Tables(s, actions).nodes = Nodes(graph) /\ Tables(s, actions).edges = Edges(graph)
  BY <1>1 DEF Tables, graph
<1>13. \A part \in Shown : copy[part] = Tables(s, actions)[part]
  BY <1>1, <1>9, <1>10, <1>11, <1>12 DEF Shown
<1> QED
  BY <1>13 DEF s

(* A finished run, read while nobody resubmits the postmortem, is answered. *)
LEMMA FinishedIsReadable ==
  ASSUME ReaderInv, at > 10, reading = "open", saves = 0, copy.status \in Terminal
  PROVE  Readable(copy)
<1> DEFINE s == row[target]
<1>1. target \in Runs /\ s # NoRow /\ copy.actions = actions
  BY DEF ReaderInv, CopyInv
<1>2. \A part \in Names \ {"actions"} : copy[part] = Tables(s, actions)[part]
  <2> SUFFICES ASSUME NEW part \in Names, part # "actions"
               PROVE  copy[part] = Tables(s, actions)[part]
    OBVIOUS
  <2>1. PICK i \in 1..10 : Order[i] = part
    BY OrderFacts
  <2>2. i # 2 /\ i < at
    BY <2>1, OrderFacts DEF ReaderInv, CopyInv
  <2> QED
    BY <2>1, <2>2 DEF ReaderInv, CopyInv
<1>3. /\ copy.status = s.status /\ copy.rounds = s.rounds
      /\ copy.invariants = s.invariants /\ copy.specs = s.invariants
      /\ copy.evidence = Candidates(s) \cup Checked(s)
      /\ copy.results = s.results /\ copy.verdicts = s.verdicts
      /\ copy.nodes = IF s.graph = NoRecords THEN {} ELSE Nodes(s.graph)
      /\ copy.edges = IF s.graph = NoRecords THEN {} ELSE Edges(s.graph)
  BY <1>2 DEF Tables, Names
<1>4. /\ Sound(s) /\ s.invariants \subseteq actions
      /\ s.graph # NoRecords => s.graph = RecordsOf(s, actions)
  BY <1>1 DEF ReaderInv, IInv, RunInv, RunOK, RowPinned, Undisturbed
<1>5. CopiedRecords(copy) = RecordsOf(s, actions)
  BY <1>1, <1>3 DEF CopiedRecords, RecordsOf
<1>6. WellOwned(CopiedRecords(copy))
  BY <1>4, <1>5, SoundIsOwned
<1>7. /\ copy.rounds \subseteq copy.invariants
      /\ copy.specs \subseteq copy.invariants
      /\ copy.results \subseteq copy.specs
      /\ copy.verdicts \subseteq copy.invariants
  BY <1>3, <1>4 DEF Sound
<1>8. \A a \in copy.results : <<a, "check">> \in Ids(copy.evidence)
  <2> SUFFICES ASSUME NEW a \in s.results
               PROVE  <<a, "check">> \in Ids(Candidates(s) \cup Checked(s))
    BY <1>3
  <2>1. [id |-> <<a, "check">>, invariant |-> a, kind |-> "CODE",
         role |-> IF a \in Supported THEN "SUPPORTING" ELSE "UNAVAILABLE"] \in Checked(s)
    BY DEF Checked
  <2> HIDE DEF s
  <2> QED
    BY <2>1 DEF Ids
<1>9. CASE s.graph = NoRecords
  <2>1. copy.status # "COMPLETE"
    BY <1>3, <1>4, <1>9, RecordsAreAGraph DEF Sound
  <2>2. copy.nodes \cup copy.edges = {}
    BY <1>3, <1>9
  <2> QED
    BY <1>1, <1>6, <1>7, <1>8, <2>1, <2>2 DEF Readable
<1>10. CASE s.graph # NoRecords
  <2>1. Validate(Build(CopiedRecords(copy)), CopiedRecords(copy))
    BY <1>6, BuildIsValid
  <2>2. Build(CopiedRecords(copy)) = [nodes |-> copy.nodes, edges |-> copy.edges]
    BY <1>3, <1>4, <1>5, <1>10 DEF Build
  <2>3. Node("INCIDENT", CopiedRecords(copy).incident) \in copy.nodes
    <3>1. Node("INCIDENT", CopiedRecords(copy).incident) \in Nodes(CopiedRecords(copy))
      BY DEF Nodes, Kinds, RecordIds
    <3> QED
      BY <1>3, <1>4, <1>5, <1>10, <3>1
  <2> QED
    BY <1>1, <1>6, <1>7, <1>8, <2>1, <2>2, <2>3 DEF Readable
<1> QED
  BY <1>9, <1>10

LEMMA AnswerReadKeeps ==
  ASSUME ReaderInv, AnswerRead
  PROVE  ReaderInv'
<1>1. /\ row' = row /\ actions' = actions /\ saves' = saves /\ UNCHANGED vars
      /\ target' = target /\ at' = at /\ copy' = copy
      /\ reading = "open" /\ at > 10
      /\ reading' = IF Readable(copy) THEN "answered" ELSE "refused"
  BY OrderFacts DEF AnswerRead, vars, run, environment
<1>2. IInv'
  BY <1>1, StutterKeeps DEF ReaderInv
<1>3. \A r \in Runs : GraphIsOwn(r)'
  BY <1>1 DEF ReaderInv, GraphIsOwn
<1>4. CopyInv'
  <2>1. AnyEvidence' = AnyEvidence
    BY DEF AnyEvidence, Candidates, Checked
  <2> QED
    BY <1>1, <2>1 DEF ReaderInv, CopyInv
<1>5. ReadsStand'
  <2>1. ASSUME copy.status \in Terminal, NEW part \in DOMAIN copy \ {"actions"}
        PROVE  copy[part] = Tables(row[target], actions)[part]
    <3>1. part \in Names /\ part # "actions"
      BY <2>1 DEF ReaderInv, CopyInv
    <3>2. PICK i \in 1..10 : Order[i] = part
      BY <3>1, OrderFacts
    <3>3. i # 2 /\ i < at
      BY <1>1, <3>1, <3>2, OrderFacts DEF ReaderInv, CopyInv
    <3> QED
      BY <2>1, <3>2, <3>3 DEF ReaderInv, CopyInv
  <2>2. ASSUME Readable(copy), copy.nodes # {}, NEW part \in Shown
        PROVE  copy[part] = Tables(row[target], actions)[part]
    BY <1>1, <2>2, GraphShowsRun
  <2>3. ASSUME ~ Readable(copy), copy.status \in Terminal
        PROVE  saves > 0
    <3>1. saves \in Nat
      BY BoundsAssumption DEF ReaderInv, IInv, TypeOK
    <3> QED
      BY <1>1, <2>3, <3>1, FinishedIsReadable
  <2> QED
    BY <1>1, <2>1, <2>2, <2>3 DEF ReadsStand
<1> QED
  BY <1>2, <1>3, <1>4, <1>5 DEF ReaderInv

LEMMA ReaderNextKeeps == ReaderInv /\ [ReaderNext]_<<vars, reader>> => ReaderInv'
<1> SUFFICES ASSUME ReaderInv, [ReaderNext]_<<vars, reader>> PROVE ReaderInv'
  OBVIOUS
<1>1. CASE ServerStep
  BY <1>1, ServerStepKeeps DEF ServerStep
<1>2. CASE UNCHANGED <<vars, reader>>
  BY <1>2, ServerStepKeeps DEF reader
<1> QED
  BY <1>1, <1>2, ReadPartKeeps, AnswerReadKeeps DEF ReaderNext

(* A reader beside the audit, whatever it selects between whichever saves,  *)
(* is never given parts of two snapshots under a finished status or with a  *)
(* graph, and a finished run is refused only after a resubmission.          *)
THEOREM ReadsStandCorrect == ReaderSpec => []ReadsStand
<1>1. ReaderSpec => []ReaderInv
  BY ReaderInitHolds, ReaderNextKeeps, PTL DEF ReaderSpec
<1>2. ReaderInv => ReadsStand
  BY DEF ReaderInv
<1> QED
  BY <1>1, <1>2, PTL

(* The reader only reads: what holds of every audit holds beside a reader.  *)
THEOREM ReadsChangeNothing == ReaderSpec => Spec
<1>1. ReaderInit => Init
  BY DEF ReaderInit
<1>2. [ReaderNext]_<<vars, reader>> => [Next]_vars
  BY DEF ReaderNext, ServerStep, ReadPart, AnswerRead
<1> QED
  BY <1>1, <1>2, PTL DEF ReaderSpec, Spec

-----------------------------------------------------------------------------
(***************************************************************************)
(* How far the audit of an empty incident reaches (GraphMatchesIncident).  *)
(* A postmortem's actions are stored together or not at all, so memory and *)
(* every stored run hold all of them or none.                              *)
(***************************************************************************)
AllOrNothing ==
  /\ actions \in {{}, Actions}
  /\ \A r \in Runs : /\ known[r] \in {{}, Actions}
                     /\ row[r] # NoRow => row[r].invariants \in {{}, Actions}

LEMMA KnownSteps ==
  ASSUME IInv, [Next]_vars, NEW r \in Runs
  PROVE  known'[r] = known[r] \/ known'[r] = actions
<1>1. ASSUME NEW q \in Runs, Start(q) \/ ReadActions(q) \/ Reload(q)
      PROVE  known' = known \/ known' = [known EXCEPT ![q] = actions]
  BY <1>1 DEF Start, ReadActions, Reload
<1>2. ASSUME NEW q \in Runs, SaveInitial(q) \/ SaveParsed(q) \/ CompileInvariants(q)
               \/ ReserveRound(q) \/ SaveIndexed(q) \/ AssignVerdicts(q) \/ BuildEvidenceGraph(q)
      PROVE  known' = known
  BY <1>2, SaveCases DEF SaveInitial, SaveParsed, CompileInvariants, ReserveRound, SaveIndexed,
     AssignVerdicts, BuildEvidenceGraph, Saved, Raised
<1>3. ASSUME NEW q \in Runs, BuildIndex(q) \/ Search(q) \/ InvestigateChecks(q)
               \/ PersistCompletion(q) \/ ValidateReloaded(q) \/ SaveFailed(q)
      PROVE  known' = known
  BY <1>3, SaveCases DEF BuildIndex, Search, InvestigateChecks, PersistCompletion,
     ValidateReloaded, SaveFailed, Saved, Raised, Raise, Fault, Escape
<1>4. SaveIncident \/ Crash \/ Quiet \/ UNCHANGED vars => known' = known
  BY DEF SaveIncident, Crash, Quiet, vars, run
<1>5. known' = known \/ \E q \in Runs : known' = [known EXCEPT ![q] = actions]
  BY <1>1, <1>2, <1>3, <1>4 DEF Next, Continue
<1> QED
  BY <1>5 DEF IInv, TypeOK

LEMMA ActionsSteps ==
  ASSUME [Next]_vars, actions' # actions
  PROVE  actions' \in {{}, Actions}
<1>1. ASSUME NEW q \in Runs, Start(q) \/ Continue(q) PROVE actions' = actions
  <2>1. ASSUME NEW s, NEW next, SaveAuditState(q, s, next) PROVE actions' = actions
    BY <2>1, SaveCases DEF Saved, Raised, EnvironmentOf, environment
  <2>2. CASE SaveInitial(q) \/ SaveParsed(q) \/ CompileInvariants(q)
               \/ ReserveRound(q) \/ SaveIndexed(q) \/ AssignVerdicts(q) \/ BuildEvidenceGraph(q)
    BY <2>1, <2>2 DEF SaveInitial, SaveParsed, CompileInvariants, ReserveRound, SaveIndexed,
       AssignVerdicts, BuildEvidenceGraph
  <2>3. CASE InvestigateChecks(q)
    BY <2>1, <2>3 DEF InvestigateChecks, environment
  <2>4. CASE Start(q) \/ ReadActions(q) \/ BuildIndex(q) \/ Search(q) \/ PersistCompletion(q)
               \/ Reload(q) \/ ValidateReloaded(q) \/ SaveFailed(q)
    BY <2>4 DEF Start, ReadActions, BuildIndex, Search, PersistCompletion, Reload,
       ValidateReloaded, SaveFailed, Fault, environment
  <2> QED
    BY <1>1, <2>2, <2>3, <2>4 DEF Continue
<1>2. Crash \/ Quiet \/ UNCHANGED vars => actions' = actions
  BY DEF Crash, Quiet, vars, environment
<1> QED
  BY <1>1, <1>2 DEF Next, SaveIncident

LEMMA AllOrNothingKept ==
  ASSUME IInv, IInv', AllOrNothing, [Next]_vars
  PROVE  AllOrNothing'
<1>1. actions' \in {{}, Actions}
  BY ActionsSteps DEF AllOrNothing
<1>2. \A r \in Runs : known'[r] \in {{}, Actions}
  BY KnownSteps DEF AllOrNothing
<1>3. ASSUME NEW r \in Runs, row'[r] # NoRow PROVE row'[r].invariants \in {{}, Actions}
  <2>1. CASE row'[r] = row[r]
    BY <1>3, <2>1 DEF AllOrNothing
  <2>2. CASE row'[r] # row[r] /\ pc'[r] \in Running
    <3>1. Progress(pc'[r], row'[r], known'[r], found'[r])
      BY DEF IInv, RunInv, RunOK
    <3>2. row'[r].invariants = {} \/ row'[r].invariants = known'[r]
      BY <2>2, <3>1 DEF Progress
    <3> QED
      BY <1>2, <3>2
  <2>3. CASE row'[r] # row[r] /\ pc'[r] \notin Running
    BY <2>3, RowSteps DEF SameShown, AllOrNothing
  <2> QED
    BY <2>1, <2>2, <2>3
<1> QED
  BY <1>1, <1>2, <1>3 DEF AllOrNothing

(* The finding is as narrow as it was found: a COMPLETE run whose graph is   *)
(* not the incident's audited no action at all, and the postmortem was       *)
(* resubmitted since (the validation of a save and the foreign keys of the   *)
(* rows exclude everything else).                                            *)
THEOREM OnlyEmptyAuditsMismatch ==
  Spec => [](\A r \in Stored :
               row[r].status = "COMPLETE" /\ row[r].graph # RecordsOf(row[r], actions)
                 => row[r].invariants = {} /\ saves > 0)
<1> DEFINE Narrow == \A r \in Stored :
                       row[r].status = "COMPLETE" /\ row[r].graph # RecordsOf(row[r], actions)
                         => row[r].invariants = {} /\ saves > 0
<1>1. Init => AllOrNothing
  BY DEF Init, AllOrNothing
<1>2. Spec => []AllOrNothing
  BY <1>1, AllOrNothingKept, Invariance, PTL DEF Spec
<1>3. IInv /\ AllOrNothing => Narrow
  <2> SUFFICES ASSUME IInv, AllOrNothing, NEW r \in Runs, row[r] # NoRow,
                      row[r].status = "COMPLETE", row[r].graph # RecordsOf(row[r], actions)
               PROVE  row[r].invariants = {} /\ saves > 0
    BY DEF Stored
  <2>1. RunInv(r) /\ Sound(row[r])
    BY DEF IInv, RunInv, RunOK
  <2>2. row[r].graph = RecordsOf(row[r], row[r].invariants) /\ row[r].invariants \subseteq actions
    BY <2>1 DEF Sound, RunInv, RowPinned
  <2>3. row[r].invariants # actions
    BY <2>2
  <2>4. row[r].invariants = {}
    BY <2>2, <2>3 DEF AllOrNothing
  <2>5. row[r].graph # NoRecords
    BY <2>2, RecordsAreAGraph
  <2>6. saves # 0
    BY <2>1, <2>5 DEF RunInv, Undisturbed
  <2> QED
    BY <2>4, <2>6, BoundsAssumption DEF IInv, TypeOK
<1> QED
  BY <1>2, <1>3, Invariance, PTL

-----------------------------------------------------------------------------
(***************************************************************************)
(* The safety half of AuditSettles: no path of run() repeats.  A measure   *)
(* falls with every step of a run.  The stages and the handler come one    *)
(* after the other, and the rounds end because each searches an invariant  *)
(* that none before it did.                                                *)
(***************************************************************************)

(* The steps that may be left at step p, with invariants `left` to search. *)
Rank(p, left) ==
  LET two(S) == 2 * Cardinality(S)
  IN  CASE p = "done"        -> 0
        [] p = "fail"        -> 1
        [] p = "validate"    -> 2
        [] p = "reload"      -> 3
        [] p = "complete"    -> 4
        [] p = "graph"       -> 5
        [] p = "verify"      -> 6
        [] p = "investigate" -> 7
        [] p = "search"      -> 7 + two(left)
        [] p = "reserve"     -> 8 + two(left)
        [] p = "index"       -> 9 + two(Supported)
        [] p = "compile"     -> 10 + two(Supported)
        [] p = "parsed"      -> 11 + two(Supported)
        [] p = "load"        -> 12 + two(Supported)
        [] p = "begin"       -> 13 + two(Supported)
        [] p = "idle"        -> 14 + two(Supported)

Measure(r) == Rank(pc[r], Unsearched(r))

(* A round that is charged and not yet searched is for a new invariant. *)
RoundIsNew(r) == pc[r] = "search" => row[r].rounds \cap Unsearched(r) # {}

LEMMA RankIs ==
  ASSUME NEW left
  PROVE  LET all == 2 * Cardinality(Supported)
             some == 2 * Cardinality(left)
         IN  /\ Rank("done", left) = 0 /\ Rank("fail", left) = 1
             /\ Rank("validate", left) = 2 /\ Rank("reload", left) = 3
             /\ Rank("complete", left) = 4 /\ Rank("graph", left) = 5
             /\ Rank("verify", left) = 6 /\ Rank("investigate", left) = 7
             /\ Rank("search", left) = 7 + some /\ Rank("reserve", left) = 8 + some
             /\ Rank("index", left) = 9 + all /\ Rank("compile", left) = 10 + all
             /\ Rank("parsed", left) = 11 + all /\ Rank("load", left) = 12 + all
             /\ Rank("begin", left) = 13 + all /\ Rank("idle", left) = 14 + all
BY DEF Rank

LEMMA SupportedIsFinite ==
  /\ IsFiniteSet(Supported) /\ Cardinality(Supported) \in Nat
  /\ \A S \in SUBSET Supported : /\ IsFiniteSet(S) /\ Cardinality(S) \in Nat
                                 /\ Cardinality(S) <= Cardinality(Supported)
                                 /\ \A T \in SUBSET S : T # S => Cardinality(T) < Cardinality(S)
<1>1. IsFiniteSet(Supported)
  BY ActionsAssumption, FS_Subset
<1>2. ASSUME NEW S \in SUBSET Supported
      PROVE  IsFiniteSet(S) /\ Cardinality(S) \in Nat /\ Cardinality(S) <= Cardinality(Supported)
  BY <1>1, FS_Subset, FS_CardinalityType
<1>3. ASSUME NEW S \in SUBSET Supported, NEW T \in SUBSET S, T # S
      PROVE  Cardinality(T) < Cardinality(S)
  BY <1>2, <1>3, FS_Subset, FS_CardinalityType
<1> QED
  BY <1>1, <1>2, <1>3, FS_CardinalityType

(* Steps of one run leave the others alone. *)
LEMMA OwnStep ==
  ASSUME IInv, NEW r \in Runs, Start(r) \/ Continue(r)
  PROVE  StepOf(r)
<1> USE DEF IInv, TypeOK, StepOf, EnvironmentOf, environment, Goto
<1>1. ASSUME NEW s, NEW next, SaveAuditState(r, s, next) PROVE StepOf(r)
  BY <1>1, SaveCases DEF Saved, Raised
<1>2. CASE SaveInitial(r) \/ SaveParsed(r) \/ CompileInvariants(r) \/ ReserveRound(r)
           \/ SaveIndexed(r) \/ AssignVerdicts(r) \/ BuildEvidenceGraph(r)
  BY <1>1, <1>2 DEF SaveInitial, SaveParsed, CompileInvariants, ReserveRound, SaveIndexed,
     AssignVerdicts, BuildEvidenceGraph
<1>3. CASE InvestigateChecks(r)
  BY <1>1, <1>3 DEF InvestigateChecks, Raise
<1>4. CASE Start(r) \/ ReadActions(r) \/ BuildIndex(r) \/ Search(r) \/ Reload(r)
  BY <1>4 DEF Start, ReadActions, BuildIndex, Search, Reload, Raise
<1>5. CASE PersistCompletion(r) \/ ValidateReloaded(r) \/ SaveFailed(r)
  BY <1>5 DEF PersistCompletion, ValidateReloaded, SaveFailed, Raise, Fault, Escape
<1> QED
  BY <1>2, <1>3, <1>4, <1>5 DEF Continue

(* Only Supported bounds the rounds, so a rank is a number of steps ... *)
LEMMA UnsearchedIsFinite ==
  ASSUME NEW r
  PROVE  Unsearched(r) \in SUBSET Supported
BY DEF Unsearched

LEMMA RankIsNat ==
  ASSUME NEW p \in Steps, NEW left \in SUBSET Supported
  PROVE  Rank(p, left) \in Nat /\ (p # "done" => Rank(p, left) >= 1)
BY RankIs, SupportedIsFinite DEF Steps

(* ... and every step of try block and handler is above the handler. *)
LEMMA RankAboveHandler ==
  ASSUME NEW p \in {"begin"} \cup Running, NEW left \in SUBSET Supported, NEW other
  PROVE  Rank(p, left) > Rank("reload", other)
<1>1. Cardinality(left) \in Nat /\ Cardinality(Supported) \in Nat
  BY SupportedIsFinite
<1> QED
  BY <1>1, RankIs DEF Running

(* An exception leads below, to the handler. *)
LEMMA RaiseDescends ==
  ASSUME IInv, NEW r \in Runs, Raised(r), pc[r] \in {"begin"} \cup Running
  PROVE  Measure(r)' < Measure(r) /\ RoundIsNew(r)'
<1>1. pc'[r] = "reload"
  BY DEF Raised, IInv, TypeOK
<1>2. Measure(r)' = Rank("reload", Unsearched(r)')
  BY <1>1 DEF Measure
<1>3. Rank("reload", Unsearched(r)') = 3 /\ Rank("reload", {}) = 3
  BY RankIs
<1>4. Measure(r) > 3
  BY <1>3, RankAboveHandler, UnsearchedIsFinite DEF Measure
<1>5. Measure(r) \in Nat
  BY UnsearchedIsFinite, RankIsNat DEF Measure, IInv, TypeOK
<1> QED
  BY <1>1, <1>2, <1>3, <1>4, <1>5 DEF RoundIsNew

(* A save that goes through leads to the next step, with the same invariants *)
(* left to search where the next step depends on them.                       *)
LEMMA SaveDescends ==
  ASSUME IInv, NEW r \in Runs, NEW s, NEW next, SaveAuditState(r, s, next),
         <<pc[r], next>> \in {<<"begin", "load">>, <<"parsed", "compile">>, <<"compile", "index">>,
                             <<"reserve", "investigate">>, <<"investigate", "verify">>,
                             <<"verify", "graph">>, <<"graph", "complete">>}
  PROVE  Measure(r)' < Measure(r) /\ RoundIsNew(r)'
<1>1. CASE Raised(r)
  BY <1>1, RaiseDescends DEF Running
<1>2. CASE Saved(r, s, next)
  <2>1. pc'[r] = next
    BY <1>2 DEF Saved, IInv, TypeOK
  <2>2. Measure(r)' = Rank(next, Unsearched(r)')
    BY <2>1 DEF Measure
  <2>3. Cardinality(Unsearched(r)) \in Nat /\ Cardinality(Supported) \in Nat
    BY UnsearchedIsFinite, SupportedIsFinite
  <2>4. Rank(next, Unsearched(r)') < Rank(pc[r], Unsearched(r))
    BY <2>3, RankIs
  <2> QED
    BY <2>1, <2>2, <2>4 DEF Measure, RoundIsNew
<1> QED
  BY <1>1, <1>2, SaveCases

LEMMA ReserveRoundDescends ==
  ASSUME IInv, NEW r \in Runs, ReserveRound(r)
  PROVE  Measure(r)' < Measure(r) /\ RoundIsNew(r)'
<1>1. PICK a \in Unsearched(r) :
        SaveAuditState(r, [row[r] EXCEPT !.status = "INDEXING", !.rounds = @ \cup {a},
                                         !.candidates = found[r]], "search")
  BY DEF ReserveRound
<1> DEFINE s == [row[r] EXCEPT !.status = "INDEXING", !.rounds = @ \cup {a},
                               !.candidates = found[r]]
<1>2. pc[r] = "reserve" /\ row[r] \in Snapshot
  BY DEF ReserveRound, IInv, TypeOK
<1>3. s.invariants = row[r].invariants /\ s.rounds = row[r].rounds \cup {a}
  BY <1>2 DEF Snapshot
<1>4. CASE Raised(r)
  BY <1>2, <1>4, RaiseDescends DEF Running
<1>5. CASE Saved(r, s, "search")
  <2>1. pc'[r] = "search" /\ row'[r] = s /\ found'[r] = found[r]
    BY <1>5 DEF Saved, IInv, TypeOK
  <2>2. Unsearched(r)' = Unsearched(r)
    BY <1>3, <2>1 DEF Unsearched
  <2>3. Measure(r)' = Rank("search", Unsearched(r)) /\ Measure(r) = Rank("reserve", Unsearched(r))
    BY <1>2, <2>1, <2>2 DEF Measure
  <2>4. Cardinality(Unsearched(r)) \in Nat
    BY UnsearchedIsFinite, SupportedIsFinite
  <2>5. a \in row'[r].rounds \cap Unsearched(r)'
    BY <1>3, <2>1, <2>2
  <2> QED
    BY <2>3, <2>4, <2>5, RankIs DEF RoundIsNew
<1> QED
  BY <1>1, <1>4, <1>5, SaveCases

LEMMA SearchDescends ==
  ASSUME IInv, NEW r \in Runs, Search(r), RoundIsNew(r)
  PROVE  Measure(r)' < Measure(r) /\ RoundIsNew(r)'
<1>1. pc[r] = "search"
  BY DEF Search
<1>2. CASE Raise(r)
  BY <1>1, <1>2, RaiseCases, RaiseDescends DEF Search, Running
<1>3. CASE ~ Raise(r)
  <2>1. pc'[r] = "reserve" /\ row'[r] = row[r] /\ found'[r] = row[r].rounds
    BY <1>3 DEF Search, Goto, IInv, TypeOK
  <2>2. found[r] \subseteq row[r].rounds
    BY <1>1 DEF IInv, RunInv, RunOK, Progress
  <2>3. Unsearched(r)' \in SUBSET Unsearched(r) /\ Unsearched(r)' # Unsearched(r)
    BY <1>1, <2>1, <2>2 DEF Unsearched, RoundIsNew
  <2>4. /\ Cardinality(Unsearched(r)') < Cardinality(Unsearched(r))
        /\ Cardinality(Unsearched(r)') \in Nat /\ Cardinality(Unsearched(r)) \in Nat
    BY <2>3, UnsearchedIsFinite, SupportedIsFinite
  <2>5. Measure(r)' = Rank("reserve", Unsearched(r)') /\ Measure(r) = Rank("search", Unsearched(r))
    BY <1>1, <2>1 DEF Measure
  <2>6. /\ Rank("reserve", Unsearched(r)') = 8 + 2 * Cardinality(Unsearched(r)')
        /\ Rank("search", Unsearched(r)) = 7 + 2 * Cardinality(Unsearched(r))
    BY RankIs
  <2> QED
    BY <2>1, <2>4, <2>5, <2>6 DEF RoundIsNew
<1> QED
  BY <1>2, <1>3

LEMMA BuildIndexDescends ==
  ASSUME IInv, NEW r \in Runs, BuildIndex(r)
  PROVE  Measure(r)' < Measure(r) /\ RoundIsNew(r)'
<1>1. pc[r] = "index"
  BY DEF BuildIndex
<1>2. CASE Raise(r)
  BY <1>1, <1>2, RaiseCases, RaiseDescends DEF BuildIndex, Running
<1>3. CASE ~ Raise(r)
  <2>1. pc'[r] = "reserve" /\ Unsearched(r)' = Unsearched(r)
    BY <1>3 DEF BuildIndex, Goto, IInv, TypeOK, Unsearched
  <2>2. /\ Cardinality(Unsearched(r)) <= Cardinality(Supported)
        /\ Cardinality(Unsearched(r)) \in Nat /\ Cardinality(Supported) \in Nat
    BY UnsearchedIsFinite, SupportedIsFinite
  <2>3. Measure(r)' = Rank("reserve", Unsearched(r)) /\ Measure(r) = Rank("index", Unsearched(r))
    BY <1>1, <2>1 DEF Measure
  <2> QED
    BY <2>1, <2>2, <2>3, RankIs DEF RoundIsNew
<1> QED
  BY <1>2, <1>3

(* The steps that neither save nor search. *)
LEMMA OtherStepsDescend ==
  ASSUME IInv, NEW r \in Runs,
         Start(r) \/ ReadActions(r) \/ PersistCompletion(r)
           \/ Reload(r) \/ ValidateReloaded(r) \/ SaveFailed(r)
  PROVE  Measure(r)' < Measure(r) /\ RoundIsNew(r)'
<1>1. CASE PersistCompletion(r) /\ Raise(r)
  <2>1. Raised(r)
    BY <1>1, RaiseCases DEF PersistCompletion, Raised, Raise, Fault, Goto, environment, EnvironmentOf
  <2> QED
    BY <1>1, <2>1, RaiseDescends DEF PersistCompletion, Running
<1>2. CASE ~ (PersistCompletion(r) /\ Raise(r))
  <2>1. <<pc[r], pc'[r]>> \in {<<"idle", "begin">>, <<"idle", "done">>, <<"load", "parsed">>,
                              <<"complete", "done">>, <<"reload", "fail">>, <<"reload", "validate">>,
                              <<"validate", "fail">>, <<"validate", "done">>, <<"fail", "done">>}
    BY <1>2 DEF Start, ReadActions, PersistCompletion, Reload, ValidateReloaded, SaveFailed,
       Fault, Escape, Goto, IInv, TypeOK
  <2>2. Cardinality(Supported) \in Nat
    BY SupportedIsFinite
  <2>3. Rank(pc'[r], Unsearched(r)') < Rank(pc[r], Unsearched(r))
    BY <2>1, <2>2, RankIs
  <2> QED
    BY <2>1, <2>3 DEF Measure, RoundIsNew
<1> QED
  BY <1>1, <1>2

LEMMA ContinueDescends ==
  ASSUME IInv, NEW r \in Runs, Start(r) \/ Continue(r), RoundIsNew(r)
  PROVE  Measure(r)' < Measure(r) /\ RoundIsNew(r)'
<1>1. CASE SaveInitial(r) \/ SaveParsed(r) \/ CompileInvariants(r) \/ SaveIndexed(r)
           \/ AssignVerdicts(r) \/ BuildEvidenceGraph(r)
  BY <1>1, SaveDescends DEF SaveInitial, SaveParsed, CompileInvariants, SaveIndexed,
     AssignVerdicts, BuildEvidenceGraph
<1>2. CASE InvestigateChecks(r)
  BY <1>2, SaveDescends, RaiseCases, RaiseDescends DEF InvestigateChecks, Running
<1> QED
  BY <1>1, <1>2, ReserveRoundDescends, SearchDescends, BuildIndexDescends, OtherStepsDescend
  DEF Continue

LEMMA MeasureOfOthers ==
  ASSUME NEW r, pc'[r] = pc[r], row'[r] = row[r], found'[r] = found[r], RoundIsNew(r)
  PROVE  Measure(r)' = Measure(r) /\ RoundIsNew(r)'
<1>1. Unsearched(r)' = Unsearched(r)
  BY DEF Unsearched
<1> QED
  BY <1>1 DEF Measure, RoundIsNew

(* A crash ends the runs that began; the other steps are not a run's. *)
LEMMA CrashDescends ==
  ASSUME IInv, NEW r \in Runs, Crash, RoundIsNew(r)
  PROVE  Measure(r)' <= Measure(r) /\ RoundIsNew(r)'
<1>1. row'[r] = row[r] /\ found'[r] = found[r] /\ (pc'[r] = pc[r] \/ pc'[r] = "done")
  BY DEF Crash, IInv, TypeOK
<1>2. Measure(r) \in Nat
  BY UnsearchedIsFinite, RankIsNat DEF Measure, IInv, TypeOK
<1>3. CASE pc'[r] = pc[r]
  BY <1>1, <1>2, <1>3, MeasureOfOthers
<1>4. CASE pc'[r] = "done"
  <2>1. Measure(r)' = 0
    BY <1>4, RankIs DEF Measure
  <2> QED
    BY <1>2, <1>4, <2>1 DEF RoundIsNew
<1> QED
  BY <1>1, <1>3, <1>4

(* Every step that a run takes lowers its measure, a number, and no step of  *)
(* another request, of a resubmission or of a crash raises it: a run takes   *)
(* at most 14 steps and two for each supported invariant, so no failure path *)
(* of run() repeats and no round is searched twice.                          *)
Descends(r) == /\ Measure(r)' <= Measure(r)
               /\ Start(r) \/ Continue(r) => Measure(r)' < Measure(r)

LEMMA NextDescends ==
  ASSUME IInv, [Next]_vars, NEW r \in Runs, RoundIsNew(r)
  PROVE  Descends(r) /\ RoundIsNew(r)'
<1>1. Measure(r) \in Nat
  BY UnsearchedIsFinite, RankIsNat DEF Measure, IInv, TypeOK
<1>2. CASE Start(r) \/ Continue(r)
  <2>1. Measure(r)' < Measure(r) /\ RoundIsNew(r)'
    BY <1>2, ContinueDescends
  <2>2. Measure(r)' \in Nat
    <3>1. TypeOK'
      BY NextKeeps DEF IInv
    <3> QED
      BY <3>1, UnsearchedIsFinite, RankIsNat DEF Measure, TypeOK, Unsearched
  <2> QED
    BY <1>1, <2>1, <2>2 DEF Descends
<1>3. CASE ~ (Start(r) \/ Continue(r)) /\ ~ Crash
  <2>1. pc'[r] = pc[r] /\ row'[r] = row[r] /\ found'[r] = found[r]
    <3>1. CASE \E q \in Runs : Start(q) \/ Continue(q)
      BY <1>3, <3>1, OwnStep DEF StepOf
    <3>2. CASE SaveIncident \/ Quiet \/ UNCHANGED vars
      BY <3>2 DEF SaveIncident, Quiet, vars, run
    <3> QED
      BY <1>3, <3>1, <3>2 DEF Next
  <2> QED
    BY <1>1, <1>3, <2>1, MeasureOfOthers DEF Descends
<1>4. CASE Crash
  BY <1>3, <1>2, <1>4, CrashDescends DEF Descends
<1> QED
  BY <1>2, <1>3, <1>4

(* What a run has left falls with each step of its thread, in the stages and  *)
(* in the exception handler, and no resubmission, crash or other run raises   *)
(* it: an audit ends after a number of steps that its supported actions bound *)
(* (AuditWorkflow.run).                                                      *)
THEOREM NoStepRepeats ==
  Spec => /\ [](\A r \in Runs : Measure(r) \in Nat /\ Measure(r) <= 14 + 2 * Cardinality(Supported))
          /\ [][\A r \in Runs : Descends(r)]_vars
<1> DEFINE New == \A r \in Runs : RoundIsNew(r)
           Bounded == \A r \in Runs : Measure(r) \in Nat
                                      /\ Measure(r) <= 14 + 2 * Cardinality(Supported)
           Descend == \A r \in Runs : Descends(r)
<1>1. Init => New
  BY DEF Init, RoundIsNew
<1>2. IInv /\ New /\ [Next]_vars => New' /\ Descend
  BY NextDescends
<1>3. IInv => Bounded
  <2> SUFFICES ASSUME IInv, NEW r \in Runs
               PROVE  Measure(r) \in Nat /\ Measure(r) <= 14 + 2 * Cardinality(Supported)
    OBVIOUS
  <2>1. pc[r] \in Steps /\ Unsearched(r) \in SUBSET Supported
    BY UnsearchedIsFinite DEF IInv, TypeOK
  <2>2. /\ Cardinality(Unsearched(r)) <= Cardinality(Supported)
        /\ Cardinality(Unsearched(r)) \in Nat /\ Cardinality(Supported) \in Nat
    BY <2>1, SupportedIsFinite
  <2> QED
    BY <2>1, <2>2, RankIs DEF Measure, Steps
<1> QED
  BY <1>1, <1>2, <1>3, Invariance, PTL DEF Spec

-----------------------------------------------------------------------------
(***************************************************************************)
(* The audit implements AuditPolicy.  What the policy sees of a run is its *)
(* row, its searches and its answer; that the stages come in order needs   *)
(* to know which one is stored at each step.                               *)
(***************************************************************************)
AtStage(p, s, f) ==
  /\ p \in {"load", "parsed"} => s.status = "QUEUED"
  /\ p = "compile" => s.status = "PARSING"
  /\ p = "index" => s.status = "COMPILING_INVARIANTS"
  /\ p = "reserve" => s.status \in {"COMPILING_INVARIANTS", "INDEXING"}
  /\ p \in {"search", "investigate"} => s.status = "INDEXING"
  /\ p = "verify" => s.status = "INVESTIGATING"
  /\ p \in {"graph", "complete"} => s.status = "VERIFYING"
  /\ p \in {"investigate", "verify", "graph", "complete"} => f = s.rounds

StageInv == \A r \in Runs : AtStage(pc[r], row[r], found[r])

RoundsOf(s) == IF s = NoRow THEN {} ELSE s.rounds
StageMap == [r \in Runs |-> row[r].status]
RoundsMap == [r \in Runs |-> IF row[r] = NoRow THEN {} ELSE row[r].rounds]

(* A step of the policy that run r takes. *)
PolicyStepOf(r) ==
  /\ answer[r] = "none"
  /\ \/ Policy!Advance(r) \/ Policy!Charge(r) \/ Policy!Search(r)
     \/ Policy!Complete(r) \/ Policy!Fail(r) \/ Policy!Abort(r)
PolicyStutter == UNCHANGED <<StageMap, RoundsMap, found, answer>>

(* What a step of run r must do: as the policy says, and reach its stage. *)
Implements(r) == /\ PolicyStepOf(r) \/ PolicyStutter
                 /\ AtStage(pc'[r], row'[r], found'[r])

(* A run that is not over has no answer and a stage that is not final. *)
LEMMA UnderWay ==
  ASSUME IInv, NEW r \in Runs, pc[r] # "done"
  PROVE  answer[r] = "none" /\ row[r].status \in Policy!Under
<1>1. row[r] \in Snapshot \/ row[r] = NoRow
  BY DEF IInv, TypeOK
<1>2. row[r] # NoRow => row[r].status \in Stage
  BY <1>1, SnapshotIsNotNoRow DEF IInv, RunInv, RunOK, Snapshot
<1>3. NoRow.status = "NO ROW"
  BY DEF NoRow
<1> QED
  BY <1>2, <1>3 DEF IInv, RunInv, RunOK, Policy!Under, Stage

(* The row of one run changes. *)
LEMMA OneRowChanges ==
  ASSUME IInv, NEW r \in Runs, NEW s, row' = [row EXCEPT ![r] = s]
  PROVE  /\ row'[r] = s
         /\ StageMap' = [StageMap EXCEPT ![r] = s.status]
         /\ RoundsMap' = [RoundsMap EXCEPT ![r] = RoundsOf(s)]
<1>1. \A q \in Runs : row'[q] = IF q = r THEN s ELSE row[q]
  BY DEF IInv, TypeOK
<1>2. \A q \in Runs : row'[q].status = IF q = r THEN s.status ELSE row[q].status
  BY <1>1
<1>3. \A q \in Runs : RoundsMap'[q] = IF q = r THEN RoundsOf(s) ELSE RoundsMap[q]
  BY <1>1 DEF RoundsMap, RoundsOf
<1>4. StageMap' = [StageMap EXCEPT ![r] = s.status]
  BY <1>2 DEF StageMap
<1>5. RoundsMap' = [RoundsMap EXCEPT ![r] = RoundsOf(s)]
  BY <1>3 DEF RoundsMap
<1> QED
  BY <1>1, <1>4, <1>5

LEMMA RaiseImplements ==
  ASSUME IInv, NEW r \in Runs, Raised(r)
  PROVE  Implements(r)
<1>1. pc'[r] = "reload"
  BY DEF Raised, IInv, TypeOK
<1> QED
  BY <1>1 DEF Raised, Implements, PolicyStutter, StageMap, RoundsMap, AtStage

(* A stage is saved: the same or the next one, and no other round. *)
LEMMA SaveImplements ==
  ASSUME IInv, NEW r \in Runs, NEW s, NEW next, SaveAuditState(r, s, next), pc[r] # "done",
         s.status = row[r].status \/ (s.status \in Policy!Under
                                       /\ <<row[r].status, s.status>> \in Policy!Follows),
         RoundsOf(s) = RoundsOf(row[r]), AtStage(next, s, found[r])
  PROVE  Implements(r)
<1>1. CASE Raised(r)
  BY <1>1, RaiseImplements
<1>2. CASE Saved(r, s, next)
  <2>1. pc'[r] = next /\ row' = [row EXCEPT ![r] = s] /\ UNCHANGED <<found, answer>>
    BY <1>2 DEF Saved, IInv, TypeOK
  <2>2. /\ row'[r] = s
        /\ StageMap' = [StageMap EXCEPT ![r] = s.status]
        /\ RoundsMap' = [RoundsMap EXCEPT ![r] = RoundsOf(s)]
    BY <2>1, OneRowChanges
  <2>3. RoundsMap' = RoundsMap
    BY <2>2 DEF RoundsMap, RoundsOf
  <2>4. CASE s.status = row[r].status
    <3>1. StageMap' = StageMap
      BY <2>2, <2>4 DEF StageMap
    <3> QED
      BY <2>1, <2>2, <2>3, <3>1 DEF Implements, PolicyStutter
  <2>5. CASE s.status \in Policy!Under /\ <<row[r].status, s.status>> \in Policy!Follows
    <3>1. Policy!Advance(r)
      BY <2>1, <2>2, <2>3, <2>5 DEF Policy!Advance, Policy!Enter, StageMap, RoundsMap
    <3> QED
      BY <2>1, <2>2, <3>1, UnderWay DEF Implements, PolicyStepOf
  <2> QED
    BY <2>4, <2>5
<1> QED
  BY <1>1, <1>2, SaveCases

(* The stages that only save. *)
LEMMA StageImplements ==
  ASSUME IInv, StageInv, NEW r \in Runs,
         SaveParsed(r) \/ CompileInvariants(r) \/ SaveIndexed(r)
           \/ AssignVerdicts(r) \/ BuildEvidenceGraph(r)
  PROVE  Implements(r)
<1>1. /\ pc[r] \in {"parsed", "compile", "reserve", "verify", "graph"}
      /\ row[r] \in Snapshot /\ row[r] # NoRow
  BY SnapshotIsNotNoRow
  DEF SaveParsed, CompileInvariants, SaveIndexed, AssignVerdicts, BuildEvidenceGraph, IInv, TypeOK
<1>2. AtStage(pc[r], row[r], found[r])
  BY DEF StageInv
<1>3. ASSUME NEW s, NEW next, SaveAuditState(r, s, next), s # NoRow, s.rounds = row[r].rounds,
             s.status = row[r].status \/ (s.status \in Policy!Under
                                           /\ <<row[r].status, s.status>> \in Policy!Follows),
             AtStage(next, s, found[r])
      PROVE  Implements(r)
  BY <1>1, <1>3, SaveImplements DEF RoundsOf
<1>4. CASE SaveParsed(r)
  <2> DEFINE s == [row[r] EXCEPT !.status = "PARSING"]
  <2>1. pc[r] = "parsed" /\ SaveAuditState(r, s, "compile")
    BY <1>4 DEF SaveParsed
  <2>2. s.status = "PARSING" /\ s.rounds = row[r].rounds /\ s # NoRow
    BY <1>1 DEF Snapshot, NoRow
  <2>3. row[r].status = "QUEUED"
    BY <1>2, <2>1 DEF AtStage
  <2> QED
    BY <1>3, <2>1, <2>2, <2>3 DEF AtStage, Policy!Follows, Policy!Under
<1>5. CASE CompileInvariants(r)
  <2> DEFINE s == [row[r] EXCEPT !.status = "COMPILING_INVARIANTS", !.invariants = known[r]]
  <2>1. pc[r] = "compile" /\ SaveAuditState(r, s, "index")
    BY <1>5 DEF CompileInvariants
  <2>2. s.status = "COMPILING_INVARIANTS" /\ s.rounds = row[r].rounds /\ s # NoRow
    BY <1>1 DEF Snapshot, NoRow
  <2>3. row[r].status = "PARSING"
    BY <1>2, <2>1 DEF AtStage
  <2> QED
    BY <1>3, <2>1, <2>2, <2>3 DEF AtStage, Policy!Follows, Policy!Under
<1>6. CASE SaveIndexed(r)
  <2> DEFINE s == [row[r] EXCEPT !.status = "INDEXING", !.candidates = found[r]]
  <2>1. pc[r] = "reserve" /\ SaveAuditState(r, s, "investigate")
    BY <1>6 DEF SaveIndexed
  <2>2. s.status = "INDEXING" /\ s.rounds = row[r].rounds /\ s # NoRow
    BY <1>1 DEF Snapshot, NoRow
  <2>3. row[r].status \in {"COMPILING_INVARIANTS", "INDEXING"} /\ found[r] = row[r].rounds
    BY <1>2, <2>1 DEF AtStage, IInv, RunInv, RunOK, Progress, Running
  <2> QED
    BY <1>3, <2>1, <2>2, <2>3 DEF AtStage, Policy!Follows, Policy!Under
<1>7. CASE AssignVerdicts(r)
  <2> DEFINE s == [row[r] EXCEPT !.status = "VERIFYING", !.verdicts = known[r]]
  <2>1. pc[r] = "verify" /\ SaveAuditState(r, s, "graph")
    BY <1>7 DEF AssignVerdicts
  <2>2. s.status = "VERIFYING" /\ s.rounds = row[r].rounds /\ s # NoRow
    BY <1>1 DEF Snapshot, NoRow
  <2>3. row[r].status = "INVESTIGATING" /\ found[r] = row[r].rounds
    BY <1>2, <2>1 DEF AtStage
  <2> QED
    BY <1>3, <2>1, <2>2, <2>3 DEF AtStage, Policy!Follows, Policy!Under
<1>8. CASE BuildEvidenceGraph(r)
  <2> DEFINE s == [row[r] EXCEPT !.graph = RecordsOf(row[r], known[r])]
  <2>1. pc[r] = "graph" /\ SaveAuditState(r, s, "complete")
    BY <1>8 DEF BuildEvidenceGraph
  <2>2. row[r].status = "VERIFYING" /\ found[r] = row[r].rounds
    BY <1>2, <2>1 DEF AtStage
  <2>3. s.status = "VERIFYING" /\ s.rounds = row[r].rounds
    BY <1>1, <2>2 DEF Snapshot
  <2>4. s # NoRow
    BY <2>3 DEF NoRow
  <2> QED
    BY <1>3, <2>1, <2>2, <2>3, <2>4 DEF AtStage
<1> QED
  BY <1>4, <1>5, <1>6, <1>7, <1>8

LEMMA SaveInitialImplements ==
  ASSUME IInv, NEW r \in Runs, SaveInitial(r)
  PROVE  Implements(r)
<1> DEFINE s == Initial(known[r])
<1>1. pc[r] = "begin" /\ SaveAuditState(r, s, "load")
  BY DEF SaveInitial
<1>2. row[r] = NoRow
  BY <1>1 DEF IInv, RunInv, RunOK, Progress
<1>3. s.status = "QUEUED" /\ s.rounds = {}
  BY DEF Initial
<1>4. NoRow.status = "NO ROW"
  BY DEF NoRow
<1>5. s # NoRow
  BY <1>3, <1>4
<1> HIDE DEF s
<1> QED
  BY <1>1, <1>2, <1>3, <1>4, <1>5, SaveImplements
  DEF RoundsOf, AtStage, Policy!Follows, Policy!Under

LEMMA InvestigateImplements ==
  ASSUME IInv, StageInv, NEW r \in Runs, InvestigateChecks(r)
  PROVE  Implements(r)
<1> DEFINE s == [row[r] EXCEPT !.status = "INVESTIGATING", !.results = row[r].invariants]
<1>1. /\ pc[r] = "investigate" /\ row[r] \in Snapshot /\ row[r] # NoRow
      /\ SaveAuditState(r, s, "verify") \/ Raised(r)
  BY RaiseCases, SnapshotIsNotNoRow DEF InvestigateChecks, IInv, TypeOK
<1>2. s.status = "INVESTIGATING" /\ s.rounds = row[r].rounds /\ s # NoRow
  BY <1>1 DEF Snapshot, NoRow
<1>3. row[r].status = "INDEXING" /\ found[r] = row[r].rounds
  BY <1>1 DEF StageInv, AtStage
<1> HIDE DEF s
<1> QED
  BY <1>1, <1>2, <1>3, SaveImplements, RaiseImplements
  DEF RoundsOf, AtStage, Policy!Follows, Policy!Under

(* A round is charged. *)
LEMMA ReserveImplements ==
  ASSUME IInv, StageInv, NEW r \in Runs, ReserveRound(r)
  PROVE  Implements(r)
<1>1. PICK a \in Unsearched(r) :
        SaveAuditState(r, [row[r] EXCEPT !.status = "INDEXING", !.rounds = @ \cup {a},
                                         !.candidates = found[r]], "search")
  BY DEF ReserveRound
<1> DEFINE s == [row[r] EXCEPT !.status = "INDEXING", !.rounds = @ \cup {a},
                               !.candidates = found[r]]
<1>2. pc[r] = "reserve" /\ row[r] \in Snapshot /\ row[r] # NoRow
  BY SnapshotIsNotNoRow DEF ReserveRound, IInv, TypeOK
<1>3. s.status = "INDEXING" /\ s.rounds = row[r].rounds \cup {a} /\ s # NoRow
  BY <1>2 DEF Snapshot, NoRow
<1>4. a \in Actions /\ a \notin row[r].rounds
  BY <1>2, ActionsAssumption DEF Unsearched, IInv, RunInv, RunOK, Progress, Running
<1>5. row[r].status \in {"COMPILING_INVARIANTS", "INDEXING"}
  BY <1>2 DEF StageInv, AtStage
<1>6. CASE Raised(r)
  BY <1>6, RaiseImplements
<1>7. CASE Saved(r, s, "search")
  <2>1. pc'[r] = "search" /\ row' = [row EXCEPT ![r] = s] /\ UNCHANGED <<found, answer>>
    BY <1>7 DEF Saved, IInv, TypeOK
  <2> HIDE DEF s
  <2>0. RoundsOf(s) = row[r].rounds \cup {a}
    BY <1>3 DEF RoundsOf
  <2>2. /\ row'[r] = s
        /\ StageMap' = [StageMap EXCEPT ![r] = "INDEXING"]
        /\ RoundsMap' = [RoundsMap EXCEPT ![r] = row[r].rounds \cup {a}]
    <3>1. /\ row'[r] = s
          /\ StageMap' = [StageMap EXCEPT ![r] = s.status]
          /\ RoundsMap' = [RoundsMap EXCEPT ![r] = RoundsOf(s)]
      BY <2>1, OneRowChanges
    <3> QED
      BY <1>3, <2>0, <3>1
  <2>3. StageMap[r] = row[r].status /\ RoundsMap[r] = row[r].rounds
    BY <1>2 DEF StageMap, RoundsMap
  <2>4. Policy!Charge(r)
    <3>1. RoundsMap' = [RoundsMap EXCEPT ![r] = RoundsMap[r] \cup {a}]
      BY <2>2, <2>3
    <3> QED
      BY <1>4, <1>5, <2>1, <2>2, <2>3, <3>1 DEF Policy!Charge, Policy!Enter, StageMap, RoundsMap
  <2> QED
    BY <1>2, <1>3, <2>1, <2>2, <2>4, UnderWay DEF Implements, PolicyStepOf, AtStage
<1> QED
  BY <1>1, <1>6, <1>7, SaveCases

LEMMA SearchImplements ==
  ASSUME IInv, StageInv, NEW r \in Runs, Search(r)
  PROVE  Implements(r)
<1>1. pc[r] = "search" /\ row[r] \in Snapshot /\ row[r] # NoRow
  BY SnapshotIsNotNoRow DEF Search, IInv, TypeOK
<1>2. row[r].status = "INDEXING"
  BY <1>1 DEF StageInv, AtStage
<1>3. CASE Raise(r)
  BY <1>3, RaiseCases, RaiseImplements DEF Search
<1>4. CASE ~ Raise(r)
  <2>1. /\ pc'[r] = "reserve" /\ UNCHANGED <<row, answer>>
        /\ found' = [found EXCEPT ![r] = row[r].rounds]
    BY <1>4 DEF Search, Goto, IInv, TypeOK
  <2>2. StageMap[r] = "INDEXING" /\ RoundsMap[r] = row[r].rounds
    BY <1>1, <1>2 DEF StageMap, RoundsMap
  <2>3. StageMap' = StageMap /\ RoundsMap' = RoundsMap
    BY <2>1 DEF StageMap, RoundsMap
  <2>4. Policy!Search(r)
    BY <2>1, <2>2, <2>3 DEF Policy!Search, StageMap, RoundsMap
  <2> QED
    BY <1>1, <1>2, <2>1, <2>4, UnderWay DEF Implements, PolicyStepOf, AtStage
<1> QED
  BY <1>3, <1>4

(* Steps that change nothing the policy sees. *)
LEMMA InnerImplements ==
  ASSUME IInv, StageInv, NEW r \in Runs, ReadActions(r) \/ BuildIndex(r) \/ Reload(r)
  PROVE  Implements(r)
<1>1. UNCHANGED <<row, found, answer>>
  BY DEF ReadActions, BuildIndex, Reload, Raise
<1>2. <<pc[r], pc'[r]>> \in {<<"load", "parsed">>, <<"index", "reserve">>}
      \/ pc'[r] \in {"reload", "fail", "validate"}
  BY DEF ReadActions, BuildIndex, Reload, Raise, Goto, IInv, TypeOK
<1>3. AtStage(pc[r], row[r], found[r])
  BY DEF StageInv
<1>4. AtStage(pc'[r], row'[r], found'[r])
  BY <1>1, <1>2, <1>3 DEF AtStage
<1> QED
  BY <1>1, <1>4 DEF Implements, PolicyStutter, StageMap, RoundsMap

(* The end of a request: an error, *)
LEMMA AbortImplements ==
  ASSUME IInv, NEW r \in Runs, pc[r] # "done", pc'[r] \in {"begin", "done"},
         UNCHANGED <<row, found>>, answer' = answer \/ answer' = [answer EXCEPT ![r] = "error"]
  PROVE  Implements(r)
<1>1. AtStage(pc'[r], row'[r], found'[r])
  BY DEF AtStage
<1>2. StageMap' = StageMap /\ RoundsMap' = RoundsMap
  BY DEF StageMap, RoundsMap
<1>3. CASE answer' = answer
  BY <1>1, <1>2, <1>3 DEF Implements, PolicyStutter
<1>4. CASE answer' = [answer EXCEPT ![r] = "error"]
  <2>1. Policy!Abort(r)
    BY <1>2, <1>4, UnderWay DEF Policy!Abort, Policy!Return, StageMap, RoundsMap
  <2> QED
    BY <1>1, <2>1, UnderWay DEF Implements, PolicyStepOf
<1> QED
  BY <1>3, <1>4

(* a run that is COMPLETE, *)
LEMMA PersistImplements ==
  ASSUME IInv, StageInv, NEW r \in Runs, PersistCompletion(r)
  PROVE  Implements(r)
<1> DEFINE s == [row[r] EXCEPT !.status = "COMPLETE"]
<1>1. pc[r] = "complete" /\ row[r] \in Snapshot /\ row[r] # NoRow
  BY SnapshotIsNotNoRow DEF PersistCompletion, IInv, TypeOK
<1>2. s.status = "COMPLETE" /\ s.rounds = row[r].rounds /\ s # NoRow
  BY <1>1 DEF Snapshot, NoRow
<1>3. row[r].status = "VERIFYING"
  BY <1>1 DEF StageInv, AtStage
<1>4. CASE Raise(r)
  <2>1. Raised(r)
    BY <1>4 DEF PersistCompletion, Raised, Raise, Fault, Goto, environment, EnvironmentOf
  <2> QED
    BY <2>1, RaiseImplements
<1>5. CASE ~ Raise(r)
  <2>1. /\ pc'[r] = "done" /\ row' = [row EXCEPT ![r] = s] /\ found' = found
        /\ answer' = [answer EXCEPT ![r] = "COMPLETE"]
    BY <1>5 DEF PersistCompletion, Fault, Goto, IInv, TypeOK
  <2> HIDE DEF s
  <2>0. RoundsOf(s) = row[r].rounds
    BY <1>2 DEF RoundsOf
  <2>2. /\ StageMap' = [StageMap EXCEPT ![r] = "COMPLETE"]
        /\ RoundsMap' = [RoundsMap EXCEPT ![r] = row[r].rounds]
    <3>1. /\ row'[r] = s
          /\ StageMap' = [StageMap EXCEPT ![r] = s.status]
          /\ RoundsMap' = [RoundsMap EXCEPT ![r] = RoundsOf(s)]
      BY <2>1, OneRowChanges
    <3> QED
      BY <1>2, <2>0, <3>1
  <2>3. StageMap[r] = "VERIFYING" /\ RoundsMap[r] = row[r].rounds /\ RoundsMap' = RoundsMap
    BY <1>1, <1>3, <2>2 DEF StageMap, RoundsMap
  <2>4. found[r] = row[r].rounds
    BY <1>1 DEF StageInv, AtStage
  <2>5. Policy!Complete(r)
    BY <2>1, <2>2, <2>3, <2>4 DEF Policy!Complete, Policy!Enter, Policy!Return, StageMap, RoundsMap
  <2> QED
    BY <1>1, <2>1, <2>5, UnderWay DEF Implements, PolicyStepOf, AtStage
<1> QED
  BY <1>4, <1>5

(* or one that is FAILED. *)
LEMMA SaveFailedImplements ==
  ASSUME IInv, NEW r \in Runs, SaveFailed(r)
  PROVE  Implements(r)
<1> DEFINE s == [(IF row[r] = NoRow THEN Initial(known[r]) ELSE row[r]) EXCEPT !.status = "FAILED"]
<1>1. pc[r] = "fail" /\ pc'[r] = "done"
  BY DEF SaveFailed, Escape, Goto, IInv, TypeOK
<1>2. CASE UNCHANGED row
  <2>1. Escape(r)
    <3>1. s.status = "FAILED"
      <4>1. CASE row[r] = NoRow
        BY <4>1 DEF Initial
      <4>2. CASE row[r] # NoRow
        BY <4>2 DEF IInv, TypeOK, Snapshot
      <4> QED
        BY <4>1, <4>2
    <3>2. row[r].status # "FAILED"
      BY <1>1, UnderWay DEF Policy!Under
    <3>3. row' # [row EXCEPT ![r] = s]
      BY <1>2, <3>1, <3>2 DEF IInv, TypeOK
    <3> QED
      BY <3>3 DEF SaveFailed
  <2> QED
    BY <1>1, <2>1, AbortImplements DEF Escape
<1>3. CASE ~ UNCHANGED row
  <2>1. /\ row' = [row EXCEPT ![r] = s] /\ found' = found
        /\ answer' = [answer EXCEPT ![r] = "FAILED"]
    BY <1>3 DEF SaveFailed, Escape
  <2>2. s.status = "FAILED" /\ s.rounds = RoundsOf(row[r])
    <3>1. CASE row[r] = NoRow
      BY <3>1 DEF Initial, RoundsOf
    <3>2. CASE row[r] # NoRow
      BY <3>2 DEF IInv, TypeOK, Snapshot, RoundsOf
    <3> QED
      BY <3>1, <3>2
  <2> HIDE DEF s
  <2>3. RoundsOf(s) = RoundsOf(row[r])
    <3>1. NoRow.status = "NO ROW"
      BY DEF NoRow
    <3>2. s # NoRow
      BY <2>2, <3>1
    <3> QED
      BY <2>2, <3>2 DEF RoundsOf
  <2>4. /\ StageMap' = [StageMap EXCEPT ![r] = "FAILED"]
        /\ RoundsMap' = [RoundsMap EXCEPT ![r] = RoundsOf(row[r])]
    BY <2>1, <2>2, <2>3, OneRowChanges
  <2>5. RoundsMap' = RoundsMap
    BY <2>4 DEF RoundsMap, RoundsOf
  <2>6. StageMap[r] \in Policy!Under
    BY <1>1, UnderWay DEF StageMap
  <2>7. Policy!Fail(r)
    BY <2>1, <2>4, <2>5, <2>6 DEF Policy!Fail, Policy!Enter, Policy!Return, StageMap, RoundsMap
  <2> QED
    BY <1>1, <2>1, <2>7, UnderWay DEF Implements, PolicyStepOf, AtStage
<1> QED
  BY <1>2, <1>3

LEMMA OwnStepImplements ==
  ASSUME IInv, StageInv, NEW r \in Runs, Start(r) \/ Continue(r)
  PROVE  Implements(r)
<1>1. CASE Start(r)
  BY <1>1, AbortImplements DEF Start, Goto, IInv, TypeOK
<1>2. CASE ValidateReloaded(r)
  <2>1. CASE Escape(r)
    BY <1>2, <2>1, AbortImplements DEF ValidateReloaded, Escape, Goto, IInv, TypeOK
  <2>2. CASE ~ Escape(r)
    <3>1. pc'[r] = "fail" /\ UNCHANGED <<row, found, answer>>
      BY <1>2, <2>2 DEF ValidateReloaded, Goto, IInv, TypeOK
    <3> QED
      BY <3>1 DEF Implements, PolicyStutter, StageMap, RoundsMap, AtStage
  <2> QED
    BY <2>1, <2>2
<1> QED
  BY <1>1, <1>2, SaveInitialImplements, StageImplements, InvestigateImplements,
     ReserveImplements, SearchImplements, InnerImplements, PersistImplements, SaveFailedImplements
  DEF Continue

LEMMA PolicyStep ==
  ASSUME IInv, StageInv, [Next]_vars
  PROVE  StageInv' /\ [Policy!Next]_(Policy!vars)
<1>1. CASE \E r \in Runs : Start(r) \/ Continue(r)
  <2>1. PICK r \in Runs : Start(r) \/ Continue(r)
    BY <1>1
  <2>2. Implements(r) /\ StepOf(r)
    BY <2>1, OwnStepImplements, OwnStep
  <2>3. \A q \in Runs : AtStage(pc'[q], row'[q], found'[q])
    BY <2>2 DEF Implements, StepOf, StageInv
  <2>4. StageInv'
    BY <2>3 DEF StageInv
  <2>5. Policy!Next \/ PolicyStutter
    BY <2>2 DEF Implements, PolicyStepOf, Policy!Next
  <2> QED
    BY <2>4, <2>5 DEF PolicyStutter, Policy!vars, StageMap, RoundsMap
<1>2. CASE SaveIncident \/ Crash \/ Quiet \/ UNCHANGED vars
  <2>1. UNCHANGED <<row, found, answer>>
    BY <1>2 DEF SaveIncident, Crash, Quiet, vars, run
  <2>2. \A r \in Runs : pc'[r] = pc[r] \/ pc'[r] = "done"
    BY <1>2 DEF SaveIncident, Crash, Quiet, vars, run, IInv, TypeOK
  <2>3. StageInv'
    BY <2>1, <2>2 DEF StageInv, AtStage
  <2> QED
    BY <2>1, <2>3 DEF Policy!vars
<1> QED
  BY <1>1, <1>2 DEF Next

(* Whatever fails, is resubmitted or crashes: the stored stages come in      *)
(* order, a round is charged once and before it is searched, a run completes *)
(* from its last stage with every charged round searched, and nothing        *)
(* happens to it after its answer.                                           *)
THEOREM AuditRunImplementsPolicy == Spec => ImplementsPolicy
<1>1. Init => Policy!Init
  <2> SUFFICES ASSUME Init PROVE Policy!Init
    OBVIOUS
  <2>1. \A r \in Runs : row[r] = NoRow /\ row[r].status = "NO ROW"
    BY DEF Init, NoRow
  <2> QED
    BY <2>1 DEF Init, Policy!Init
<1>2. Init => StageInv
  BY DEF Init, StageInv, AtStage
<1> QED
  BY <1>1, <1>2, PolicyStep, Invariance, PTL DEF Spec, Policy!Spec, ImplementsPolicy
=============================================================================
