------------------------- MODULE StoreSchema_proofs -------------------------
(* Proofs about StoreSchema: an opened store has the current schema, and its *)
(* migration forgets no model call.                                          *)
EXTENDS StoreSchema, FiniteSetTheorems, WellFoundedInduction, TLAPS

(* The part of the type invariant that the proof needs. *)
Typed ==
  /\ version \in 0..(SCHEMA_VERSION + 1)
  /\ tables \subseteq AllTables
  /\ pc \in [Processes -> {"closed", "tables", "create", "counters", "totals",
                           "guards", "check", "ready", "raised"}]
  /\ found \in [Processes -> 0..SCHEMA_VERSION]
  /\ seen \in [Processes -> SUBSET AllTables]
  /\ at \in [Processes -> Nat \ {0}]

(* Tables are never dropped: what a process read or created is there. *)
Grown ==
  \A p \in Processes :
    /\ seen[p] \subseteq tables
    /\ pc[p] = "create" => \A k \in 1..Len(Script) : k < at[p] => Script[k] \in tables

(* What the version can be, by how far each process is. *)
Versioned ==
  \A p \in Processes :
    /\ pc[p] \in {"tables", "create"} /\ found[p] = 0 => version \in {0, 3}
    /\ pc[p] = "create" => found[p] = 0 /\ seen[p] = {}
    /\ pc[p] = "counters" => found[p] = 1
    /\ pc[p] \in {"tables", "counters"} /\ found[p] = 1 => version = 1 \/ Counters \in tables
    /\ pc[p] = "tables" /\ found[p] = 2 => version \in {2, 3}
    /\ pc[p] = "tables" /\ found[p] = 3 => version = 3
    /\ pc[p] = "totals" => version = 1 /\ Counters \in tables
    /\ pc[p] = "guards" => version \in {2, 3}
    /\ pc[p] \in {"check", "ready"} => version = 3
    /\ pc[p] = "ready" => tables = AllTables

(* Only one process created the counters. *)
OneCopies ==
  \A p, q \in Processes : pc[p] = "totals" /\ pc[q] = "totals" => p = q

IInv == Typed /\ Grown /\ Versioned /\ OneCopies

LEMMA ScriptTables ==
  /\ Len(Script) \in Nat
  /\ \A k \in 1..Len(Script) : Script[k] \in AllTables
  /\ \A t \in AllTables : \E k \in 1..Len(Script) : t = Script[k]
  /\ Counters \in AllTables /\ GuardTables \subseteq AllTables
BY SchemaAssumption DEF AllTables

LEMMA WholeScript ==
  ASSUME NEW present, present \subseteq AllTables, \A k \in 1..Len(Script) : Script[k] \in present
  PROVE  present = AllTables
BY DEF AllTables

LEMMA InitIInv == Init => IInv
BY ScriptTables DEF Init, IInv, Typed, Grown, Versioned, OneCopies, TablesOf, SCHEMA_VERSION

LEMMA StepIInv == IInv /\ [Next]_vars => IInv'
<1> SUFFICES ASSUME IInv, [Next]_vars PROVE IInv'
  OBVIOUS
<1> USE ScriptTables DEF IInv, Typed, Grown, Versioned, OneCopies, SCHEMA_VERSION, Goto
<1>1. ASSUME NEW p \in Processes, ReadVersion(p) PROVE IInv'
  <2> USE <1>1 DEF ReadVersion
  <2>1. Typed'
    OBVIOUS
  <2>2. Grown'
    OBVIOUS
  <2>3. Versioned'
    OBVIOUS
  <2>4. OneCopies'
    OBVIOUS
  <2>5. QED
    BY <2>1, <2>2, <2>3, <2>4
<1>2. ASSUME NEW p \in Processes, ReadTables(p) PROVE IInv'
  BY <1>2 DEF ReadTables
<1>3. ASSUME NEW p \in Processes, CreateTable(p) PROVE IInv'
  <2> USE <1>3 DEF CreateTable
  <2>1. Typed'
    <3>1. at[p] \in 1..Len(Script) /\ Script[at[p]] \in AllTables
      OBVIOUS
    <3>2. tables' \subseteq AllTables
      BY <3>1
    <3>3. at' \in [Processes -> Nat \ {0}]
      BY <3>1
    <3>4. QED
      BY <3>2, <3>3
  <2>2. Grown'
    OBVIOUS
  <2>3. UNCHANGED <<version, found>> /\ tables \subseteq tables'
    OBVIOUS
  <2>4. ASSUME NEW q \in Processes, pc'[q] \notin {"closed", "raised"} PROVE pc'[q] = pc[q]
    BY <2>4
  <2>5. Versioned'
    <3>1. \A q \in Processes : pc'[q] = pc[q] \/ pc'[q] = "raised"
      BY <2>4
    <3>2. tables' \subseteq AllTables /\ seen' = seen
      BY <2>1
    <3> QED
      BY ONLY IInv, <2>3, <3>1, <3>2 DEF IInv, Versioned
  <2>6. OneCopies'
    BY <2>4
  <2>7. QED
    BY <2>1, <2>2, <2>5, <2>6
<1>4. ASSUME NEW p \in Processes, SetCreated(p) PROVE IInv'
  <2> USE <1>4 DEF SetCreated
  <2>1. Typed'
    OBVIOUS
  <2>2. Grown'
    OBVIOUS
  <2>3. tables = AllTables
    <3>1. \A k \in 1..Len(Script) : Script[k] \in tables
      OBVIOUS
    <3>2. QED
      BY <3>1, WholeScript
  <2>4. version \in {0, 3} /\ version' = 3 /\ UNCHANGED <<tables, found>>
    OBVIOUS
  <2>5. \A q \in Processes : q # p => pc'[q] = pc[q]
    OBVIOUS
  <2>6. pc'[p] = "ready"
    OBVIOUS
  <2>7. Versioned'
    BY <2>3, <2>4, <2>5, <2>6
  <2>8. OneCopies'
    BY <2>5, <2>6
  <2>9. QED
    BY <2>1, <2>2, <2>7, <2>8
<1>5. ASSUME NEW p \in Processes, CreateCounters(p) PROVE IInv'
  <2> USE <1>5 DEF CreateCounters
  <2>1. Typed'
    OBVIOUS
  <2>2. Grown'
    OBVIOUS
  <2>3. Versioned'
    OBVIOUS
  <2>4. OneCopies'
    OBVIOUS
  <2>5. QED
    BY <2>1, <2>2, <2>3, <2>4
<1>6. ASSUME NEW p \in Processes, CopyTotals(p) PROVE IInv'
  <2>1. CASE Totalled \subseteq tables
    <3> USE <1>6, <2>1 DEF CopyTotals
    <3>1. Typed'
      <4>1. tables' = tables /\ seen' = [seen EXCEPT ![p] = seen[p] \cup {Counters}]
        OBVIOUS
      <4>2. seen' \in [Processes -> SUBSET AllTables]
        BY <4>1
      <4>3. QED
        BY <4>1, <4>2
    <3>2. Grown'
      OBVIOUS
    <3>3. Versioned'
      OBVIOUS
    <3>4. OneCopies'
      OBVIOUS
    <3>5. QED
      BY <3>1, <3>2, <3>3, <3>4
  <2>2. CASE ~ (Totalled \subseteq tables)
    <3>1. pc' = [pc EXCEPT ![p] = "raised"] /\ UNCHANGED <<version, tables, found, seen, at>>
      BY <1>6, <2>2 DEF CopyTotals
    <3>2. Typed' /\ Grown' /\ OneCopies'
      BY <3>1
    <3>3. Versioned'
      BY <3>1
    <3>4. QED
      BY <3>2, <3>3
  <2>3. QED
    BY <2>1, <2>2
<1>7. ASSUME NEW p \in Processes, CreateGuardTable(p) PROVE IInv'
  BY <1>7 DEF CreateGuardTable, locals
<1>8. ASSUME NEW p \in Processes, SetMigrated(p) PROVE IInv'
  BY <1>8 DEF SetMigrated
<1>9. ASSUME NEW p \in Processes, CheckTables(p) PROVE IInv'
  BY <1>9 DEF CheckTables
<1>10. ASSUME NEW p \in Processes, Close(p) PROVE IInv'
  BY <1>10 DEF Close
<1>11. ASSUME NEW p \in Processes, Crash(p) PROVE IInv'
  BY <1>11 DEF Crash
<1>12. CASE UNCHANGED vars
  BY <1>12 DEF vars
<1>13. QED
  BY <1>1, <1>2, <1>3, <1>4, <1>5, <1>6, <1>7, <1>8, <1>9, <1>10, <1>11, <1>12
  DEF Next, Initialize

(* A table that a script creates is one of the schema, and a statement it is  *)
(* at is one of its own or the end.                                           *)
LEMMA StepTyped == TypeOK /\ [Next]_vars => TypeOK'
<1> SUFFICES ASSUME TypeOK, [Next]_vars PROVE TypeOK'
  OBVIOUS
<1> USE ScriptTables DEF TypeOK, SCHEMA_VERSION, Goto
<1>1. ASSUME NEW p \in Processes, ReadVersion(p) PROVE TypeOK'
  BY <1>1 DEF ReadVersion
<1>2. ASSUME NEW p \in Processes, ReadTables(p) PROVE TypeOK'
  BY <1>2 DEF ReadTables
<1>3. ASSUME NEW p \in Processes, CreateTable(p) PROVE TypeOK'
  <2>0. at[p] \in 1..(Len(Script) + 1) /\ at[p] <= Len(Script)
    BY <1>3 DEF CreateTable
  <2>1. at[p] \in 1..Len(Script) /\ Script[at[p]] \in AllTables /\ at[p] + 1 \in 1..(Len(Script) + 1)
    BY <2>0
  <2>2. tables' \subseteq AllTables /\ at' \in [Processes -> 1..(Len(Script) + 1)]
    BY <1>3, <2>1 DEF CreateTable
  <2>3. QED
    BY <1>3, <2>2 DEF CreateTable
<1>4. ASSUME NEW p \in Processes, SetCreated(p) PROVE TypeOK'
  BY <1>4 DEF SetCreated
<1>5. ASSUME NEW p \in Processes, CreateCounters(p) PROVE TypeOK'
  BY <1>5 DEF CreateCounters
<1>6. ASSUME NEW p \in Processes, CopyTotals(p) PROVE TypeOK'
  <2>1. counters' = counters \/ DOMAIN counters' = {budgets[r].incident : r \in Runs}
    BY <1>6 DEF CopyTotals
  <2>2. \A r \in Runs : budgets[r].incident \in Incidents
    BY DEF Budget
  <2>3. DOMAIN counters' \subseteq Incidents
    BY <2>1, <2>2
  <2>4. CASE Totalled \subseteq tables
    <3>1. /\ version' = 2 /\ pc' = [pc EXCEPT ![p] = "guards"]
          /\ seen' = [seen EXCEPT ![p] = seen[p] \cup {Counters}]
          /\ UNCHANGED <<tables, budgets, found, at, crashes, intact>>
      BY <1>6, <2>4 DEF CopyTotals
    <3>2. seen' \in [Processes -> SUBSET AllTables]
      BY <3>1
    <3>3. QED
      BY <2>3, <3>1, <3>2
  <2>5. CASE ~ (Totalled \subseteq tables)
    BY <1>6, <2>5 DEF CopyTotals
  <2>6. QED
    BY <2>4, <2>5
<1>7. ASSUME NEW p \in Processes, CreateGuardTable(p) PROVE TypeOK'
  BY <1>7 DEF CreateGuardTable, locals
<1>8. ASSUME NEW p \in Processes, SetMigrated(p) PROVE TypeOK'
  BY <1>8 DEF SetMigrated
<1>9. ASSUME NEW p \in Processes, CheckTables(p) PROVE TypeOK'
  BY <1>9 DEF CheckTables
<1>10. ASSUME NEW p \in Processes, Close(p) PROVE TypeOK'
  BY <1>10 DEF Close
<1>11. ASSUME NEW p \in Processes, Crash(p) PROVE TypeOK'
  BY <1>11, SchemaAssumption DEF Crash
<1>12. CASE UNCHANGED vars
  BY <1>12 DEF vars
<1>13. QED
  BY <1>1, <1>2, <1>3, <1>4, <1>5, <1>6, <1>7, <1>8, <1>9, <1>10, <1>11, <1>12
  DEF Next, Initialize

(* The state of a store that opens, and of its counters, has its type: a      *)
(* process stays inside the script and counters are those of incidents.       *)
THEOREM TypeCorrect == Spec => []TypeOK
<1>1. Init => TypeOK
  BY ScriptTables, SchemaAssumption DEF Init, TypeOK, Budget, TablesOf, SCHEMA_VERSION
<1>2. QED
  BY <1>1, StepTyped, PTL DEF Spec

(* Every store that opened has version 3 and every table, for any number of  *)
(* processes that create, migrate and crash at once (_initialize_schema).    *)
THEOREM ReadyIsCurrentCorrect == Spec => []ReadyIsCurrent
<1>1. IInv => ReadyIsCurrent
  BY DEF IInv, Versioned, ReadyIsCurrent, SCHEMA_VERSION
<1>2. QED
  BY InitIInv, StepIInv, <1>1, PTL DEF Spec

(* A file of an unknown version, or unversioned with tables, stays as it is   *)
(* while processes reject it (_initialize_schema).                            *)
THEOREM ForeignUntouchedCorrect == Spec => ForeignUntouched
<1> DEFINE Foreign ==
      \/ version > SCHEMA_VERSION
      \/ version = 0 /\ tables # {} /\ \A p \in Processes : pc[p] = "create" => seen[p] # {}
<1>1. ASSUME IInv, Next, Foreign PROVE UNCHANGED <<version, tables>>
  <2> USE <1>1 DEF IInv, Typed, Versioned, SCHEMA_VERSION
  <2>1. PICK p \in Processes : ReadVersion(p) \/ Initialize(p) \/ Close(p) \/ Crash(p)
    BY DEF Next
  <2>2. ~ SetCreated(p) /\ ~ CreateTable(p)
    BY DEF SetCreated, CreateTable
  <2>3. ~ CopyTotals(p) /\ ~ CreateGuardTable(p) /\ ~ SetMigrated(p)
    BY DEF CopyTotals, CreateGuardTable, SetMigrated
  <2>4. CreateCounters(p) => UNCHANGED <<version, tables>>
    BY DEF CreateCounters
  <2>5. ReadVersion(p) \/ ReadTables(p) \/ CheckTables(p) \/ Close(p) \/ Crash(p)
          => UNCHANGED <<version, tables>>
    BY DEF ReadVersion, ReadTables, CheckTables, Close, Crash
  <2>6. QED
    BY <2>1, <2>2, <2>3, <2>4, <2>5 DEF Initialize
<1>2. UNCHANGED vars => UNCHANGED <<version, tables>>
  BY DEF vars
<1>3. IInv /\ [Next]_vars => [Foreign => UNCHANGED <<version, tables>>]_vars
  BY <1>1, <1>2
<1>4. QED
  BY InitIInv, StepIInv, <1>3, PTL DEF Spec, ForeignUntouched

-----------------------------------------------------------------------------
(***************************************************************************)
(* Totals.  CopyTotals folds over the runs of an incident.  A fold is a    *)
(* recursive function on the subsets of the runs that takes one element    *)
(* after the other away; that such a function exists, and what holds of    *)
(* it, follows by taking the smallest subset where it would fail.          *)
(***************************************************************************)
Pick(s) == CHOOSE x \in s : TRUE

Below == {p \in Nat \X Nat : p[1] < p[2]}

LEMMA BelowIsLess == OpToRel(<, Nat) = Below
BY Zenon DEF OpToRel, Below

(* Every set of numbers that is not empty has a least element. *)
LEMMA Least ==
  ASSUME NEW S \in SUBSET Nat, S # {}
  PROVE  \E n \in S : \A m \in S : n <= m
<1>1. PICK n \in S : \A m \in S : ~ (<<m, n>> \in Below)
  BY BelowIsLess, NatLessThanWellFounded, WFMin
<1>2. ASSUME NEW m \in S PROVE n <= m
  <2>1. ~ (<<m, n>> \in Below)
    BY <1>1
  <2>2. m \in Nat /\ n \in Nat
    OBVIOUS
  <2>3. QED
    BY <2>1, <2>2 DEF Below
<1>3. QED
  BY <1>2

LEMMA PickOut ==
  ASSUME NEW s, IsFiniteSet(s), s # {}
  PROVE  /\ Pick(s) \in s /\ s \ {Pick(s)} \subseteq s
         /\ IsFiniteSet(s \ {Pick(s)})
         /\ Cardinality(s) \in Nat \ {0}
         /\ Cardinality(s \ {Pick(s)}) = Cardinality(s) - 1
<1>1. Pick(s) \in s
  BY DEF Pick
<1>2. QED
  BY <1>1, FS_RemoveElement, FS_CardinalityType, FS_EmptySet

(* What passes from a set without its pick to the set holds of all subsets. *)
LEMMA BySubset ==
  ASSUME NEW S, IsFiniteSet(S), NEW G \in SUBSET (SUBSET S), {} \in G,
         \A s \in SUBSET S : s # {} /\ s \ {Pick(s)} \in G => s \in G
  PROVE  G = SUBSET S
<1> SUFFICES ASSUME NEW bad \in SUBSET S, bad \notin G PROVE FALSE
  OBVIOUS
<1> DEFINE Sizes == {n \in Nat : \E s \in SUBSET S : s \notin G /\ Cardinality(s) = n}
<1>1. \A s \in SUBSET S : IsFiniteSet(s) /\ Cardinality(s) \in Nat
  BY FS_Subset, FS_CardinalityType
<1>2. PICK n \in Sizes : \A m \in Sizes : n <= m
  <2>1. Cardinality(bad) \in Sizes
    BY <1>1
  <2>2. QED
    BY <2>1, Least
<1>3. PICK s \in SUBSET S : s \notin G /\ Cardinality(s) = n
  BY <1>2
<1>4. s # {}
  BY <1>3
<1>5. s \ {Pick(s)} \in SUBSET S /\ Cardinality(s \ {Pick(s)}) = n - 1 /\ n \in Nat \ {0}
  BY <1>1, <1>3, <1>4, PickOut
<1>6. s \ {Pick(s)} \notin G
  BY <1>3, <1>4
<1>7. n - 1 \in Sizes
  BY <1>5, <1>6
<1>8. QED
  BY <1>2, <1>5, <1>7

(* The recursive functions of a fold; there is one. *)
Folding(S, V, base, step) ==
  {f \in [SUBSET S -> V] :
     \A s \in SUBSET S : f[s] = IF s = {} THEN base ELSE step[<<Pick(s), f[s \ {Pick(s)}]>>]}

LEMMA FoldExists ==
  ASSUME NEW S, IsFiniteSet(S), NEW V, NEW base \in V, NEW step \in [S \X V -> V]
  PROVE  Folding(S, V, base, step) # {}
<1> DEFINE UpTo(n) == {s \in SUBSET S : Cardinality(s) <= n}
           Folds(f, n) == /\ f \in [UpTo(n) -> V]
                          /\ \A s \in UpTo(n) :
                               f[s] = IF s = {} THEN base
                                      ELSE step[<<Pick(s), f[s \ {Pick(s)}]>>]
           Missing == {n \in Nat : ~ \E f : Folds(f, n)}
<1>1. \A s \in SUBSET S : IsFiniteSet(s) /\ Cardinality(s) \in Nat
  BY FS_Subset, FS_CardinalityType
<1>2. \A s \in SUBSET S : s # {} =>
        /\ Pick(s) \in S /\ s \ {Pick(s)} \in SUBSET S
        /\ Cardinality(s) \in Nat \ {0} /\ Cardinality(s \ {Pick(s)}) = Cardinality(s) - 1
  BY <1>1, PickOut
<1>3. \E f : Folds(f, 0)
  <2>1. UpTo(0) = {{}}
    <3>1. Cardinality({}) = 0
      BY FS_EmptySet
    <3>2. ASSUME NEW s \in UpTo(0), s # {} PROVE FALSE
      <4>1. s \in SUBSET S /\ Cardinality(s) <= 0
        OBVIOUS
      <4>2. Cardinality(s) \in Nat \ {0}
        BY <1>2, <3>2, <4>1
      <4>3. QED
        BY <4>1, <4>2
    <3>3. QED
      BY <3>1, <3>2
  <2>2. Folds([s \in {{}} |-> base], 0)
    BY <2>1
  <2>3. QED
    BY <2>2
<1>4. ASSUME NEW n \in Nat, \E f : Folds(f, n) PROVE \E f : Folds(f, n + 1)
  <2>1. PICK f : Folds(f, n)
    BY <1>4
  <2> DEFINE g == [s \in UpTo(n + 1) |->
                     IF s = {} THEN base ELSE step[<<Pick(s), f[s \ {Pick(s)}]>>]]
  <2>2. ASSUME NEW s \in UpTo(n + 1), s # {}
        PROVE  s \ {Pick(s)} \in UpTo(n) /\ s \ {Pick(s)} \in UpTo(n + 1) /\ Pick(s) \in S
    <3>1. Cardinality(s) <= n + 1
      OBVIOUS
    <3>2. Cardinality(s \ {Pick(s)}) <= n
      BY <1>2, <2>2, <3>1
    <3>3. QED
      BY <1>2, <2>2, <3>2
  <2>3. g \in [UpTo(n + 1) -> V]
    <3>1. ASSUME NEW s \in UpTo(n + 1), s # {}
          PROVE  step[<<Pick(s), f[s \ {Pick(s)}]>>] \in V
      <4>1. f[s \ {Pick(s)}] \in V /\ Pick(s) \in S
        BY <2>1, <2>2, <3>1
      <4>2. QED
        BY <4>1
    <3>2. QED
      BY <3>1
  <2>4. \A s \in UpTo(n) : s \in UpTo(n + 1) /\ g[s] = f[s]
    <3>1. \A s \in UpTo(n) : s \in UpTo(n + 1)
      BY <1>1
    <3>2. QED
      BY <2>1, <3>1
  <2>5. \A s \in UpTo(n + 1) : g[s] = IF s = {} THEN base ELSE step[<<Pick(s), g[s \ {Pick(s)}]>>]
    <3> SUFFICES ASSUME NEW s \in UpTo(n + 1), s # {}
                 PROVE  g[s] = step[<<Pick(s), g[s \ {Pick(s)}]>>]
      OBVIOUS
    <3>1. g[s] = step[<<Pick(s), f[s \ {Pick(s)}]>>]
      OBVIOUS
    <3>2. g[s \ {Pick(s)}] = f[s \ {Pick(s)}]
      BY <2>2, <2>4
    <3>3. QED
      BY <3>1, <3>2
  <2> HIDE DEF g
  <2>6. QED
    BY <2>3, <2>5
<1>5. Missing = {}
  <2> HIDE DEF Folds
  <2> SUFFICES ASSUME Missing # {} PROVE FALSE
    OBVIOUS
  <2>1. PICK n \in Missing : \A m \in Missing : n <= m
    BY Least
  <2>2. n # 0
    BY <1>3
  <2>3. n - 1 \in Nat /\ (n - 1) + 1 = n
    BY <2>2
  <2>4. n - 1 \notin Missing
    BY <2>1, <2>3
  <2>5. \E f : Folds(f, n - 1)
    BY <2>3, <2>4
  <2>6. \E f : Folds(f, (n - 1) + 1)
    BY <1>4, <2>3, <2>5
  <2>7. QED
    BY <2>3, <2>6
<1>6. PICK f : Folds(f, Cardinality(S))
  BY <1>1, <1>5
<1>7. UpTo(Cardinality(S)) = SUBSET S
  BY FS_Subset
<1>8. QED
  BY <1>6, <1>7 DEF Folding

(***************************************************************************)
(* The three folds over the runs of an incident: the calls capped after    *)
(* each run (CopyTotals), the lowest limit, and the plain sum.             *)
(***************************************************************************)
UsedFold(S) ==
  CHOOSE f : f = [s \in SUBSET S |->
                    IF s = {} THEN 0 ELSE Capped(f[s \ {Pick(s)}] + budgets[Pick(s)].used)]
LimitFold(S) ==
  CHOOSE f : f = [s \in SUBSET S |->
                    IF s = {} THEN CallCap ELSE Lower(f[s \ {Pick(s)}], budgets[Pick(s)].limit)]
SpentFold(S) ==
  CHOOSE f : f = [s \in SUBSET S |->
                    IF s = {} THEN 0 ELSE budgets[Pick(s)].used + f[s \ {Pick(s)}]]

LEMMA TotalIs ==
  ASSUME NEW i
  PROVE  Total(i) = [used |-> Lower(UsedFold(RunsOf(i))[RunsOf(i)], LimitFold(RunsOf(i))[RunsOf(i)]),
                     limit |-> LimitFold(RunsOf(i))[RunsOf(i)]]
<1>1. FoldSet(LAMBDA r, total : Capped(total + budgets[r].used), 0, RunsOf(i))
        = UsedFold(RunsOf(i))[RunsOf(i)]
  BY DEF FoldSet, MapThenFoldSet, Pick, UsedFold
<1>2. FoldSet(LAMBDA r, least : Lower(least, budgets[r].limit), CallCap, RunsOf(i))
        = LimitFold(RunsOf(i))[RunsOf(i)]
  BY DEF FoldSet, MapThenFoldSet, Pick, LimitFold
<1>3. QED
  BY <1>1, <1>2 DEF Total

LEMMA SpentIs ==
  ASSUME NEW S
  PROVE  MapThenSumSet(LAMBDA r : budgets[r].used, S) = SpentFold(S)[S]
BY DEF MapThenSumSet, MapThenFoldSet, Pick, SpentFold

LEMMA CappedIs == \A n \in Nat : Capped(n) \in 0..CallCap /\ (Capped(n) = n \/ Capped(n) = CallCap)
BY SchemaAssumption DEF Capped

LEMMA LowerIs ==
  \A m, n \in Nat : Lower(m, n) \in {m, n} /\ Lower(m, n) <= m /\ Lower(m, n) <= n
BY DEF Lower

(* Each fold is the recursive function it is chosen to be. *)
LEMMA UsedFoldIs ==
  ASSUME NEW S, IsFiniteSet(S), \A r \in S : budgets[r].used \in Nat
  PROVE  \A s \in SUBSET S :
           UsedFold(S)[s] = IF s = {} THEN 0 ELSE Capped(UsedFold(S)[s \ {Pick(s)}] + budgets[Pick(s)].used)
<1> DEFINE step == [p \in S \X (0..CallCap) |-> Capped(p[2] + budgets[p[1]].used)]
           Is(f) == f = [s \in SUBSET S |->
                           IF s = {} THEN 0 ELSE Capped(f[s \ {Pick(s)}] + budgets[Pick(s)].used)]
<1>1. step \in [S \X (0..CallCap) -> (0..CallCap)] /\ 0 \in (0..CallCap)
  <2>1. \A p \in S \X (0..CallCap) : p[2] + budgets[p[1]].used \in Nat
    BY SchemaAssumption
  <2>2. \A p \in S \X (0..CallCap) : Capped(p[2] + budgets[p[1]].used) \in 0..CallCap
    BY <2>1, CappedIs
  <2>3. QED
    BY <2>2, SchemaAssumption
<1> HIDE DEF step
<1>2. PICK f \in [SUBSET S -> (0..CallCap)] :
        \A s \in SUBSET S : f[s] = IF s = {} THEN 0 ELSE step[<<Pick(s), f[s \ {Pick(s)}]>>]
  <2>1. Folding(S, (0..CallCap), 0, step) # {}
    BY <1>1, FoldExists
  <2>2. QED
    BY <2>1 DEF Folding
<1>3. ASSUME NEW s \in SUBSET S, s # {}
      PROVE  f[s] = Capped(f[s \ {Pick(s)}] + budgets[Pick(s)].used)
  <2>1. Pick(s) \in S /\ f[s \ {Pick(s)}] \in (0..CallCap)
    BY <1>3, PickOut, FS_Subset
  <2>2. f[s] = step[<<Pick(s), f[s \ {Pick(s)}]>>]
    BY <1>2, <1>3
  <2>3. QED
    BY <2>1, <2>2 DEF step
<1>4. f[{}] = 0
  BY <1>2
<1>5. Is(f)
  BY <1>2, <1>3, <1>4
<1> DEFINE u == UsedFold(S)
<1>6. Is(u)
  <2>1. u = CHOOSE g : Is(g)
    BY DEF UsedFold
  <2> HIDE DEF Is, u
  <2>2. QED
    BY <1>5, <2>1
<1> HIDE DEF u
<1>7. \A s \in SUBSET S :
        u[s] = IF s = {} THEN 0 ELSE Capped(u[s \ {Pick(s)}] + budgets[Pick(s)].used)
  BY <1>6
<1>8. QED
  BY <1>7 DEF u

LEMMA LimitFoldIs ==
  ASSUME NEW S, IsFiniteSet(S), \A r \in S : budgets[r].limit \in Nat \ {0}
  PROVE  \A s \in SUBSET S :
           LimitFold(S)[s] = IF s = {} THEN CallCap ELSE Lower(LimitFold(S)[s \ {Pick(s)}], budgets[Pick(s)].limit)
<1> DEFINE step == [p \in S \X (1..CallCap) |-> Lower(p[2], budgets[p[1]].limit)]
           Is(f) == f = [s \in SUBSET S |->
                           IF s = {} THEN CallCap ELSE Lower(f[s \ {Pick(s)}], budgets[Pick(s)].limit)]
<1>1. step \in [S \X (1..CallCap) -> (1..CallCap)] /\ CallCap \in (1..CallCap)
  <2>1. \A p \in S \X (1..CallCap) : Lower(p[2], budgets[p[1]].limit) \in 1..CallCap
    BY SchemaAssumption DEF Lower
  <2>2. QED
    BY <2>1, SchemaAssumption
<1> HIDE DEF step
<1>2. PICK f \in [SUBSET S -> (1..CallCap)] :
        \A s \in SUBSET S : f[s] = IF s = {} THEN CallCap ELSE step[<<Pick(s), f[s \ {Pick(s)}]>>]
  <2>1. Folding(S, (1..CallCap), CallCap, step) # {}
    BY <1>1, FoldExists
  <2>2. QED
    BY <2>1 DEF Folding
<1>3. ASSUME NEW s \in SUBSET S, s # {}
      PROVE  f[s] = Lower(f[s \ {Pick(s)}], budgets[Pick(s)].limit)
  <2>1. Pick(s) \in S /\ f[s \ {Pick(s)}] \in (1..CallCap)
    BY <1>3, PickOut, FS_Subset
  <2>2. f[s] = step[<<Pick(s), f[s \ {Pick(s)}]>>]
    BY <1>2, <1>3
  <2>3. QED
    BY <2>1, <2>2 DEF step
<1>4. f[{}] = CallCap
  BY <1>2
<1>5. Is(f)
  BY <1>2, <1>3, <1>4
<1> DEFINE u == LimitFold(S)
<1>6. Is(u)
  <2>1. u = CHOOSE g : Is(g)
    BY DEF LimitFold
  <2> HIDE DEF Is, u
  <2>2. QED
    BY <1>5, <2>1
<1> HIDE DEF u
<1>7. \A s \in SUBSET S :
        u[s] = IF s = {} THEN CallCap ELSE Lower(u[s \ {Pick(s)}], budgets[Pick(s)].limit)
  BY <1>6
<1>8. QED
  BY <1>7 DEF u

LEMMA SpentFoldIs ==
  ASSUME NEW S, IsFiniteSet(S), \A r \in S : budgets[r].used \in Nat
  PROVE  \A s \in SUBSET S :
           SpentFold(S)[s] = IF s = {} THEN 0 ELSE budgets[Pick(s)].used + SpentFold(S)[s \ {Pick(s)}]
<1> DEFINE step == [p \in S \X Nat |-> budgets[p[1]].used + p[2]]
           Is(f) == f = [s \in SUBSET S |->
                           IF s = {} THEN 0 ELSE budgets[Pick(s)].used + f[s \ {Pick(s)}]]
<1>1. step \in [S \X Nat -> Nat] /\ 0 \in Nat
  <2>1. \A p \in S \X Nat : budgets[p[1]].used + p[2] \in Nat
    OBVIOUS
  <2>2. QED
    BY <2>1
<1> HIDE DEF step
<1>2. PICK f \in [SUBSET S -> Nat] :
        \A s \in SUBSET S : f[s] = IF s = {} THEN 0 ELSE step[<<Pick(s), f[s \ {Pick(s)}]>>]
  <2>1. Folding(S, Nat, 0, step) # {}
    BY <1>1, FoldExists
  <2>2. QED
    BY <2>1 DEF Folding
<1>3. ASSUME NEW s \in SUBSET S, s # {}
      PROVE  f[s] = budgets[Pick(s)].used + f[s \ {Pick(s)}]
  <2>1. Pick(s) \in S /\ f[s \ {Pick(s)}] \in Nat
    BY <1>3, PickOut, FS_Subset
  <2>2. f[s] = step[<<Pick(s), f[s \ {Pick(s)}]>>]
    BY <1>2, <1>3
  <2>3. QED
    BY <2>1, <2>2 DEF step
<1>4. f[{}] = 0
  BY <1>2
<1>5. Is(f)
  BY <1>2, <1>3, <1>4
<1> DEFINE u == SpentFold(S)
<1>6. Is(u)
  <2>1. u = CHOOSE g : Is(g)
    BY DEF SpentFold
  <2> HIDE DEF Is, u
  <2>2. QED
    BY <1>5, <2>1
<1> HIDE DEF u
<1>7. \A s \in SUBSET S :
        u[s] = IF s = {} THEN 0 ELSE budgets[Pick(s)].used + u[s \ {Pick(s)}]
  BY <1>6
<1>8. QED
  BY <1>7 DEF u

(* Capping after each run is capping the sum, and no limit is lower than the *)
(* lowest.                                                                   *)
LEMMA FoldsAgree ==
  ASSUME NEW S, IsFiniteSet(S),
         \A r \in S : budgets[r].used \in Nat /\ budgets[r].limit \in Nat \ {0}
  PROVE  /\ SpentFold(S)[S] \in Nat
         /\ UsedFold(S)[S] = Capped(SpentFold(S)[S])
         /\ LimitFold(S)[S] \in 1..CallCap
         /\ \A r \in S : LimitFold(S)[S] <= budgets[r].limit
<1> DEFINE used == UsedFold(S)
           limit == LimitFold(S)
           spent == SpentFold(S)
           G == {s \in SUBSET S :
                   /\ spent[s] \in Nat /\ used[s] = Capped(spent[s])
                   /\ limit[s] \in 1..CallCap
                   /\ \A r \in s : limit[s] <= budgets[r].limit}
<1>1. \A s \in SUBSET S :
        /\ used[s] = IF s = {} THEN 0 ELSE Capped(used[s \ {Pick(s)}] + budgets[Pick(s)].used)
        /\ limit[s] = IF s = {} THEN CallCap ELSE Lower(limit[s \ {Pick(s)}], budgets[Pick(s)].limit)
        /\ spent[s] = IF s = {} THEN 0 ELSE budgets[Pick(s)].used + spent[s \ {Pick(s)}]
  BY UsedFoldIs, LimitFoldIs, SpentFoldIs
<1> HIDE DEF used, limit, spent
<1>2. {} \in G
  <2>1. used[{}] = 0 /\ limit[{}] = CallCap /\ spent[{}] = 0
    BY <1>1
  <2>2. Capped(0) = 0 /\ CallCap \in 1..CallCap
    BY SchemaAssumption DEF Capped
  <2>3. QED
    BY <2>1, <2>2
<1>3. ASSUME NEW s \in SUBSET S, s # {}, s \ {Pick(s)} \in G PROVE s \in G
  <2> DEFINE rest == s \ {Pick(s)}
             n == spent[rest]
             k == budgets[Pick(s)].used
  <2>1. Pick(s) \in s /\ IsFiniteSet(s)
    BY <1>3, PickOut, FS_Subset
  <2>2. n \in Nat /\ k \in Nat /\ budgets[Pick(s)].limit \in Nat \ {0} /\ limit[rest] \in 1..CallCap
    BY <1>3, <2>1
  <2>3. spent[s] = k + n /\ used[s] = Capped(Capped(n) + k)
    BY <1>1, <1>3
  <2>4. Capped(Capped(n) + k) = Capped(k + n)
    <3> HIDE DEF n, k
    <3>1. QED
      BY <2>2, SchemaAssumption DEF Capped
  <2>5. limit[s] = Lower(limit[rest], budgets[Pick(s)].limit)
    BY <1>1, <1>3
  <2>6. \A r \in rest : limit[rest] <= budgets[r].limit
    BY <1>3
  <2>7. limit[s] \in 1..CallCap /\ limit[s] <= limit[rest] /\ limit[s] <= budgets[Pick(s)].limit
    <3> HIDE DEF rest
    <3>1. QED
      BY <2>2, <2>5, SchemaAssumption DEF Lower
  <2>8. \A r \in s : limit[s] <= budgets[r].limit
    <3>1. ASSUME NEW r \in rest PROVE limit[s] <= budgets[r].limit
      <4>1. limit[rest] <= budgets[r].limit /\ budgets[r].limit \in Nat
        BY <2>6
      <4> HIDE DEF rest
      <4>2. QED
        BY <2>2, <2>7, <4>1
    <3>2. QED
      BY <2>7, <3>1
  <2>9. spent[s] \in Nat
    <3> HIDE DEF n, k
    <3>1. QED
      BY <2>2, <2>3
  <2>10. QED
    BY <2>3, <2>4, <2>7, <2>8, <2>9
<1>4. G = SUBSET S
  <2>1. G \in SUBSET (SUBSET S)
    OBVIOUS
  <2> HIDE DEF G
  <2>2. QED
    BY <1>2, <1>3, <2>1, BySubset
<1>5. S \in G
  BY <1>4
<1>6. QED
  BY <1>5 DEF used, limit, spent

(* What CopyTotals writes for an incident. *)
LEMMA TotalCarriesOver ==
  ASSUME TypeOK, NEW i
  PROVE  LET spent == MapThenSumSet(LAMBDA r : budgets[r].used, RunsOf(i))
         IN  /\ Total(i) \in Usage /\ Total(i).used <= Total(i).limit
             /\ \A r \in RunsOf(i) : Total(i).limit <= budgets[r].limit
             /\ Total(i).used = spent \/ Total(i).used = Total(i).limit
<1> DEFINE S == RunsOf(i)
           n == SpentFold(S)[S]
           m == LimitFold(S)[S]
<1>1. IsFiniteSet(S) /\ S \subseteq Runs
  BY FS_Subset, SchemaAssumption DEF RunsOf
<1>2. \A r \in S : budgets[r].used \in Nat /\ budgets[r].limit \in Nat \ {0}
  BY <1>1, SchemaAssumption DEF TypeOK, Budget
<1>3. /\ n \in Nat /\ UsedFold(S)[S] = Capped(n)
      /\ m \in 1..CallCap /\ \A r \in S : m <= budgets[r].limit
  BY <1>1, <1>2, FoldsAgree
<1>4. Total(i) = [used |-> Lower(Capped(n), m), limit |-> m]
  BY <1>3, TotalIs
<1>5. MapThenSumSet(LAMBDA r : budgets[r].used, S) = n
  BY SpentIs
<1> HIDE DEF n, m
<1>6. /\ Lower(Capped(n), m) \in 0..CallCap /\ Lower(Capped(n), m) <= m
      /\ Lower(Capped(n), m) = n \/ Lower(Capped(n), m) = m
  BY <1>3, SchemaAssumption DEF Capped, Lower
<1>7. QED
  BY <1>3, <1>4, <1>5, <1>6 DEF Usage

(* For any number of runs, incidents and processes, whatever crashed before: *)
(* the migration of version 1 forgets no model call of an incident unless    *)
(* its limit is used up anyway, and takes the lowest limit of its runs       *)
(* (_migrate_v1_to_v2).                                                      *)
THEOREM CallsCarriedOverCorrect == Spec => CallsCarriedOver
<1> DEFINE Carried ==
      \A i \in {budgets[r].incident : r \in Runs} :
        LET spent == MapThenSumSet(LAMBDA r : budgets[r].used, RunsOf(i))
        IN  /\ i \in DOMAIN counters'
            /\ counters'[i] \in Usage /\ counters'[i].used <= counters'[i].limit
            /\ \A r \in RunsOf(i) : counters'[i].limit <= budgets[r].limit
            /\ counters'[i].used = spent \/ counters'[i].used = counters'[i].limit
<1>1. ASSUME IInv, Next, version = 1, version' # 1 PROVE \E p \in Processes : CopyTotals(p)
  <2> USE <1>1 DEF IInv, Typed, Versioned, SCHEMA_VERSION
  <2>1. PICK p \in Processes : ReadVersion(p) \/ Initialize(p) \/ Close(p) \/ Crash(p)
    BY DEF Next
  <2>2. ~ SetCreated(p) /\ ~ SetMigrated(p)
    BY DEF SetCreated, SetMigrated
  <2>3. ~ (ReadVersion(p) \/ ReadTables(p) \/ CreateTable(p) \/ CreateCounters(p)
           \/ CreateGuardTable(p) \/ CheckTables(p) \/ Close(p) \/ Crash(p))
    BY DEF ReadVersion, ReadTables, CreateTable, CreateCounters, CreateGuardTable, CheckTables,
       Close, Crash
  <2>4. QED
    BY <2>1, <2>2, <2>3 DEF Initialize
<1>2. ASSUME TypeOK, NEW p \in Processes, CopyTotals(p), version' # version PROVE Carried
  <2>1. counters' = [i \in {budgets[r].incident : r \in Runs} |-> Total(i)]
    BY <1>2 DEF CopyTotals
  <2> SUFFICES ASSUME NEW i \in {budgets[r].incident : r \in Runs}
               PROVE  LET spent == MapThenSumSet(LAMBDA r : budgets[r].used, RunsOf(i))
                      IN  /\ i \in DOMAIN counters'
                          /\ counters'[i] \in Usage /\ counters'[i].used <= counters'[i].limit
                          /\ \A r \in RunsOf(i) : counters'[i].limit <= budgets[r].limit
                          /\ counters'[i].used = spent \/ counters'[i].used = counters'[i].limit
    OBVIOUS
  <2>2. i \in DOMAIN counters' /\ counters'[i] = Total(i)
    BY <2>1
  <2>3. QED
    BY <1>2, <2>2, TotalCarriesOver
<1>3. UNCHANGED vars => version' = version
  BY DEF vars
<1>4. IInv /\ TypeOK /\ [Next]_vars => [version = 1 /\ version' # 1 => Carried]_vars
  BY <1>1, <1>2, <1>3
<1>5. QED
  BY InitIInv, StepIInv, TypeCorrect, <1>4, PTL DEF Spec, CallsCarriedOver

-----------------------------------------------------------------------------
(***************************************************************************)
(* How far the failed upgrade reaches (MigratesForward).  A start fails on *)
(* a file of an older release only after somebody created its counters,    *)
(* and without a crash that process is still there and completes the       *)
(* upgrade.                                                                *)
(***************************************************************************)
Migrating ==
  intact =>
    /\ AllTables \ (GuardTables \cup {Counters}) \subseteq tables
    /\ \A p \in Processes :
         pc[p] = "raised" /\ version \in {1, 2} => found[p] = 1 /\ Counters \in tables
    /\ crashes = 0 =>
         /\ version = 1 /\ Counters \in tables => \E q \in Processes : pc[q] = "totals"
         /\ version = 2 /\ (\E p \in Processes :
                              found[p] = 1 /\ pc[p] \in {"tables", "counters", "raised"})
              => \E q \in Processes : pc[q] = "guards"

LEMMA InitMigrating == Init => Migrating
<1> SUFFICES ASSUME Init, intact PROVE Migrating
  BY DEF Migrating
<1>1. version \in {1, 2} /\ tables = TablesOf(version) /\ \A p \in Processes : pc[p] = "closed"
  BY DEF Init
<1>2. AllTables \ (GuardTables \cup {Counters}) \subseteq tables /\ (version = 1 => Counters \notin tables)
  BY <1>1, ScriptTables DEF TablesOf
<1>3. QED
  BY <1>1, <1>2 DEF Migrating

LEMMA StepMigrating == IInv /\ TypeOK /\ Migrating /\ [Next]_vars => Migrating'
<1> SUFFICES ASSUME IInv, TypeOK, Migrating, [Next]_vars PROVE Migrating'
  OBVIOUS
<1> USE ScriptTables DEF IInv, Typed, Versioned, SCHEMA_VERSION, Goto
<1>1. ASSUME NEW p \in Processes, ReadVersion(p) PROVE Migrating'
  BY <1>1 DEF ReadVersion, Migrating
<1>2. ASSUME NEW p \in Processes, ReadTables(p) PROVE Migrating'
  BY <1>2 DEF ReadTables, Migrating
<1>3. ASSUME NEW p \in Processes, CreateTable(p) PROVE Migrating'
  <2>1. version \in {0, 3} /\ version' = version /\ intact' = intact /\ tables \subseteq tables'
    BY <1>3 DEF CreateTable
  <2>2. QED
    BY <2>1 DEF Migrating
<1>4. ASSUME NEW p \in Processes, SetCreated(p) PROVE Migrating'
  BY <1>4 DEF SetCreated, Migrating
<1>5. ASSUME NEW p \in Processes, CreateCounters(p) PROVE Migrating'
  BY <1>5 DEF CreateCounters, Migrating
<1>6. ASSUME NEW p \in Processes, CopyTotals(p) PROVE Migrating'
  <2>1. intact => Totalled \subseteq tables
    BY SchemaAssumption DEF Migrating
  <2>2. CASE intact
    BY <1>6, <2>1, <2>2 DEF CopyTotals, Migrating
  <2>3. CASE ~ intact
    BY <1>6, <2>3 DEF CopyTotals, Migrating
  <2>4. QED
    BY <2>2, <2>3 DEF TypeOK
<1>7. ASSUME NEW p \in Processes, CreateGuardTable(p) PROVE Migrating'
  BY <1>7 DEF CreateGuardTable, locals, Migrating
<1>8. ASSUME NEW p \in Processes, SetMigrated(p) PROVE Migrating'
  BY <1>8 DEF SetMigrated, Migrating
<1>9. ASSUME NEW p \in Processes, CheckTables(p) PROVE Migrating'
  BY <1>9 DEF CheckTables, Migrating
<1>10. ASSUME NEW p \in Processes, Close(p) PROVE Migrating'
  BY <1>10 DEF Close, Migrating
<1>11. ASSUME NEW p \in Processes, Crash(p) PROVE Migrating'
  <2>1. crashes' # 0 /\ UNCHANGED <<version, tables, found, intact>>
    BY <1>11, SchemaAssumption DEF Crash, TypeOK
  <2>2. \A q \in Processes : pc'[q] = "raised" => pc[q] = "raised"
    BY <1>11 DEF Crash
  <2>3. QED
    BY <2>1, <2>2 DEF Migrating
<1>12. CASE UNCHANGED vars
  BY <1>12 DEF vars, Migrating
<1>13. QED
  BY <1>1, <1>2, <1>3, <1>4, <1>5, <1>6, <1>7, <1>8, <1>9, <1>10, <1>11, <1>12
  DEF Next, Initialize

(* A crash is the only thing that breaks an upgrade: while there was none, a  *)
(* start that failed on a file as version 1 or 2 left it lost to another      *)
(* process that is still migrating it.                                        *)
THEOREM OnlyCrashesBlockUpgrade ==
  Spec => [](crashes = 0 /\ ~ MigratesForward
               => \E q \in Processes : pc[q] \in {"totals", "guards"})
<1>1. Migrating /\ IInv => (crashes = 0 /\ ~ MigratesForward
                              => \E q \in Processes : pc[q] \in {"totals", "guards"})
  BY DEF Migrating, MigratesForward
<1>2. QED
  BY <1>1, InitIInv, StepIInv, InitMigrating, StepMigrating, TypeCorrect, PTL DEF Spec

-----------------------------------------------------------------------------
(* A store only ever goes up: no step takes a version back or drops a table,  *)
(* so no slow process undoes what a faster one did, and the totals are        *)
(* written while the version is 1 and never again: a counter that a newer     *)
(* server charges is not overwritten (_initialize_schema).                    *)
THEOREM NeverDowngrades ==
  Spec => [][/\ version' >= version /\ tables \subseteq tables'
             /\ counters' # counters => version = 1 /\ version' = 2]_vars
<1> DEFINE Upward == /\ version' >= version /\ tables \subseteq tables'
                     /\ counters' # counters => version = 1 /\ version' = 2
<1>1. ASSUME IInv, NEW p \in Processes,
             ReadVersion(p) \/ Initialize(p) \/ Close(p) \/ Crash(p)
      PROVE  Upward
  <2> USE <1>1 DEF IInv, Typed, Versioned, SCHEMA_VERSION, Goto
  <2>1. CASE SetCreated(p) \/ CopyTotals(p) \/ SetMigrated(p)
    BY <2>1 DEF SetCreated, CopyTotals, SetMigrated
  <2>2. CASE CreateTable(p) \/ CreateCounters(p) \/ CreateGuardTable(p)
    BY <2>2 DEF CreateTable, CreateCounters, CreateGuardTable
  <2>3. CASE ReadVersion(p) \/ ReadTables(p) \/ CheckTables(p) \/ Close(p) \/ Crash(p)
    BY <2>3 DEF ReadVersion, ReadTables, CheckTables, Close, Crash
  <2>4. QED
    BY <1>1, <2>1, <2>2, <2>3 DEF Initialize
<1>2. IInv /\ [Next]_vars => [Upward]_vars
  BY <1>1 DEF Next
<1>3. QED
  BY InitIInv, StepIInv, <1>2, PTL DEF Spec

-----------------------------------------------------------------------------
(***************************************************************************)
(* What a process has left of opening the store: the statements it may     *)
(* still execute, other processes permitting.                              *)
(***************************************************************************)
Lacking == Cardinality(GuardTables \ tables)

Left(p) == CASE pc[p] = "tables"   -> 6 + Lacking + Len(Script)
             [] pc[p] = "create"   -> 2 + Len(Script) - at[p]
             [] pc[p] = "counters" -> 4 + Lacking
             [] pc[p] = "totals"   -> 3 + Lacking
             [] pc[p] = "guards"   -> 2 + Lacking
             [] pc[p] = "check"    -> 1
             [] OTHER              -> 0

LEMMA GuardTablesFinite == IsFiniteSet(GuardTables)
<1>1. IsFiniteSet(1..Len(Script))
  BY ScriptTables, FS_Interval
<1>2. IsFiniteSet(AllTables)
  <2>1. [k \in 1..Len(Script) |-> Script[k]] \in Surjection(1..Len(Script), AllTables)
    BY ScriptTables DEF Surjection
  <2>2. QED
    BY <1>1, <2>1, FS_Surjection
<1>3. QED
  BY <1>2, SchemaAssumption, FS_Subset

LEMMA LackingIs ==
  /\ Cardinality(GuardTables) \in Nat
  /\ Lacking \in 0..Cardinality(GuardTables)
<1>1. GuardTables \ tables \in SUBSET GuardTables
  OBVIOUS
<1>2. /\ IsFiniteSet(GuardTables \ tables)
      /\ Cardinality(GuardTables \ tables) <= Cardinality(GuardTables)
  BY <1>1, GuardTablesFinite, FS_Subset
<1>3. Cardinality(GuardTables) \in Nat /\ Cardinality(GuardTables \ tables) \in Nat
  BY <1>2, GuardTablesFinite, FS_CardinalityType
<1>4. QED
  BY <1>2, <1>3 DEF Lacking

(* Tables that others create only shorten what is left. *)
LEMMA LackingFalls ==
  ASSUME tables \subseteq tables'
  PROVE  Lacking' \in Nat /\ Lacking' <= Lacking
<1>1. GuardTables \ tables' \in SUBSET (GuardTables \ tables)
  OBVIOUS
<1>2. IsFiniteSet(GuardTables \ tables)
  BY GuardTablesFinite, FS_Subset
<1>3. /\ IsFiniteSet(GuardTables \ tables')
      /\ Cardinality(GuardTables \ tables') <= Cardinality(GuardTables \ tables)
  BY <1>1, <1>2, FS_Subset
<1>4. QED
  BY <1>3, FS_CardinalityType DEF Lacking

LEMMA LackingFallsBelow ==
  ASSUME NEW table \in GuardTables \ tables, tables' = tables \cup {table}
  PROVE  Lacking' = Lacking - 1
<1>1. GuardTables \ tables' = (GuardTables \ tables) \ {table}
  OBVIOUS
<1>2. IsFiniteSet(GuardTables \ tables)
  BY GuardTablesFinite, FS_Subset
<1>3. QED
  BY <1>1, <1>2, FS_RemoveElement DEF Lacking

LEMMA LeftIs ==
  ASSUME TypeOK, NEW p \in Processes
  PROVE  /\ Left(p) \in 0..(6 + Cardinality(GuardTables) + Len(Script))
         /\ Left(p) = 0 <=> pc[p] \in {"closed", "ready", "raised"}
<1>1. at[p] \in 1..(Len(Script) + 1) /\ Len(Script) \in Nat
  BY ScriptTables DEF TypeOK
<1>2. pc[p] \in {"closed", "tables", "create", "counters", "totals",
                  "guards", "check", "ready", "raised"}
  BY DEF TypeOK
<1>3. \/ pc[p] = "tables" /\ Left(p) = 6 + Lacking + Len(Script)
      \/ pc[p] = "create" /\ Left(p) = 2 + Len(Script) - at[p]
      \/ pc[p] = "counters" /\ Left(p) = 4 + Lacking
      \/ pc[p] = "totals" /\ Left(p) = 3 + Lacking
      \/ pc[p] = "guards" /\ Left(p) = 2 + Lacking
      \/ pc[p] = "check" /\ Left(p) = 1
      \/ pc[p] \in {"closed", "ready", "raised"} /\ Left(p) = 0
  BY <1>2 DEF Left
<1>4. /\ Lacking \in Nat /\ Cardinality(GuardTables) \in Nat
      /\ Lacking <= Cardinality(GuardTables)
  BY LackingIs
<1>5. at[p] \in Nat /\ 1 <= at[p] /\ at[p] <= Len(Script) + 1
  BY <1>1
<1> HIDE DEF Lacking, Left
<1>6. Left(p) \in Int /\ 0 <= Left(p) /\ Left(p) <= 6 + Cardinality(GuardTables) + Len(Script)
  BY <1>1, <1>3, <1>4, <1>5
<1>7. Left(p) = 0 <=> pc[p] \in {"closed", "ready", "raised"}
  BY <1>1, <1>3, <1>4, <1>5
<1> QED
  BY <1>1, <1>4, <1>6, <1>7

(* A process that keeps its place has no more left than before. *)
LEMMA LeftStays ==
  ASSUME TypeOK, NEW q \in Processes, tables \subseteq tables',
         pc'[q] = pc[q], at'[q] = at[q]
  PROVE  Left(q)' <= Left(q)
<1>1. at[q] \in 1..(Len(Script) + 1) /\ Len(Script) \in Nat
  BY ScriptTables DEF TypeOK
<1>2. pc[q] \in {"closed", "tables", "create", "counters", "totals",
                  "guards", "check", "ready", "raised"}
  BY DEF TypeOK
<1>3. QED
  BY <1>1, <1>2, LackingIs, LackingFalls, SMTT(30) DEF Left

LEMMA StepDescends ==
  ASSUME TypeOK, TypeOK', NEW p \in Processes, Initialize(p)
  PROVE  /\ Left(p)' < Left(p)
         /\ tables \subseteq tables'
         /\ \A q \in Processes \ {p} : pc'[q] = pc[q] /\ at'[q] = at[q]
<1>1. at[p] \in 1..(Len(Script) + 1) /\ Len(Script) \in Nat
  BY ScriptTables DEF TypeOK
<1>2. DOMAIN pc = Processes /\ DOMAIN at = Processes
  BY DEF TypeOK
<1> USE <1>1, <1>2, LackingIs DEF Goto
<1>3. CASE ReadTables(p)
  <2>1. Lacking' = Lacking
    BY <1>3 DEF ReadTables, Lacking
  <2>2. pc'[p] \in {"raised", "create", "counters", "guards", "check"} /\ at'[p] = 1
    BY <1>3 DEF ReadTables
  <2>3. Left(p) = 6 + Lacking + Len(Script)
    BY <1>3 DEF ReadTables, Left
  <2>4. Left(p)' < Left(p)
    BY <2>1, <2>2, <2>3, SMTT(30) DEF Left
  <2>5. QED
    BY <1>3, <2>4 DEF ReadTables
<1>4. CASE CreateTable(p)
  <2>1. Left(p) = 2 + Len(Script) - at[p] /\ at[p] <= Len(Script)
    BY <1>4 DEF CreateTable, Left
  <2>2. \/ pc'[p] = "raised"
        \/ pc'[p] = "create" /\ at'[p] = at[p] + 1
    BY <1>4 DEF CreateTable
  <2>3. Left(p)' < Left(p)
    BY <2>1, <2>2 DEF Left
  <2>4. QED
    BY <1>4, <2>3 DEF CreateTable
<1>5. CASE SetCreated(p)
  <2>1. Left(p) = 2 + Len(Script) - at[p] /\ pc'[p] = "ready"
    BY <1>5 DEF SetCreated, Left
  <2>2. QED
    BY <1>5, <2>1 DEF SetCreated, Left
<1>6. CASE CreateCounters(p)
  <2>1. Left(p) = 4 + Lacking /\ tables \subseteq tables' /\ pc'[p] \in {"raised", "totals"}
    BY <1>6 DEF CreateCounters, Left
  <2>2. Left(p)' < Left(p)
    BY <2>1, LackingFalls DEF Left
  <2>3. QED
    BY <1>6, <2>1, <2>2 DEF CreateCounters
<1>7. CASE CopyTotals(p)
  <2>1. Left(p) = 3 + Lacking /\ tables' = tables /\ pc'[p] \in {"guards", "raised"}
    BY <1>7 DEF CopyTotals, Left
  <2>2. Left(p)' < Left(p)
    BY <2>1, LackingFalls DEF Left
  <2>3. QED
    BY <1>7, <2>1, <2>2 DEF CopyTotals
<1>8. CASE CreateGuardTable(p)
  <2>1. Lacking' = Lacking - 1
    BY <1>8, LackingFallsBelow DEF CreateGuardTable
  <2>2. pc[p] = "guards" /\ pc' = pc /\ at' = at /\ tables \subseteq tables'
    BY <1>8 DEF CreateGuardTable, locals
  <2>3. QED
    BY <2>1, <2>2 DEF Left
<1>9. CASE SetMigrated(p)
  <2>1. Left(p) = 2 + Lacking /\ pc'[p] = "check"
    BY <1>9 DEF SetMigrated, Left
  <2>2. QED
    BY <1>9, <2>1 DEF SetMigrated, Left
<1>10. CASE CheckTables(p)
  <2>1. Left(p) = 1 /\ pc'[p] \in {"ready", "raised"}
    BY <1>10 DEF CheckTables, Left
  <2>2. QED
    BY <1>10, <2>1 DEF CheckTables, Left
<1>11. QED
  BY <1>3, <1>4, <1>5, <1>6, <1>7, <1>8, <1>9, <1>10 DEF Initialize

(* Opening the store is bounded work: what a process has left is a number, 0  *)
(* if it is done, falls with every statement it executes and is raised by no  *)
(* other process or crash; only a start begins anew (_initialize_schema).     *)
(* The safety half of UpgradeCompletes: nobody retries or waits for anyone.   *)
THEOREM OpeningDescends ==
  Spec => /\ [](\A p \in Processes :
                  /\ Left(p) \in 0..(6 + Cardinality(GuardTables) + Len(Script))
                  /\ Left(p) = 0 <=> pc[p] \in {"closed", "ready", "raised"})
          /\ [][\A p \in Processes : /\ Initialize(p) => Left(p)' < Left(p)
                                     /\ ~ ReadVersion(p) => Left(p)' <= Left(p)]_vars
<1> DEFINE Counted == \A p \in Processes :
                  /\ Left(p) \in 0..(6 + Cardinality(GuardTables) + Len(Script))
                  /\ Left(p) = 0 <=> pc[p] \in {"closed", "ready", "raised"}
           Descends == \A p \in Processes : /\ Initialize(p) => Left(p)' < Left(p)
                                            /\ ~ ReadVersion(p) => Left(p)' <= Left(p)
<1>1. TypeOK => Counted
  BY LeftIs
<1>2. TypeOK' => Counted'
  BY <1>1, PTL
<1>3. ASSUME TypeOK, TypeOK', Next PROVE Descends
  <2>1. \A p \in Processes : Left(p) \in Nat /\ Left(p)' \in Nat
    BY <1>1, <1>2, <1>3, LackingIs, ScriptTables
  <2>2. PICK p \in Processes : ReadVersion(p) \/ Initialize(p) \/ Close(p) \/ Crash(p)
    BY <1>3 DEF Next
  <2>3. ASSUME NEW q \in Processes, Initialize(q) PROVE Left(q)' < Left(q)
    BY <1>3, <2>3, StepDescends
  <2>4. ASSUME NEW q \in Processes, ~ ReadVersion(q) PROVE Left(q)' <= Left(q)
    <3>1. CASE Initialize(p)
      <4>1. Left(p)' < Left(p) /\ tables \subseteq tables'
            /\ (q # p => pc'[q] = pc[q] /\ at'[q] = at[q])
        BY <1>3, <3>1, StepDescends
      <4>2. CASE q = p
        BY <2>1, <4>1, <4>2
      <4>3. CASE q # p
        BY <1>3, <4>1, <4>3, LeftStays
      <4>4. QED
        BY <4>2, <4>3
    <3>2. CASE ReadVersion(p)
      <4>1. q # p
        BY <2>4, <3>2
      <4>2. pc'[q] = pc[q] /\ at' = at /\ tables' = tables
        BY <1>3, <3>2, <4>1 DEF ReadVersion, Goto, TypeOK
      <4>3. QED
        BY <1>3, <4>2, LeftStays
    <3>3. CASE Close(p) \/ Crash(p)
      <4>1. pc'[p] = "closed" /\ (q # p => pc'[q] = pc[q]) /\ at' = at /\ tables' = tables
        BY <1>3, <3>3 DEF Close, Crash, Goto, TypeOK
      <4>2. CASE q = p
        <5>1. Left(q)' = 0
          BY <4>1, <4>2 DEF Left
        <5>2. QED
          BY <5>1, <2>1
      <4>3. CASE q # p
        BY <1>3, <4>1, <4>3, LeftStays
      <4>4. QED
        BY <4>2, <4>3
    <3>4. QED
      BY <2>2, <3>1, <3>2, <3>3
  <2>5. QED
    BY <2>3, <2>4
<1>4. TypeOK /\ TypeOK' /\ [Next]_vars => [Descends]_vars
  BY <1>3
<1>5. QED
  BY <1>1, <1>4, TypeCorrect, PTL DEF Spec

============================================================================
