----------------------------- MODULE StoreSchema -----------------------------
(***************************************************************************)
(* Opening the SQLite store (SQLiteStore.__init__ of storage.py): reading   *)
(* user_version and the tables, creating the schema or migrating it, and    *)
(* the final check of the required tables.                                  *)
(*                                                                         *)
(* A statement that creates a table commits on its own: executescript runs   *)
(* without a transaction, and sqlite3 begins one for an INSERT only.  So    *)
(* another process, or a crash, can see every prefix of a script.           *)
(***************************************************************************)
EXTENDS Integers, FiniteSets, Sequences, FiniteSetsExt

CONSTANTS Processes,   \* processes that may open the database file
          Script,      \* tables in the order _create_schema creates them
          Counters,    \* the table incident_budget_counters
          GuardTables, \* the tables of version 3
          Totalled,    \* audit_runs and budget_counters, which a migration reads
          Runs,        \* audit runs of a database of version 1
          Incidents,   \* incidents of those runs
          CallCap,     \* MAX_MODEL_CALLS_PER_INCIDENT
          MaxUsed,     \* bound: model_calls_used and limit of an old run
          MaxCrashes   \* bound: crashes of a process

AllTables == {Script[k] : k \in 1..Len(Script)}

ASSUME SchemaAssumption ==
  /\ Script \in Seq(AllTables)
  /\ \A j, k \in 1..Len(Script) : Script[j] = Script[k] => j = k
  /\ GuardTables \subseteq AllTables
  /\ Counters \in AllTables \ GuardTables
  /\ Totalled \subseteq AllTables \ (GuardTables \cup {Counters})
  /\ IsFiniteSet(Runs)
  /\ CallCap \in Nat \ {0} /\ MaxUsed \in Nat /\ MaxCrashes \in Nat

SCHEMA_VERSION == 3
TablesOf(v) == AllTables \ ((IF v < 3 THEN GuardTables ELSE {}) \cup
                            (IF v < 2 THEN {Counters} ELSE {}))

VARIABLES
  version,  \* PRAGMA user_version
  tables,   \* tables of the file
  budgets,  \* budget_counters: a run's incident, model calls used and limit
  counters, \* rows of incident_budget_counters
  pc,       \* where each process is in opening the store
  found,    \* the version it read
  seen,     \* the tables it read, and those its migrations add
  at,       \* its next statement of the script
  crashes,
  intact    \* history: an old file that was as its release left it

vars == <<version, tables, budgets, counters, pc, found, seen, at, crashes, intact>>
locals == <<pc, found, seen, at>>

Usage == [used : 0..CallCap, limit : 1..CallCap]
Budget == [incident : Incidents, used : 0..MaxUsed, limit : 1..MaxUsed]

TypeOK ==
  /\ version \in 0..(SCHEMA_VERSION + 1)
  /\ tables \subseteq AllTables
  /\ budgets \in [Runs -> Budget]
  /\ DOMAIN counters \subseteq Incidents
  /\ pc \in [Processes -> {"closed", "tables", "create", "counters", "totals",
                           "guards", "check", "ready", "raised"}]
  /\ found \in [Processes -> 0..SCHEMA_VERSION]
  /\ seen \in [Processes -> SUBSET AllTables]
  /\ at \in [Processes -> 1..(Len(Script) + 1)]
  /\ crashes \in 0..MaxCrashes
  /\ intact \in BOOLEAN

(* A new file, one of this program at any version, and files this program    *)
(* never wrote or that lost tables: of any version, with any of the tables.  *)
(* The columns of a table are those of its version; the budgets of runs are  *)
(* read in version 1 only, so elsewhere they may as well be unused.          *)
Init ==
  /\ version \in 0..(SCHEMA_VERSION + 1)
  /\ tables \in SUBSET AllTables
  /\ intact = (version \in {1, 2} /\ tables = TablesOf(version))
  /\ budgets \in [Runs -> {b \in Budget : b.used <= b.limit /\ (version = 1 \/ b.used = 0)}]
  /\ counters = <<>>
  /\ pc = [p \in Processes |-> "closed"]
  /\ found = [p \in Processes |-> 0]
  /\ seen = [p \in Processes |-> {}]
  /\ at = [p \in Processes |-> 1]
  /\ crashes = 0

Goto(p, label) == pc[p] # label /\ pc' = [pc EXCEPT ![p] = label]

-----------------------------------------------------------------------------
(* _initialize_schema *)

ReadVersion(p) ==
  /\ pc[p] = "closed"
  /\ IF version \in 0..SCHEMA_VERSION
     THEN Goto(p, "tables") /\ found' = [found EXCEPT ![p] = version]
     ELSE Goto(p, "raised") /\ UNCHANGED found
  /\ UNCHANGED <<version, tables, budgets, counters, seen, at, crashes, intact>>

(* Mutant of ReadTables: unversioned tables are taken for an interrupted creation. *)
ReadTablesOfAny(p) ==
  /\ pc[p] = "tables"
  /\ Goto(p, CASE found[p] = 0 -> "create"
               [] found[p] = 1 -> "counters"
               [] found[p] = 2 -> "guards"
               [] OTHER        -> "check")
  /\ seen' = [seen EXCEPT ![p] = tables]
  /\ at' = [at EXCEPT ![p] = 1]
  /\ UNCHANGED <<version, tables, budgets, counters, found, crashes, intact>>

ReadTables(p) ==
  /\ pc[p] = "tables"
  /\ Goto(p, CASE found[p] = 0 /\ tables # {} -> "raised"
               [] found[p] = 0 /\ tables = {} -> "create"
               [] found[p] = 1 -> "counters"
               [] found[p] = 2 -> "guards"
               [] OTHER        -> "check")
  /\ seen' = [seen EXCEPT ![p] = tables]
  /\ at' = [at EXCEPT ![p] = 1]
  /\ UNCHANGED <<version, tables, budgets, counters, found, crashes, intact>>

(* _create_schema: the guard tables are created IF NOT EXISTS. *)
CreateTable(p) ==
  /\ pc[p] = "create"
  /\ at[p] <= Len(Script)
  /\ LET table == Script[at[p]] IN
     IF table \in tables \ GuardTables
     THEN Goto(p, "raised") /\ UNCHANGED <<tables, at>>
     ELSE /\ tables' = tables \cup {table}
          /\ at' = [at EXCEPT ![p] = at[p] + 1]
          /\ UNCHANGED pc
  /\ UNCHANGED <<version, budgets, counters, found, seen, crashes, intact>>

SetCreated(p) ==
  /\ pc[p] = "create"
  /\ at[p] > Len(Script)
  /\ version' = SCHEMA_VERSION
  /\ Goto(p, "ready")
  /\ UNCHANGED <<tables, budgets, counters, found, seen, at, crashes, intact>>

(* _migrate_v1_to_v2 creates its table without IF NOT EXISTS ... *)
CreateCounters(p) ==
  /\ pc[p] = "counters"
  /\ IF Counters \in tables
     THEN Goto(p, "raised") /\ UNCHANGED tables
     ELSE Goto(p, "totals") /\ tables' = tables \cup {Counters}
  /\ UNCHANGED <<version, budgets, counters, found, seen, at, crashes, intact>>

RunsOf(incident) == {r \in Runs : budgets[r].incident = incident}
Capped(n) == IF n < CallCap THEN n ELSE CallCap
Lower(m, n) == IF m < n THEN m ELSE n

(* Mutant of Total: calls beyond the lowest limit are kept. *)
TotalUnclipped(incident) ==
  LET used == FoldSet(LAMBDA r, total : Capped(total + budgets[r].used), 0, RunsOf(incident))
      limit == FoldSet(LAMBDA r, least : Lower(least, budgets[r].limit), CallCap, RunsOf(incident))
  IN  [used |-> used, limit |-> limit]

Total(incident) ==
  LET used == FoldSet(LAMBDA r, total : Capped(total + budgets[r].used), 0, RunsOf(incident))
      limit == FoldSet(LAMBDA r, least : Lower(least, budgets[r].limit), CallCap, RunsOf(incident))
  IN  [used |-> Lower(used, limit), limit |-> limit]

(* ... and inserts the totals and sets the version in one transaction, unless *)
(* a table it selects from is not there.                                     *)
CopyTotals(p) ==
  /\ pc[p] = "totals"
  /\ \/ /\ Totalled \subseteq tables
        /\ counters' = [i \in {budgets[r].incident : r \in Runs} |-> Total(i)]
        /\ version' = 2
        /\ Goto(p, "guards")
        /\ seen' = [seen EXCEPT ![p] = seen[p] \cup {Counters}]
     \/ /\ ~ (Totalled \subseteq tables)
        /\ Goto(p, "raised")
        /\ UNCHANGED <<version, counters, seen>>
  /\ UNCHANGED <<tables, budgets, found, at, crashes, intact>>

(* _migrate_v2_to_v3 *)
CreateGuardTable(p) ==
  /\ pc[p] = "guards"
  /\ \E table \in GuardTables \ tables : tables' = tables \cup {table}
  /\ UNCHANGED <<version, budgets, counters, locals, crashes, intact>>

(* Mutant of SetMigrated: the version is left as it is. *)
KeepVersion(p) ==
  /\ pc[p] = "guards"
  /\ GuardTables \subseteq tables
  /\ Goto(p, "check")
  /\ seen' = [seen EXCEPT ![p] = seen[p] \cup GuardTables]
  /\ UNCHANGED <<version, tables, budgets, counters, found, at, crashes, intact>>

SetMigrated(p) ==
  /\ pc[p] = "guards"
  /\ GuardTables \subseteq tables
  /\ version' = SCHEMA_VERSION
  /\ Goto(p, "check")
  /\ seen' = [seen EXCEPT ![p] = seen[p] \cup GuardTables]
  /\ UNCHANGED <<tables, budgets, counters, found, at, crashes, intact>>

(* Mutant of CheckTables: the version is trusted. *)
TrustVersion(p) ==
  /\ pc[p] = "check"
  /\ Goto(p, "ready")
  /\ UNCHANGED <<version, tables, budgets, counters, found, seen, at, crashes, intact>>

CheckTables(p) ==
  /\ pc[p] = "check"
  /\ Goto(p, IF AllTables \subseteq seen[p] THEN "ready" ELSE "raised")
  /\ UNCHANGED <<version, tables, budgets, counters, found, seen, at, crashes, intact>>

(* The application ends, or its start failed. *)
Close(p) ==
  /\ pc[p] \in {"ready", "raised"}
  /\ Goto(p, "closed")
  /\ UNCHANGED <<version, tables, budgets, counters, found, seen, at, crashes, intact>>

Crash(p) ==
  /\ pc[p] \notin {"closed", "ready", "raised"}
  /\ crashes < MaxCrashes
  /\ crashes' = crashes + 1
  /\ Goto(p, "closed")
  /\ UNCHANGED <<version, tables, budgets, counters, found, seen, at, intact>>

Initialize(p) ==
  \/ ReadTables(p) \/ CreateTable(p) \/ SetCreated(p) \/ CreateCounters(p) \/ CopyTotals(p)
  \/ CreateGuardTable(p) \/ SetMigrated(p) \/ CheckTables(p)

Next == \E p \in Processes : ReadVersion(p) \/ Initialize(p) \/ Close(p) \/ Crash(p)

Spec == Init /\ [][Next]_vars

(* A process that began to open the store goes on. *)
FairSpec == Spec /\ \A p \in Processes : WF_vars(Initialize(p))

-----------------------------------------------------------------------------
(* Properties *)

(* A store that opened has the current version and every table, however     *)
(* many processes create or migrate the file at once and crash in between.  *)
ReadyIsCurrent ==
  \A p \in Processes : pc[p] = "ready" => version = SCHEMA_VERSION /\ tables = AllTables

(* "unknown and unversioned non-empty schemas are rejected" (ARCHITECTURE    *)
(* section 10), and rejecting one leaves it as it was.  Only a process that  *)
(* found the file empty goes on after another created a table.  Of a file of *)
(* version 1 or 2 nothing is said: it is migrated before its tables are      *)
(* checked (storage.py:110-138), whoever wrote it.                           *)
ForeignUntouched ==
  [][(\/ version > SCHEMA_VERSION
      \/ version = 0 /\ tables # {} /\ \A p \in Processes : pc[p] = "create" => seen[p] # {})
     => UNCHANGED <<version, tables>>]_vars

(* The migration forgets no model call of an incident unless its limit is    *)
(* used up anyway, takes the lowest limit of its runs, and writes a row that  *)
(* the table's checks accept (ADR-016).                                       *)
CallsCarriedOver ==
  [][version = 1 /\ version' # 1 =>
       \A i \in {budgets[r].incident : r \in Runs} :
         LET spent == MapThenSumSet(LAMBDA r : budgets[r].used, RunsOf(i))
         IN  /\ i \in DOMAIN counters'
             /\ counters'[i] \in Usage /\ counters'[i].used <= counters'[i].limit
             /\ \A r \in RunsOf(i) : counters'[i].limit <= budgets[r].limit
             /\ counters'[i].used = spent \/ counters'[i].used = counters'[i].limit]_vars

(* Unless a process crashes, an upgrade that began on a file of an older     *)
(* release is completed, by that process or by the one it lost to.  (One of  *)
(* a file that lacks tables raises, before or after the version is set.)     *)
UpgradeCompletes ==
  intact /\ (\E p \in Processes : pc[p] \in {"counters", "totals", "guards"})
    ~> version = SCHEMA_VERSION \/ crashes > 0

(* "versions 1 and 2 migrate forward explicitly" (ARCHITECTURE section 10):   *)
(* no start of the application fails on a file as those releases left it.  A *)
(* crash after CREATE TABLE incident_budget_counters breaks it for good.     *)
MigratesForward ==
  intact => \A p \in Processes : pc[p] = "raised" => version \notin {1, 2}
============================================================================
