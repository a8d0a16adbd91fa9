--------------------------- MODULE GuardLifecycle ---------------------------
(***************************************************************************)
(* The guard lifecycle of one completed audit run: GuardService            *)
(* (guards/service.py) over SQLiteStore (storage.py) and GuardRunner       *)
(* (guards/runner.py).                                                     *)
(*                                                                         *)
(* The endpoints are synchronous functions that FastAPI runs in a pool of  *)
(* threads.  The store locks each of ITS methods, so a service method is a *)
(* sequence of atomic store calls between which other requests run; a step *)
(* below is one store call, one file operation or one subprocess.  A store *)
(* call may raise: its transaction is rolled back and the request ends.  A *)
(* crash loses the requests in flight and keeps database and files.        *)
(*                                                                         *)
(* Guards are numbered in the order in which the generator emits them.     *)
(* Their identity, preview text and hash are functions of the completed    *)
(* run (generator.py:48-62), which no later call changes, so the model     *)
(* keeps only whether an artifact still equals the preview.                *)
(***************************************************************************)
EXTENDS Integers, Sequences, FiniteSets

CONSTANTS NumGuards,   \* guards the generator emits for the run
          Workers,     \* request threads
          Outcomes,    \* results a guard subprocess may have here
          MaxRuns,     \* bound: executions requested
          MaxFaults,   \* bound: store calls that raise
          MaxCrashes,  \* bound: server crashes
          MaxEdits     \* bound: outside changes to artifacts

GuardExecutionStatus == {"PASSED", "FAILED", "TIMED_OUT", "ERROR"}

ASSUME NumGuardsAssumption == NumGuards \in Nat \ {0}
ASSUME OutcomesAssumption == Outcomes \subseteq GuardExecutionStatus
ASSUME BoundsAssumption ==
  MaxRuns \in Nat /\ MaxFaults \in Nat /\ MaxCrashes \in Nat /\ MaxEdits \in Nat

Guards == 1..NumGuards
Tickets == 1..MaxRuns

GuardStatus == {"PREVIEWED", "REJECTED", "WRITTEN"} \cup GuardExecutionStatus
Executable == {"WRITTEN"} \cup GuardExecutionStatus

VARIABLES
  status,      \* status[g]: guard_specs.status, "ABSENT" before the row exists
  approval,    \* approval[g]: the guard_approvals row, "NONE" without one
  executions,  \* executions[g]: tickets of the rows of guard_executions
  artifact,    \* artifact[g]: what the generated file holds
  pc,          \* pc[w]: the next step of the request thread w serves
  job,         \* job[w]: the guard that step is about
  run,         \* run[w]: ticket and result of the execution w serves
  attempts,    \* executions requested so far: each has its number as ticket
  finished,    \* finished[g]: GuardExecution records, in created_at order
  installed,   \* history: the guards whose approved file was once in place
  overlapped,  \* history: a preview began while another saved its guards
  cut,         \* history: a preview ended before its last guard was saved
  abandoned,   \* history: guards whose approval lost the thread writing the file
  faults,      \* store calls that raised so far
  crashes,     \* crashes so far
  edits        \* outside changes so far

rows == <<status, approval, executions>>
files == <<artifact, installed>>
threads == <<pc, job, run>>
history == <<overlapped, cut, abandoned>>
counts == <<attempts, finished, faults, crashes, edits>>
vars == <<rows, files, threads, history, counts>>

Previewing == {"save"}
Deciding == {"reject", "approve"}
Writing == {"write", "flush", "restore"}
Executing == {"lookup", "check", "spawn", "confirm", "record"}
Steps == {"idle"} \cup Previewing \cup Deciding \cup Writing \cup Executing

Execution == [ticket : Tickets, result : Outcomes]
NoRun == [ticket |-> 0, result |-> "NONE"]

RowsOK ==
  /\ status \in [Guards -> GuardStatus \cup {"ABSENT"}]
  /\ approval \in [Guards -> {"NONE", "APPROVED", "REJECTED"}]
  /\ executions \in [Guards -> SUBSET Tickets]

FilesOK ==
  /\ artifact \in [Guards -> {"absent", "partial", "preview", "edited"}]
  /\ installed \subseteq Guards

ThreadsOK ==
  /\ pc \in [Workers -> Steps]
  /\ job \in [Workers -> Guards]
  /\ run \in [Workers -> [ticket : 0..MaxRuns, result : Outcomes \cup {"NONE"}]]
  /\ \A w \in Workers : pc[w] \in Executing => run[w].ticket \in Tickets
  /\ \A w \in Workers : pc[w] \in {"confirm", "record"} => run[w].result \in Outcomes

HistoryOK == overlapped \in BOOLEAN /\ cut \in BOOLEAN /\ abandoned \subseteq Guards

CountsOK ==
  /\ attempts \in 0..MaxRuns
  /\ finished \in [Guards -> Seq(Execution)]
  /\ faults \in 0..MaxFaults
  /\ crashes \in 0..MaxCrashes
  /\ edits \in 0..MaxEdits

TypeOK == RowsOK /\ FilesOK /\ ThreadsOK /\ HistoryOK /\ CountsOK

Init ==
  /\ status = [g \in Guards |-> "ABSENT"]
  /\ approval = [g \in Guards |-> "NONE"]
  /\ executions = [g \in Guards |-> {}]
  /\ artifact = [g \in Guards |-> "absent"]
  /\ pc = [w \in Workers |-> "idle"]
  /\ job = [w \in Workers |-> 1]
  /\ run = [w \in Workers |-> NoRun]
  /\ attempts = 0
  /\ finished = [g \in Guards |-> <<>>]
  /\ installed = {}
  /\ overlapped = FALSE
  /\ cut = FALSE
  /\ abandoned = {}
  /\ faults = 0
  /\ crashes = 0
  /\ edits = 0

(* The thread goes on to step `to`, about the same guard. *)
Goto(w, to) == /\ pc' = [pc EXCEPT ![w] = to]
               /\ UNCHANGED <<job, run>>

(* A store call raises (the database is locked, full or gone): the           *)
(* transaction is rolled back, the exception leaves the service method and   *)
(* the request is over.  Nothing is repeated.                                *)
StoreRaises(w) ==
  /\ faults < MaxFaults
  /\ faults' = faults + 1
  /\ Goto(w, "idle")
  /\ cut' = (cut \/ pc[w] = "save")
  /\ abandoned' = IF pc[w] = "restore" THEN abandoned \cup {job[w]} ELSE abandoned
  /\ UNCHANGED <<rows, files, overlapped, attempts, finished, crashes, edits>>

(* An idle thread accepts a request about guard g that starts at `to`. *)
Accept(w, g, to) == /\ pc[w] = "idle"
                    /\ pc' = [pc EXCEPT ![w] = to]
                    /\ job' = [job EXCEPT ![w] = g]

(* A request that only reads, or that the checks before its first write      *)
(* refuse (unknown guard: 404; not PREVIEWED, stale hash, not executable:    *)
(* 409), answers and leaves everything as it was.                            *)
ReadOrRefuse(w) == pc[w] = "idle" /\ UNCHANGED vars

-----------------------------------------------------------------------------
(* GuardService.preview *)

(* The run is complete; a non-empty list is returned as it is, otherwise the *)
(* guards are generated and saved one by one.                                *)
RequestPreview(w) ==
  /\ \A g \in Guards : status[g] = "ABSENT"
  /\ Accept(w, 1, "save")
  /\ overlapped' = (overlapped \/ \E v \in Workers : pc[v] = "save")
  /\ UNCHANGED <<rows, files, run, cut, abandoned, counts>>

(* Mutant of SaveGuard: the loop stops one guard early. *)
SaveGuardButLast(w) ==
  /\ pc[w] = "save"
  /\ status' = [status EXCEPT ![job[w]] = "PREVIEWED"]
  /\ IF job[w] < NumGuards - 1
     THEN job' = [job EXCEPT ![w] = @ + 1] /\ UNCHANGED <<pc, run>>
     ELSE Goto(w, "idle")
  /\ UNCHANGED <<approval, executions, files, history, counts>>

(* SQLiteStore.save_guard: an upsert that overwrites status and payload of a *)
(* row that exists.  If it raises, the guards saved before it stay and the   *)
(* rest is never saved: a later preview returns the non-empty list.          *)
SaveGuard(w) ==
  /\ pc[w] = "save"
  /\ \/ /\ status' = [status EXCEPT ![job[w]] = "PREVIEWED"]
        /\ IF job[w] < NumGuards
           THEN /\ job' = [job EXCEPT ![w] = @ + 1]
                /\ UNCHANGED <<pc, run>>
           ELSE Goto(w, "idle")
        /\ UNCHANGED <<approval, executions, files, history, counts>>
     \/ StoreRaises(w)

-----------------------------------------------------------------------------
(* GuardService.decide *)

(* The stored guard must be PREVIEWED and the submitted hash its own. *)
RequestDecision(w, g, decision) ==
  /\ status[g] = "PREVIEWED"
  /\ Accept(w, g, decision)
  /\ UNCHANGED <<rows, files, run, history, counts>>

(* Mutant of RecordDecision: the decision is an upsert. *)
OverwriteDecision(w, decision, row, newStatus, next) ==
  /\ pc[w] = decision
  /\ approval' = [approval EXCEPT ![job[w]] = row]
  /\ status' = [status EXCEPT ![job[w]] = newStatus]
  /\ Goto(w, next)
  /\ UNCHANGED <<executions, files, history, counts>>

(* SQLiteStore.record_guard_decision: one transaction that looks for an *)
(* approval row, updates the guard and inserts the row.  It does not    *)
(* look at the stored status again.                                     *)
RecordDecision(w, decision, row, newStatus, next) ==
  LET g == job[w] IN
  /\ pc[w] = decision
  /\ \/ /\ approval[g] # "NONE"    \* "guard decision is immutable"
        /\ Goto(w, "idle")
        /\ UNCHANGED <<rows, files, history, counts>>
     \/ /\ approval[g] = "NONE"
        /\ approval' = [approval EXCEPT ![g] = row]
        /\ status' = [status EXCEPT ![g] = newStatus]
        /\ Goto(w, next)
        /\ UNCHANGED <<executions, files, history, counts>>
     \/ StoreRaises(w)

RecordRejection(w) == RecordDecision(w, "reject", "REJECTED", "REJECTED", "idle")
RecordApproval(w) == RecordDecision(w, "approve", "APPROVED", "WRITTEN", "write")

(* Mutant of OpenArtifact: an error before the open is not compensated. *)
OpenUncompensated(w) ==
  /\ pc[w] = "write"
  /\ \/ artifact' = [artifact EXCEPT ![job[w]] = "partial"] /\ Goto(w, "flush")
     \/ Goto(w, "idle") /\ UNCHANGED artifact
  /\ UNCHANGED <<rows, installed, history, counts>>

(* GuardRunner.write_approved: the directory, the symlink check and the open *)
(* that truncates the file; each may raise.                                  *)
OpenArtifact(w) ==
  /\ pc[w] = "write"
  /\ \/ /\ artifact' = [artifact EXCEPT ![job[w]] = "partial"]
        /\ Goto(w, "flush")
     \/ /\ Goto(w, "restore")
        /\ UNCHANGED artifact
  /\ UNCHANGED <<rows, installed, history, counts>>

(* Mutant of FlushArtifact: an error raised after the preview was written is *)
(* compensated like any other.                                               *)
FlushThenRaise(w) ==
  /\ pc[w] = "flush"
  /\ artifact' = [artifact EXCEPT ![job[w]] = "preview"]
  /\ Goto(w, "restore")
  /\ UNCHANGED <<installed, rows, history, counts>>

(* The preview is written and the file closed, or the write fails part way.  *)
(* If somebody replaced the open file meanwhile, the replacement may survive. *)
FlushArtifact(w) ==
  /\ pc[w] = "flush"
  /\ \/ /\ \E content \in {"preview", artifact[job[w]]} \ {"partial"} :
             artifact' = [artifact EXCEPT ![job[w]] = content]
        /\ installed' = installed \cup {job[w]}
        /\ Goto(w, "idle")
     \/ /\ Goto(w, "restore")
        /\ UNCHANGED files
  /\ UNCHANGED <<rows, history, counts>>

(* Mutant of RestorePreview: only the approval row is taken back. *)
RestoreApprovalOnly(w) ==
  /\ pc[w] = "restore"
  /\ approval' = [approval EXCEPT ![job[w]] = "NONE"]
  /\ Goto(w, "idle")
  /\ UNCHANGED <<status, executions, files, history, counts>>

(* SQLiteStore.restore_guard_preview, from the exception handler of decide. *)
(* If it raises too (the disk that refused the file may be the database's), *)
(* the approval stays and nobody is left to write its file.                 *)
RestorePreview(w) ==
  /\ pc[w] = "restore"
  /\ \/ /\ approval' = [approval EXCEPT ![job[w]] = "NONE"]
        /\ status' = [status EXCEPT ![job[w]] = "PREVIEWED"]
        /\ Goto(w, "idle")
        /\ UNCHANGED <<executions, files, history, counts>>
     \/ StoreRaises(w)

-----------------------------------------------------------------------------
(* GuardService.execute *)

RequestExecution(w, g) ==
  /\ status[g] \in Executable
  /\ attempts < MaxRuns
  /\ Accept(w, g, "lookup")
  /\ attempts' = attempts + 1
  /\ run' = [run EXCEPT ![w] = [ticket |-> attempts + 1, result |-> "NONE"]]
  /\ UNCHANGED <<rows, files, history, finished, faults, crashes, edits>>

(* The approval must be there and positive; 409 otherwise. *)
LookupApproval(w) ==
  /\ pc[w] = "lookup"
  /\ \/ /\ Goto(w, IF approval[job[w]] = "APPROVED" THEN "check" ELSE "idle")
        /\ UNCHANGED <<rows, files, history, counts>>
     \/ StoreRaises(w)

(* Mutant of CheckArtifact: the approval is trusted, the file is not read. *)
TrustArtifact(w) ==
  /\ pc[w] = "check"
  /\ Goto(w, "spawn")
  /\ UNCHANGED <<rows, files, history, counts>>

(* The artifact must exist and still be the approved preview; 422 otherwise. *)
CheckArtifact(w) ==
  /\ pc[w] = "check"
  /\ Goto(w, IF artifact[job[w]] = "preview" THEN "spawn" ELSE "idle")
  /\ UNCHANGED <<rows, files, history, counts>>

(* The subprocess ends, times out or cannot start, and its record is built. *)
RunGuard(w) ==
  /\ pc[w] = "spawn"
  /\ \E result \in Outcomes :
       LET execution == [run[w] EXCEPT !.result = result]
       IN  /\ run' = [run EXCEPT ![w] = execution]
           /\ finished' = [finished EXCEPT ![job[w]] = Append(@, execution)]
  /\ pc' = [pc EXCEPT ![w] = "confirm"]
  /\ UNCHANGED <<job, rows, files, history, attempts, faults, crashes, edits>>

(* save_guard_execution looks the approval up before its transaction ... *)
ConfirmApproval(w) ==
  /\ pc[w] = "confirm"
  /\ \/ /\ Goto(w, IF approval[job[w]] = "APPROVED" THEN "record" ELSE "idle")
        /\ UNCHANGED <<rows, files, history, counts>>
     \/ StoreRaises(w)

(* Mutant of SaveExecution: the guard's own status is not updated. *)
InsertExecutionOnly(w) ==
  /\ pc[w] = "record"
  /\ executions' = [executions EXCEPT ![job[w]] = @ \cup {run[w].ticket}]
  /\ Goto(w, "idle")
  /\ UNCHANGED <<status, approval, files, history, counts>>

(* ... which sets the status to the result and inserts the execution. *)
SaveExecution(w) ==
  /\ pc[w] = "record"
  /\ \/ /\ status' = [status EXCEPT ![job[w]] = run[w].result]
        /\ executions' = [executions EXCEPT ![job[w]] = @ \cup {run[w].ticket}]
        /\ Goto(w, "idle")
        /\ UNCHANGED <<approval, files, history, counts>>
     \/ StoreRaises(w)

-----------------------------------------------------------------------------
(* The server dies and is started again: rows and files stay. *)
Crash ==
  /\ crashes < MaxCrashes
  /\ crashes' = crashes + 1
  /\ pc' = [w \in Workers |-> "idle"]
  /\ cut' = (cut \/ \E w \in Workers : pc[w] = "save")
  /\ abandoned' = abandoned \cup {job[w] : w \in {v \in Workers : pc[v] \in Writing}}
  /\ UNCHANGED <<job, run, rows, files, overlapped, attempts, finished, faults, edits>>

(* Somebody changes or deletes a generated file (the repository is the *)
(* user's own working copy).                                           *)
EditArtifact(g) ==
  /\ edits < MaxEdits
  /\ edits' = edits + 1
  /\ \E content \in {"absent", "edited"} :
       artifact' = [artifact EXCEPT ![g] = content]
  /\ UNCHANGED <<rows, threads, installed, history, attempts, finished, faults, crashes>>

Request(w) ==
  \/ ReadOrRefuse(w)
  \/ RequestPreview(w)
  \/ \E g \in Guards : \/ \E decision \in Deciding : RequestDecision(w, g, decision)
                       \/ RequestExecution(w, g)

Continue(w) ==
  \/ SaveGuard(w)
  \/ RecordRejection(w) \/ RecordApproval(w)
  \/ OpenArtifact(w) \/ FlushArtifact(w) \/ RestorePreview(w)
  \/ LookupApproval(w) \/ CheckArtifact(w) \/ RunGuard(w)
  \/ ConfirmApproval(w) \/ SaveExecution(w)

Next == \/ \E w \in Workers : Request(w) \/ Continue(w)
        \/ Crash
        \/ \E g \in Guards : EditArtifact(g)

Spec == Init /\ [][Next]_vars

-----------------------------------------------------------------------------
(* Properties *)

Writers(g) == {w \in Workers : pc[w] \in Writing /\ job[w] = g}

(* A guard's program ran, or its result was recorded, only if its approved   *)
(* file was put in place and the approval still stands: neither a rejection, *)
(* nor the compensation of a failed write (service.py:93-97), nor the        *)
(* approval read outside the transaction (storage.py:773-780) may leave a    *)
(* result without its approval, however requests interleave or crash.        *)
ExecutionsApproved ==
  \A g \in Guards : finished[g] # <<>> \/ executions[g] # {} =>
                      approval[g] = "APPROVED" /\ g \in installed

(* What is on disk as the approved preview has an approval: compensation     *)
(* never withdraws the approval of a guard that another request put in place *)
(* and a rejected guard is never there (test_guard_lifecycle.py:96-106).     *)
InstalledMeansApproved ==
  \A g \in Guards : g \in installed \/ artifact[g] = "preview" => approval[g] = "APPROVED"

(* The previews of the run overlapped and guard g is open again. *)
Reset(g) == overlapped /\ status[g] = "PREVIEWED"

(* The status that the API shows is the one the decision row implies: decide *)
(* and its compensation change both in one transaction, whatever else runs   *)
(* or fails.  The one exception is a guard that the second of two            *)
(* overlapping previews set back, see DecidedNotPreviewed.                   *)
StatusReflectsDecision ==
  \A g \in Guards :
    /\ approval[g] = "NONE" => status[g] \in {"ABSENT", "PREVIEWED"}
    /\ approval[g] = "REJECTED" => status[g] = "REJECTED" \/ Reset(g)
    /\ approval[g] = "APPROVED" => status[g] \in Executable \/ Reset(g)

(* A guard whose executions are recorded shows the result of one of them     *)
(* (service.py:128-135), never WRITTEN again, unless overlapping previews    *)
(* set it back.                                                              *)
StatusIsReported ==
  \A g \in Guards : executions[g] # {} =>
    \/ Reset(g)
    \/ \E i \in DOMAIN finished[g] :
         /\ finished[g][i].ticket \in executions[g]
         /\ finished[g][i].result = status[g]

(* An approval belongs to an installed file, to the one request that writes  *)
(* or compensates it, or to a guard abandoned in between, and then for ever: *)
(* nothing installs, withdraws or decides an abandoned guard again.  A       *)
(* failed write is thus compensated (storage.py:754) unless the server dies  *)
(* or the compensation itself raises (service.py:93-97).                     *)
ApprovalUsable ==
  \A g \in Guards : approval[g] = "APPROVED" <=>
                       g \in installed \/ Writers(g) # {} \/ g \in abandoned

(* Once nobody saves previews, all of the run's guards are listed or none:   *)
(* the early return for a non-empty list (service.py:47-49) hides a guard    *)
(* for good only if a loop was cut off by a crash or a save that raised,     *)
(* and however many previews overlap.                                        *)
PreviewsComplete ==
  ~cut /\ (\A w \in Workers : pc[w] # "save") =>
    \A g, h \in Guards : status[g] = "ABSENT" => status[h] = "ABSENT"

(* A recorded decision is what the guard's status shows: save_guard "Persist *)
(* an immutable preview or update its lifecycle status." (storage.py:695)    *)
(* and "guard decision is immutable" (storage.py:743).  Two overlapping      *)
(* previews break it.                                                        *)
DecidedNotPreviewed ==
  \A g \in Guards : status[g] = "PREVIEWED" => approval[g] = "NONE"

(* The policy this lifecycle implements. *)
Phase(g) == CASE approval[g] = "NONE"     -> "open"
              [] approval[g] = "REJECTED" -> "rejected"
              [] approval[g] = "APPROVED" -> IF g \in installed THEN "released" ELSE "approved"

Policy == INSTANCE GuardPolicy WITH phase <- [g \in Guards |-> Phase(g)],
                                    reports <- executions

(* Every step of the service is a step of the policy or changes nothing that *)
(* the policy speaks of.                                                     *)
ImplementsPolicy == Policy!Spec
============================================================================
