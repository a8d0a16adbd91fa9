----------------------- MODULE GuardLifecycle_proofs -----------------------
(***************************************************************************)
(* Proofs about GuardLifecycle, for any number of guards and threads and   *)
(* for any bounds.                                                         *)
(***************************************************************************)
EXTENDS GuardLifecycle, TLAPS

(* The steps of the service, one disjunct each; a store call that raises is *)
(* the same step wherever it happens.                                      *)
StoreCalls == {"save", "reject", "approve", "restore", "lookup", "confirm", "record"}

LEMMA StepCases ==
  ASSUME Next
  PROVE  \/ \E w \in Workers :
              \/ ReadOrRefuse(w) \/ RequestPreview(w)
              \/ \E g \in Guards, decision \in Deciding : RequestDecision(w, g, decision)
              \/ \E g \in Guards : RequestExecution(w, g)
              \/ pc[w] \in StoreCalls /\ StoreRaises(w)
              \/ /\ ~StoreRaises(w)
                 /\ \/ SaveGuard(w)
                    \/ RecordRejection(w) \/ RecordApproval(w) \/ RestorePreview(w)
                    \/ LookupApproval(w) \/ ConfirmApproval(w) \/ SaveExecution(w)
              \/ OpenArtifact(w) \/ FlushArtifact(w)
              \/ CheckArtifact(w) \/ RunGuard(w)
         \/ Crash
         \/ \E g \in Guards : EditArtifact(g)
BY DEF Next, Request, Continue, StoreCalls, SaveGuard, RecordRejection, RecordApproval,
   RecordDecision, RestorePreview, LookupApproval, ConfirmApproval, SaveExecution

-----------------------------------------------------------------------------
(* Every row, file and thread keeps a value of its kind. *)
LEMMA InitType == Init => TypeOK
<1> SUFFICES ASSUME Init PROVE TypeOK
  OBVIOUS
<1> USE NumGuardsAssumption, BoundsAssumption
<1>1. RowsOK /\ FilesOK /\ HistoryOK
  BY DEF Init, RowsOK, FilesOK, HistoryOK
<1>2. ThreadsOK
  BY DEF Init, ThreadsOK, Guards, Steps, Executing, NoRun
<1>3. CountsOK
  BY DEF Init, CountsOK
<1> QED
  BY <1>1, <1>2, <1>3 DEF TypeOK

(* A thread may go on to any step that does not ask for more than the *)
(* execution record it already has.                                   *)
LEMMA GotoType ==
  ASSUME ThreadsOK, NEW w \in Workers, NEW to \in Steps, Goto(w, to),
         to \in Executing => pc[w] \in Executing,
         to \in {"confirm", "record"} => pc[w] \in {"confirm", "record"}
  PROVE  ThreadsOK'
<1>1. pc' \in [Workers -> Steps] /\ job' = job /\ run' = run
  BY DEF ThreadsOK, Goto
<1>2. \A v \in Workers : pc'[v] = IF v = w THEN to ELSE pc[v]
  BY DEF ThreadsOK, Goto
<1> QED
  BY <1>1, <1>2 DEF ThreadsOK

LEMMA NextType == TypeOK /\ [Next]_vars => TypeOK'
<1> SUFFICES ASSUME TypeOK, [Next]_vars PROVE TypeOK'
  OBVIOUS
<1> USE NumGuardsAssumption, BoundsAssumption, OutcomesAssumption
<1>0. RowsOK /\ FilesOK /\ ThreadsOK /\ HistoryOK /\ CountsOK
  BY DEF TypeOK
<1>1. ASSUME NEW w \in Workers, ReadOrRefuse(w) PROVE TypeOK'
  BY <1>0, <1>1 DEF ReadOrRefuse, vars, rows, files, threads, history, counts,
                    TypeOK, RowsOK, FilesOK, ThreadsOK, HistoryOK, CountsOK
<1>2. ASSUME NEW w \in Workers, RequestPreview(w) PROVE TypeOK'
  <2>1. 1 \in Guards
    BY DEF Guards
  <2>2. ThreadsOK'
    BY <1>0, <1>2, <2>1 DEF RequestPreview, Accept, ThreadsOK, Steps, Previewing, Executing
  <2> QED
    BY <1>0, <1>2, <2>2 DEF RequestPreview, rows, files, history, counts, TypeOK, RowsOK, FilesOK, HistoryOK, CountsOK
<1>3. ASSUME NEW w \in Workers, NEW g \in Guards, NEW decision \in Deciding,
             RequestDecision(w, g, decision)
      PROVE  TypeOK'
  <2>1. ThreadsOK'
    BY <1>0, <1>3 DEF RequestDecision, Accept, ThreadsOK, Steps, Deciding, Executing
  <2> QED
    BY <1>0, <1>3, <2>1 DEF RequestDecision, rows, files, history, counts, TypeOK, RowsOK, FilesOK, HistoryOK, CountsOK
<1>4. ASSUME NEW w \in Workers, NEW g \in Guards, RequestExecution(w, g) PROVE TypeOK'
  <2>1. attempts + 1 \in Tickets
    BY <1>0, <1>4 DEF RequestExecution, CountsOK, Tickets
  <2>2. /\ pc' = [pc EXCEPT ![w] = "lookup"]
        /\ job' = [job EXCEPT ![w] = g]
        /\ run' = [run EXCEPT ![w] = [ticket |-> attempts + 1, result |-> "NONE"]]
        /\ attempts' = attempts + 1
    BY <1>4 DEF RequestExecution, Accept
  <2>3. ThreadsOK'
    BY <1>0, <2>1, <2>2 DEF ThreadsOK, Steps, Executing, Tickets
  <2>4. CountsOK'
    BY <1>0, <1>4, <2>1, <2>2 DEF RequestExecution, CountsOK, Tickets
  <2> QED
    BY <1>0, <1>4, <2>3, <2>4 DEF RequestExecution, rows, files, history, TypeOK, RowsOK, FilesOK, HistoryOK
<1>5. ASSUME NEW w \in Workers, SaveGuard(w), ~StoreRaises(w) PROVE TypeOK'
  <2>1. ThreadsOK'
    <3>1. CASE job[w] < NumGuards
      BY <1>0, <1>5, <3>1 DEF SaveGuard, ThreadsOK, Guards
    <3>2. CASE ~(job[w] < NumGuards)
      BY <1>0, <1>5, <3>2, GotoType DEF SaveGuard, Steps, Executing
    <3> QED
      BY <3>1, <3>2
  <2>2. RowsOK'
    BY <1>0, <1>5 DEF SaveGuard, RowsOK, ThreadsOK, GuardStatus
  <2> QED
    BY <1>0, <1>5, <2>1, <2>2 DEF SaveGuard, files, history, counts, TypeOK, FilesOK, HistoryOK, CountsOK
<1>6. ASSUME NEW w \in Workers, RecordRejection(w), ~StoreRaises(w) PROVE TypeOK'
  <2>1. Goto(w, "idle")
    BY <1>6 DEF RecordRejection, RecordDecision
  <2>2. ThreadsOK'
    BY <1>0, <2>1, GotoType DEF Steps, Executing, Writing
  <2>3. RowsOK'
    BY <1>0, <1>6 DEF RecordRejection, RecordDecision, rows, RowsOK, ThreadsOK, GuardStatus
  <2> QED
    BY <1>0, <1>6, <2>2, <2>3 DEF RecordRejection, RecordDecision, files, history, counts, TypeOK, FilesOK, HistoryOK, CountsOK
<1>7. ASSUME NEW w \in Workers, RecordApproval(w), ~StoreRaises(w) PROVE TypeOK'
  <2>1. Goto(w, "idle") \/ Goto(w, "write")
    BY <1>7 DEF RecordApproval, RecordDecision
  <2>2. ThreadsOK'
    BY <1>0, <2>1, GotoType DEF Steps, Executing, Writing
  <2>3. RowsOK'
    BY <1>0, <1>7 DEF RecordApproval, RecordDecision, rows, RowsOK, ThreadsOK, GuardStatus
  <2> QED
    BY <1>0, <1>7, <2>2, <2>3 DEF RecordApproval, RecordDecision, files, history, counts, TypeOK, FilesOK, HistoryOK, CountsOK
<1>8. ASSUME NEW w \in Workers, OpenArtifact(w) PROVE TypeOK'
  <2>1. Goto(w, "flush") \/ Goto(w, "restore")
    BY <1>8 DEF OpenArtifact
  <2>2. ThreadsOK'
    BY <1>0, <2>1, GotoType DEF Steps, Executing, Writing
  <2>3. FilesOK'
    BY <1>0, <1>8 DEF OpenArtifact, FilesOK, ThreadsOK
  <2> QED
    BY <1>0, <1>8, <2>2, <2>3 DEF OpenArtifact, rows, history, counts, TypeOK, RowsOK, HistoryOK, CountsOK
<1>9. ASSUME NEW w \in Workers, FlushArtifact(w) PROVE TypeOK'
  <2>1. Goto(w, "idle") \/ Goto(w, "restore")
    BY <1>9 DEF FlushArtifact
  <2>2. ThreadsOK'
    BY <1>0, <2>1, GotoType DEF Steps, Executing, Writing
  <2>3. FilesOK'
    BY <1>0, <1>9 DEF FlushArtifact, files, FilesOK, ThreadsOK
  <2> QED
    BY <1>0, <1>9, <2>2, <2>3 DEF FlushArtifact, rows, history, counts, TypeOK, RowsOK, HistoryOK, CountsOK
<1>10. ASSUME NEW w \in Workers, RestorePreview(w), ~StoreRaises(w) PROVE TypeOK'
  <2>1. ThreadsOK'
    BY <1>0, <1>10, GotoType DEF RestorePreview, Steps, Executing
  <2>2. RowsOK'
    BY <1>0, <1>10 DEF RestorePreview, RowsOK, ThreadsOK, GuardStatus
  <2> QED
    BY <1>0, <1>10, <2>1, <2>2 DEF RestorePreview, files, history, counts, TypeOK, FilesOK, HistoryOK, CountsOK
<1>11. ASSUME NEW w \in Workers, LookupApproval(w), ~StoreRaises(w) PROVE TypeOK'
  <2>1. Goto(w, "idle") \/ Goto(w, "check")
    BY <1>11 DEF LookupApproval
  <2>2. ThreadsOK'
    BY <1>0, <1>11, <2>1, GotoType DEF LookupApproval, Steps, Executing
  <2> QED
    BY <1>0, <1>11, <2>2 DEF LookupApproval, rows, files, history, counts, TypeOK, RowsOK, FilesOK, HistoryOK, CountsOK
<1>12. ASSUME NEW w \in Workers, CheckArtifact(w) PROVE TypeOK'
  <2>1. Goto(w, "idle") \/ Goto(w, "spawn")
    BY <1>12 DEF CheckArtifact
  <2>2. ThreadsOK'
    BY <1>0, <1>12, <2>1, GotoType DEF CheckArtifact, Steps, Executing
  <2> QED
    BY <1>0, <1>12, <2>2 DEF CheckArtifact, rows, files, history, counts, TypeOK, RowsOK, FilesOK, HistoryOK, CountsOK
<1>13. ASSUME NEW w \in Workers, RunGuard(w) PROVE TypeOK'
  <2>1. PICK result \in Outcomes :
          /\ run' = [run EXCEPT ![w] = [run[w] EXCEPT !.result = result]]
          /\ finished' = [finished EXCEPT ![job[w]] =
                            Append(@, [run[w] EXCEPT !.result = result])]
    BY <1>13 DEF RunGuard
  <2>2. [run[w] EXCEPT !.result = result] = [ticket |-> run[w].ticket, result |-> result]
    BY <1>0 DEF ThreadsOK
  <2>3. run[w].ticket \in Tickets /\ run[w].ticket \in 0..MaxRuns /\ job[w] \in Guards
    BY <1>0, <1>13 DEF RunGuard, ThreadsOK, Executing
  <2>4. ThreadsOK'
    BY <1>0, <1>13, <2>1, <2>2, <2>3 DEF RunGuard, ThreadsOK, Steps, Executing
  <2>5. CountsOK'
    <3>1. [run[w] EXCEPT !.result = result] \in Execution
      BY <2>2, <2>3 DEF Execution
    <3> QED
      BY <1>0, <1>13, <2>1, <2>3, <3>1 DEF RunGuard, CountsOK
  <2> QED
    BY <1>0, <1>13, <2>4, <2>5 DEF RunGuard, rows, files, history, TypeOK, RowsOK, FilesOK, HistoryOK
<1>14. ASSUME NEW w \in Workers, ConfirmApproval(w), ~StoreRaises(w) PROVE TypeOK'
  <2>1. Goto(w, "idle") \/ Goto(w, "record")
    BY <1>14 DEF ConfirmApproval
  <2>2. ThreadsOK'
    BY <1>0, <1>14, <2>1, GotoType DEF ConfirmApproval, Steps, Executing
  <2> QED
    BY <1>0, <1>14, <2>2 DEF ConfirmApproval, rows, files, history, counts, TypeOK, RowsOK, FilesOK, HistoryOK, CountsOK
<1>15. ASSUME NEW w \in Workers, SaveExecution(w), ~StoreRaises(w) PROVE TypeOK'
  <2>1. ThreadsOK'
    BY <1>0, <1>15, GotoType DEF SaveExecution, Steps, Executing
  <2>2. run[w].ticket \in Tickets /\ run[w].result \in GuardStatus
    BY <1>0, <1>15 DEF SaveExecution, ThreadsOK, Executing, GuardStatus
  <2>3. RowsOK'
    BY <1>0, <1>15, <2>2 DEF SaveExecution, RowsOK, ThreadsOK
  <2> QED
    BY <1>0, <1>15, <2>1, <2>3 DEF SaveExecution, files, history, counts, TypeOK, FilesOK, HistoryOK, CountsOK
<1>16. ASSUME Crash PROVE TypeOK'
  <2>1. ThreadsOK'
    BY <1>0, <1>16 DEF Crash, ThreadsOK, Steps, Executing
  <2>2. HistoryOK'
    BY <1>0, <1>16 DEF Crash, HistoryOK, ThreadsOK
  <2> QED
    BY <1>0, <1>16, <2>1, <2>2 DEF Crash, rows, files, TypeOK, RowsOK, FilesOK, CountsOK
<1>17. ASSUME NEW g \in Guards, EditArtifact(g) PROVE TypeOK'
  BY <1>0, <1>17 DEF EditArtifact, rows, threads, history, TypeOK, RowsOK, FilesOK,
     ThreadsOK, HistoryOK, CountsOK
<1>18. CASE UNCHANGED vars
  BY <1>0, <1>18 DEF vars, rows, files, threads, history, counts, TypeOK, RowsOK, FilesOK, ThreadsOK, HistoryOK, CountsOK
<1>19. ASSUME NEW w \in Workers, StoreRaises(w) PROVE TypeOK'
  <2>1. ThreadsOK'
    BY <1>0, <1>19, GotoType DEF StoreRaises, Steps, Executing
  <2>2. HistoryOK'
    BY <1>0, <1>19 DEF StoreRaises, HistoryOK, ThreadsOK
  <2> QED
    BY <1>0, <1>19, <2>1, <2>2 DEF StoreRaises, rows, files, TypeOK, RowsOK, FilesOK, CountsOK
<1> QED
  BY <1>1, <1>2, <1>3, <1>4, <1>5, <1>6, <1>7, <1>8, <1>9, <1>10, <1>11, <1>12,
     <1>13, <1>14, <1>15, <1>16, <1>17, <1>18, <1>19, StepCases

(* Rows, files and threads have their types in every reachable state of     *)
(* GuardService, SQLiteStore and GuardRunner.                                *)
THEOREM TypeCorrect == Spec => []TypeOK
BY InitType, NextType, PTL DEF Spec

-----------------------------------------------------------------------------
(***************************************************************************)
(* The approval row of a guard is a lock.  record_guard_decision takes it  *)
(* in a transaction that fails when it is taken; from then on only the     *)
(* thread that took it writes the file or gives the row back.  That is why *)
(* a result can never be left without its approval.                        *)
(***************************************************************************)
WriterHoldsApproval ==
  \A w \in Workers : pc[w] \in Writing =>
    /\ approval[job[w]] = "APPROVED"
    /\ job[w] \notin installed

OneWriter ==
  \A w, v \in Workers : pc[w] \in Writing /\ pc[v] \in Writing /\ job[w] = job[v] => w = v

InstalledApproved ==
  \A g \in Guards : /\ g \in installed => approval[g] = "APPROVED"
                    /\ artifact[g] = "preview" => g \in installed

RunnersInstalled ==
  \A w \in Workers : pc[w] \in {"spawn", "confirm", "record"} => job[w] \in installed

ResultsInstalled ==
  \A g \in Guards : finished[g] # <<>> \/ executions[g] # {} => g \in installed

LockInv == /\ TypeOK
           /\ WriterHoldsApproval
           /\ OneWriter
           /\ InstalledApproved
           /\ RunnersInstalled
           /\ ResultsInstalled

LEMMA InitLock == Init => LockInv
<1> SUFFICES ASSUME Init PROVE LockInv
  OBVIOUS
<1>1. TypeOK
  BY InitType
<1> QED
  BY <1>1 DEF Init, LockInv, WriterHoldsApproval, OneWriter, InstalledApproved,
              RunnersInstalled, ResultsInstalled, Writing

LEMMA NextLock == LockInv /\ [Next]_vars => LockInv'
<1> SUFFICES ASSUME LockInv, [Next]_vars PROVE LockInv'
  OBVIOUS
<1>0. /\ TypeOK /\ RowsOK /\ FilesOK /\ ThreadsOK /\ CountsOK
      /\ WriterHoldsApproval /\ OneWriter /\ InstalledApproved
      /\ RunnersInstalled /\ ResultsInstalled
  BY DEF LockInv, TypeOK
<1>T. TypeOK'
  BY <1>0, NextType
<1>P. pc \in [Workers -> Steps] /\ job \in [Workers -> Guards]
  BY <1>0 DEF ThreadsOK
<1> DEFINE Parts == /\ WriterHoldsApproval /\ OneWriter /\ InstalledApproved
                    /\ RunnersInstalled /\ ResultsInstalled
<1> SUFFICES Parts'
  BY <1>T DEF LockInv
<1>1. ASSUME NEW w \in Workers, ReadOrRefuse(w) PROVE Parts'
  BY <1>0, <1>P, <1>1
  DEF ReadOrRefuse, vars, rows, files, threads, counts,
      WriterHoldsApproval, OneWriter, InstalledApproved,
      RunnersInstalled, ResultsInstalled, Writing
<1>2. ASSUME NEW w \in Workers, RequestPreview(w) PROVE Parts'
  BY <1>0, <1>P, <1>2
  DEF RequestPreview, Accept, rows, files, counts,
      WriterHoldsApproval, OneWriter, InstalledApproved,
      RunnersInstalled, ResultsInstalled, Writing
<1>3. ASSUME NEW w \in Workers, NEW g \in Guards, NEW decision \in Deciding,
             RequestDecision(w, g, decision) PROVE Parts'
  BY <1>0, <1>P, <1>3
  DEF RequestDecision, Accept, Deciding, rows, files, counts,
      WriterHoldsApproval, OneWriter, InstalledApproved,
      RunnersInstalled, ResultsInstalled, Writing
<1>4. ASSUME NEW w \in Workers, NEW g \in Guards, RequestExecution(w, g) PROVE Parts'
  BY <1>0, <1>P, <1>4
  DEF RequestExecution, Accept, rows, files,
      WriterHoldsApproval, OneWriter, InstalledApproved,
      RunnersInstalled, ResultsInstalled, Writing
<1>5. ASSUME NEW w \in Workers, SaveGuard(w), ~StoreRaises(w) PROVE Parts'
  BY <1>0, <1>P, <1>5
  DEF SaveGuard, Goto, files, counts,
      WriterHoldsApproval, OneWriter, InstalledApproved,
      RunnersInstalled, ResultsInstalled, Writing
<1>6. ASSUME NEW w \in Workers, RecordRejection(w), ~StoreRaises(w) PROVE Parts'
  BY <1>0, <1>P, <1>6
  DEF RecordRejection, RecordDecision, Goto, RowsOK, rows, files, counts,
      WriterHoldsApproval, OneWriter, InstalledApproved,
      RunnersInstalled, ResultsInstalled, Writing
<1>7. ASSUME NEW w \in Workers, RecordApproval(w), ~StoreRaises(w) PROVE Parts'
  BY <1>0, <1>P, <1>7
  DEF RecordApproval, RecordDecision, Goto, RowsOK, rows, files, counts,
      WriterHoldsApproval, OneWriter, InstalledApproved,
      RunnersInstalled, ResultsInstalled, Writing
<1>8. ASSUME NEW w \in Workers, OpenArtifact(w) PROVE Parts'
  BY <1>0, <1>P, <1>8
  DEF OpenArtifact, Goto, FilesOK, rows, counts,
      WriterHoldsApproval, OneWriter, InstalledApproved,
      RunnersInstalled, ResultsInstalled, Writing
<1>9. ASSUME NEW w \in Workers, FlushArtifact(w) PROVE Parts'
  BY <1>0, <1>P, <1>9
  DEF FlushArtifact, Goto, FilesOK, rows, files, counts,
      WriterHoldsApproval, OneWriter, InstalledApproved,
      RunnersInstalled, ResultsInstalled, Writing
<1>10. ASSUME NEW w \in Workers, RestorePreview(w), ~StoreRaises(w) PROVE Parts'
  BY <1>0, <1>P, <1>10
  DEF RestorePreview, Goto, RowsOK, files, counts,
      WriterHoldsApproval, OneWriter, InstalledApproved,
      RunnersInstalled, ResultsInstalled, Writing
<1>11. ASSUME NEW w \in Workers, LookupApproval(w), ~StoreRaises(w) PROVE Parts'
  BY <1>0, <1>P, <1>11
  DEF LookupApproval, Goto, rows, files, counts,
      WriterHoldsApproval, OneWriter, InstalledApproved,
      RunnersInstalled, ResultsInstalled, Writing
<1>12. ASSUME NEW w \in Workers, CheckArtifact(w) PROVE Parts'
  BY <1>0, <1>P, <1>12
  DEF CheckArtifact, Goto, rows, files, counts,
      WriterHoldsApproval, OneWriter, InstalledApproved,
      RunnersInstalled, ResultsInstalled, Writing
<1>13. ASSUME NEW w \in Workers, RunGuard(w) PROVE Parts'
  BY <1>0, <1>P, <1>13
  DEF RunGuard, CountsOK, rows, files,
      WriterHoldsApproval, OneWriter, InstalledApproved,
      RunnersInstalled, ResultsInstalled, Writing
<1>14. ASSUME NEW w \in Workers, ConfirmApproval(w), ~StoreRaises(w) PROVE Parts'
  BY <1>0, <1>P, <1>14
  DEF ConfirmApproval, Goto, rows, files, counts,
      WriterHoldsApproval, OneWriter, InstalledApproved,
      RunnersInstalled, ResultsInstalled, Writing
<1>15. ASSUME NEW w \in Workers, SaveExecution(w), ~StoreRaises(w) PROVE Parts'
  BY <1>0, <1>P, <1>15
  DEF SaveExecution, Goto, RowsOK, files, counts,
      WriterHoldsApproval, OneWriter, InstalledApproved,
      RunnersInstalled, ResultsInstalled, Writing
<1>16. ASSUME Crash PROVE Parts'
  BY <1>0, <1>P, <1>16
  DEF Crash, rows, files,
      WriterHoldsApproval, OneWriter, InstalledApproved,
      RunnersInstalled, ResultsInstalled, Writing
<1>17. ASSUME NEW g \in Guards, EditArtifact(g) PROVE Parts'
  BY <1>0, <1>P, <1>17
  DEF EditArtifact, FilesOK, rows, threads,
      WriterHoldsApproval, OneWriter, InstalledApproved,
      RunnersInstalled, ResultsInstalled, Writing
<1>18. CASE UNCHANGED vars
  BY <1>0, <1>18
  DEF vars, rows, files, threads, counts,
      WriterHoldsApproval, OneWriter, InstalledApproved, RunnersInstalled, ResultsInstalled
<1>19. ASSUME NEW w \in Workers, StoreRaises(w) PROVE Parts'
  BY <1>0, <1>P, <1>19
  DEF StoreRaises, Goto, rows, files,
      WriterHoldsApproval, OneWriter, InstalledApproved,
      RunnersInstalled, ResultsInstalled, Writing
<1> HIDE DEF Parts
<1> QED
  BY <1>1, <1>2, <1>3, <1>4, <1>5, <1>6, <1>7, <1>8, <1>9, <1>10, <1>11, <1>12,
     <1>13, <1>14, <1>15, <1>16, <1>17, <1>18, <1>19, StepCases

(* The approval row stays a lock (record_guard_decision, storage.py:729-751). *)
THEOREM LockCorrect == Spec => []LockInv
BY InitLock, NextLock, PTL DEF Spec

(* No guard ran and no result is recorded without its installed, still     *)
(* standing approval: the races around service.py:93-97 and                *)
(* storage.py:773-780 are harmless, for any number of requests and crashes. *)
THEOREM ExecutionsApprovedCorrect == Spec => []ExecutionsApproved
<1>1. LockInv => ExecutionsApproved
  BY DEF LockInv, ExecutionsApproved, InstalledApproved, ResultsInstalled
<1> QED
  BY <1>1, LockCorrect, PTL

(* No file that equals the preview is without its approval. *)
THEOREM InstalledMeansApprovedCorrect == Spec => []InstalledMeansApproved
<1>1. LockInv => InstalledMeansApproved
  BY DEF LockInv, InstalledMeansApproved, InstalledApproved
<1> QED
  BY <1>1, LockCorrect, PTL

-----------------------------------------------------------------------------
(* The lifecycle implements GuardPolicy: each step is a step of the policy *)
(* or leaves phases and reports as they are.                               *)
PhaseMap == [g \in Guards |-> Phase(g)]

LEMMA SamePhases ==
  ASSUME UNCHANGED <<approval, installed>>
  PROVE  PhaseMap' = PhaseMap
BY DEF PhaseMap, Phase

LEMMA OnePhaseChanges ==
  ASSUME RowsOK, NEW h \in Guards, NEW value,
         Phase(h)' = value,
         \A g \in Guards \ {h} : approval'[g] = approval[g] /\ (g \in installed' <=> g \in installed)
  PROVE  PhaseMap' = [PhaseMap EXCEPT ![h] = value]
<1>1. \A g \in Guards \ {h} : Phase(g)' = Phase(g)
  BY DEF Phase
<1> QED
  BY <1>1 DEF PhaseMap

LEMMA PolicyStep == LockInv /\ LockInv' /\ [Next]_vars => [Policy!Next]_(Policy!vars)
<1> SUFFICES ASSUME LockInv, LockInv', [Next]_vars
             PROVE  Policy!Next \/ UNCHANGED <<PhaseMap, executions>>
  BY DEF Policy!vars, PhaseMap
<1>0. /\ RowsOK /\ ThreadsOK /\ WriterHoldsApproval
      /\ RunnersInstalled /\ InstalledApproved
  BY DEF LockInv, TypeOK
<1>M. ASSUME NEW h \in Guards, NEW from, NEW to,
             Policy!Move(h, from, to),
             \/ from = "open" /\ to = "approved"
             \/ from = "open" /\ to = "rejected"
             \/ from = "approved" /\ to = "open"
             \/ from = "approved" /\ to = "released"
      PROVE  Policy!Next
  BY <1>M DEF Policy!Next, Policy!Approve, Policy!Reject, Policy!Withdraw, Policy!Release
<1>N. ASSUME NEW h \in Guards, NEW from, NEW to,
             Phase(h) = from, PhaseMap' = [PhaseMap EXCEPT ![h] = to], UNCHANGED executions
      PROVE  Policy!Move(h, from, to)
  BY <1>N DEF Policy!Move, PhaseMap
<1>Q. ASSUME UNCHANGED <<approval, installed, executions>>
      PROVE  UNCHANGED <<PhaseMap, executions>>
  BY <1>Q, SamePhases
<1>1. ASSUME NEW w \in Workers,
             \/ ReadOrRefuse(w) \/ RequestPreview(w)
             \/ \E g \in Guards, decision \in Deciding : RequestDecision(w, g, decision)
             \/ \E g \in Guards : RequestExecution(w, g)
             \/ StoreRaises(w)
             \/ SaveGuard(w) \/ OpenArtifact(w)
             \/ LookupApproval(w) \/ CheckArtifact(w) \/ RunGuard(w) \/ ConfirmApproval(w)
      PROVE  UNCHANGED <<PhaseMap, executions>>
  BY <1>1, <1>Q DEF ReadOrRefuse, RequestPreview, RequestDecision, RequestExecution,
     StoreRaises, SaveGuard, OpenArtifact, LookupApproval, CheckArtifact, RunGuard, ConfirmApproval,
     vars, rows, files
<1>2. ASSUME NEW w \in Workers, NEW decision, NEW row, NEW newStatus, NEW next, NEW to,
             RecordDecision(w, decision, row, newStatus, next), ~StoreRaises(w),
             \/ row = "APPROVED" /\ to = "approved"
             \/ row = "REJECTED" /\ to = "rejected"
      PROVE  Policy!Next \/ UNCHANGED <<PhaseMap, executions>>
  <2>1. PICK h \in Guards : h = job[w]
    BY <1>0 DEF ThreadsOK
  <2>2. CASE approval[h] # "NONE"
    BY <1>2, <2>1, <2>2, <1>Q DEF RecordDecision, rows, files
  <2>3. CASE approval[h] = "NONE"
    <3>1. /\ approval' = [approval EXCEPT ![h] = row]
          /\ UNCHANGED <<executions, installed>>
      BY <1>2, <2>1, <2>3 DEF RecordDecision, files
    <3>2. Phase(h) = "open"
      BY <2>3 DEF Phase
    <3>3. approval'[h] = row /\ h \notin installed'
      BY <1>0, <2>3, <3>1 DEF InstalledApproved, RowsOK
    <3>4. CASE row = "APPROVED" /\ to = "approved"
      <4>1. Phase(h)' = "approved"
        BY <3>3, <3>4 DEF Phase
      <4> QED
        BY <1>0, <3>1, <3>2, <4>1, OnePhaseChanges, <1>N, <1>M DEF RowsOK
    <3>5. CASE row = "REJECTED" /\ to = "rejected"
      <4>1. Phase(h)' = "rejected"
        BY <3>3, <3>5 DEF Phase
      <4> QED
        BY <1>0, <3>1, <3>2, <4>1, OnePhaseChanges, <1>N, <1>M DEF RowsOK
    <3> QED
      BY <1>2, <3>4, <3>5
  <2> QED
    BY <2>2, <2>3
<1>3. ASSUME NEW w \in Workers, FlushArtifact(w)
      PROVE  Policy!Next \/ UNCHANGED <<PhaseMap, executions>>
  <2>1. PICK h \in Guards : h = job[w]
    BY <1>0 DEF ThreadsOK
  <2>2. approval[h] = "APPROVED" /\ h \notin installed /\ UNCHANGED <<approval, executions>>
    BY <1>0, <1>3, <2>1 DEF FlushArtifact, rows, WriterHoldsApproval, Writing
  <2>3. CASE UNCHANGED installed
    BY <2>2, <2>3, <1>Q
  <2>4. CASE installed' = installed \cup {h}
    <3>1. Phase(h) = "approved" /\ Phase(h)' = "released"
      BY <2>2, <2>4 DEF Phase
    <3> QED
      BY <1>0, <2>2, <2>4, <3>1, OnePhaseChanges, <1>N, <1>M
  <2> QED
    BY <1>3, <2>1, <2>3, <2>4 DEF FlushArtifact, files
<1>4. ASSUME NEW w \in Workers, RestorePreview(w), ~StoreRaises(w) PROVE Policy!Next
  <2>1. PICK h \in Guards : h = job[w]
    BY <1>0 DEF ThreadsOK
  <2>2. /\ approval[h] = "APPROVED" /\ h \notin installed
        /\ approval' = [approval EXCEPT ![h] = "NONE"]
        /\ UNCHANGED <<executions, installed>>
    BY <1>0, <1>4, <2>1 DEF RestorePreview, files, WriterHoldsApproval, Writing
  <2>3. Phase(h) = "approved" /\ Phase(h)' = "open"
    BY <1>0, <2>2 DEF Phase, RowsOK
  <2> QED
    BY <1>0, <2>2, <2>3, OnePhaseChanges, <1>N, <1>M DEF RowsOK
<1>5. ASSUME NEW w \in Workers, SaveExecution(w), ~StoreRaises(w) PROVE Policy!Next
  <2>1. PICK h \in Guards : h = job[w]
    BY <1>0 DEF ThreadsOK
  <2>2. /\ h \in installed /\ approval[h] = "APPROVED"
        /\ run[w].ticket \in Tickets
        /\ executions' = [executions EXCEPT ![h] = @ \cup {run[w].ticket}]
        /\ UNCHANGED <<approval, installed>>
    BY <1>0, <1>5, <2>1 DEF SaveExecution, files, RunnersInstalled, InstalledApproved,
       ThreadsOK, Executing
  <2>3. PhaseMap[h] = "released"
    BY <2>2 DEF PhaseMap, Phase
  <2>4. PhaseMap' = PhaseMap
    BY <2>2, SamePhases
  <2> QED
    BY <2>2, <2>3, <2>4 DEF Policy!Next, Policy!Report, PhaseMap
<1>6. ASSUME Crash \/ (\E g \in Guards : EditArtifact(g)) \/ UNCHANGED vars
      PROVE  UNCHANGED <<PhaseMap, executions>>
  BY <1>6, <1>Q DEF Crash, EditArtifact, vars, rows, files
<1>7. ASSUME NEW w \in Workers, RecordRejection(w) \/ RecordApproval(w), ~StoreRaises(w)
      PROVE  Policy!Next \/ UNCHANGED <<PhaseMap, executions>>
  BY <1>7, <1>2 DEF RecordRejection, RecordApproval
<1> QED
  BY <1>1, <1>3, <1>4, <1>5, <1>6, <1>7, StepCases

(* Whatever requests overlap, fail or crash: a guard is decided once, a    *)
(* rejection is final, an approval is given back only before its file is   *)
(* in place, and results are recorded only after that.                     *)
THEOREM GuardLifecycleImplementsPolicy == Spec => ImplementsPolicy
<1>1. Init => Policy!Init
  BY DEF Init, Policy!Init, Phase
<1> QED
  BY <1>1, LockCorrect, PolicyStep, PTL DEF Spec, Policy!Spec, ImplementsPolicy

-----------------------------------------------------------------------------
(* As long as previews do not overlap, a save meets only rows that do not    *)
(* exist; so the stored status of a guard is the one its decision implies.   *)
SavesAreFirst ==
  ~overlapped => /\ \A w, v \in Workers : pc[w] = "save" /\ pc[v] = "save" => w = v
                 /\ \A w \in Workers : pc[w] = "save" =>
                      \A g \in Guards : g >= job[w] => status[g] = "ABSENT"

DecidersSawPreview ==
  \A w \in Workers : pc[w] \in Deciding => status[job[w]] # "ABSENT"

StatusInv == LockInv /\ SavesAreFirst /\ DecidersSawPreview /\ StatusReflectsDecision

LEMMA InitStatus == Init => StatusInv
<1> SUFFICES ASSUME Init PROVE StatusInv
  OBVIOUS
<1>1. LockInv
  BY InitLock
<1> QED
  BY <1>1 DEF Init, StatusInv, SavesAreFirst, DecidersSawPreview, StatusReflectsDecision,
              Deciding, Executable, GuardExecutionStatus

LEMMA NextStatus == StatusInv /\ [Next]_vars => StatusInv'
<1> SUFFICES ASSUME StatusInv, [Next]_vars PROVE StatusInv'
  OBVIOUS
<1>0. /\ LockInv /\ RowsOK /\ ThreadsOK /\ WriterHoldsApproval
      /\ InstalledApproved /\ RunnersInstalled
      /\ SavesAreFirst /\ DecidersSawPreview /\ StatusReflectsDecision
  BY DEF StatusInv, LockInv, TypeOK
<1>L. LockInv'
  BY <1>0, NextLock
<1>P. pc \in [Workers -> Steps] /\ job \in [Workers -> Guards]
  BY <1>0 DEF ThreadsOK
<1> DEFINE Parts == SavesAreFirst /\ DecidersSawPreview /\ StatusReflectsDecision
<1> SUFFICES Parts'
  BY <1>L DEF StatusInv
<1>1. ASSUME NEW w \in Workers, ReadOrRefuse(w) PROVE Parts'
  BY <1>0, <1>P, <1>1
  DEF ReadOrRefuse, vars, rows, threads, history,
      SavesAreFirst, DecidersSawPreview, StatusReflectsDecision, Reset, Deciding,
      Executable, GuardExecutionStatus
<1>2. ASSUME NEW w \in Workers, RequestPreview(w) PROVE Parts'
  BY <1>0, <1>P, <1>2
  DEF RequestPreview, Accept, rows, history,
      SavesAreFirst, DecidersSawPreview, StatusReflectsDecision, Reset, Deciding,
      Executable, GuardExecutionStatus
<1>3. ASSUME NEW w \in Workers, NEW g \in Guards, NEW decision \in Deciding,
             RequestDecision(w, g, decision) PROVE Parts'
  BY <1>0, <1>P, <1>3
  DEF RequestDecision, Accept, rows, history,
      SavesAreFirst, DecidersSawPreview, StatusReflectsDecision, Reset, Deciding,
      Executable, GuardExecutionStatus
<1>4. ASSUME NEW w \in Workers, NEW g \in Guards, RequestExecution(w, g) PROVE Parts'
  BY <1>0, <1>P, <1>4
  DEF RequestExecution, Accept, rows, history,
      SavesAreFirst, DecidersSawPreview, StatusReflectsDecision, Reset, Deciding,
      Executable, GuardExecutionStatus
<1>5. ASSUME NEW w \in Workers, SaveGuard(w), ~StoreRaises(w) PROVE Parts'
  <2>1. /\ pc[w] = "save" /\ status' = [status EXCEPT ![job[w]] = "PREVIEWED"]
        /\ UNCHANGED <<approval, overlapped>>
        /\ \A v \in Workers \ {w} : pc'[v] = pc[v] /\ job'[v] = job[v]
        /\ job[w] \in Guards /\ NumGuards \in Nat
        /\ \/ pc'[w] = "save" /\ job'[w] = job[w] + 1
           \/ pc'[w] = "idle" /\ job'[w] = job[w]
    BY <1>5, <1>P, NumGuardsAssumption DEF SaveGuard, Goto, history
  <2>2. ~overlapped => status[job[w]] = "ABSENT" /\ approval[job[w]] = "NONE"
    <3>1. ~overlapped => status[job[w]] = "ABSENT"
      BY <1>0, <2>1 DEF SavesAreFirst, Guards
    <3>2. approval[job[w]] \in {"NONE", "APPROVED", "REJECTED"}
      BY <1>0, <2>1 DEF RowsOK
    <3> QED
      BY <1>0, <2>1, <3>1, <3>2 DEF StatusReflectsDecision, Reset, Executable, GuardExecutionStatus
  <2>3. StatusReflectsDecision'
    BY <1>0, <2>1, <2>2 DEF StatusReflectsDecision, Reset, RowsOK
  <2>4. DecidersSawPreview'
    BY <1>0, <1>P, <2>1 DEF DecidersSawPreview, RowsOK, Deciding
  <2>5. SavesAreFirst'
    BY <1>0, <2>1 DEF SavesAreFirst, RowsOK, Guards
  <2> QED
    BY <2>3, <2>4, <2>5
<1>6. ASSUME NEW w \in Workers, RecordRejection(w), ~StoreRaises(w) PROVE Parts'
  BY <1>0, <1>P, <1>6
  DEF RecordRejection, RecordDecision, Goto, RowsOK, rows, history,
      SavesAreFirst, DecidersSawPreview, StatusReflectsDecision, Reset, Deciding,
      Executable, GuardExecutionStatus
<1>7. ASSUME NEW w \in Workers, RecordApproval(w), ~StoreRaises(w) PROVE Parts'
  BY <1>0, <1>P, <1>7
  DEF RecordApproval, RecordDecision, Goto, RowsOK, rows, history,
      SavesAreFirst, DecidersSawPreview, StatusReflectsDecision, Reset, Deciding,
      Executable, GuardExecutionStatus
<1>8. ASSUME NEW w \in Workers, OpenArtifact(w) PROVE Parts'
  BY <1>0, <1>P, <1>8
  DEF OpenArtifact, Goto, rows, history,
      SavesAreFirst, DecidersSawPreview, StatusReflectsDecision, Reset, Deciding,
      Executable, GuardExecutionStatus
<1>9. ASSUME NEW w \in Workers, FlushArtifact(w) PROVE Parts'
  BY <1>0, <1>P, <1>9
  DEF FlushArtifact, Goto, rows, history,
      SavesAreFirst, DecidersSawPreview, StatusReflectsDecision, Reset, Deciding,
      Executable, GuardExecutionStatus
<1>10. ASSUME NEW w \in Workers, RestorePreview(w), ~StoreRaises(w) PROVE Parts'
  BY <1>0, <1>P, <1>10
  DEF RestorePreview, Goto, RowsOK, history, WriterHoldsApproval, Writing,
      SavesAreFirst, DecidersSawPreview, StatusReflectsDecision, Reset, Deciding,
      Executable, GuardExecutionStatus
<1>11. ASSUME NEW w \in Workers, LookupApproval(w), ~StoreRaises(w) PROVE Parts'
  BY <1>0, <1>P, <1>11
  DEF LookupApproval, Goto, rows, history,
      SavesAreFirst, DecidersSawPreview, StatusReflectsDecision, Reset, Deciding,
      Executable, GuardExecutionStatus
<1>12. ASSUME NEW w \in Workers, CheckArtifact(w) PROVE Parts'
  BY <1>0, <1>P, <1>12
  DEF CheckArtifact, Goto, rows, history,
      SavesAreFirst, DecidersSawPreview, StatusReflectsDecision, Reset, Deciding,
      Executable, GuardExecutionStatus
<1>13. ASSUME NEW w \in Workers, RunGuard(w) PROVE Parts'
  BY <1>0, <1>P, <1>13
  DEF RunGuard, rows, history,
      SavesAreFirst, DecidersSawPreview, StatusReflectsDecision, Reset, Deciding,
      Executable, GuardExecutionStatus
<1>14. ASSUME NEW w \in Workers, ConfirmApproval(w), ~StoreRaises(w) PROVE Parts'
  BY <1>0, <1>P, <1>14
  DEF ConfirmApproval, Goto, rows, history,
      SavesAreFirst, DecidersSawPreview, StatusReflectsDecision, Reset, Deciding,
      Executable, GuardExecutionStatus
<1>15. ASSUME NEW w \in Workers, SaveExecution(w), ~StoreRaises(w) PROVE Parts'
  <2>1. PICK h \in Guards : h = job[w]
    BY <1>P
  <2>2. run[w].result \in GuardExecutionStatus /\ approval[h] = "APPROVED"
    BY <1>0, <1>15, <2>1, OutcomesAssumption
    DEF SaveExecution, ThreadsOK, RunnersInstalled, InstalledApproved
  <2>3. /\ status' = [status EXCEPT ![h] = run[w].result]
        /\ pc' = [pc EXCEPT ![w] = "idle"]
        /\ UNCHANGED <<approval, job, overlapped>>
    BY <1>15, <2>1 DEF SaveExecution, Goto, history
  <2>4. StatusReflectsDecision'
    BY <1>0, <2>2, <2>3 DEF StatusReflectsDecision, Reset, RowsOK, Executable, GuardExecutionStatus
  <2>5. status[h] # "ABSENT"
    BY <1>0, <2>2 DEF StatusReflectsDecision, Reset, Executable, GuardExecutionStatus
  <2>6. SavesAreFirst'
    BY <1>0, <1>P, <2>3, <2>5 DEF SavesAreFirst, RowsOK
  <2>7. DecidersSawPreview'
    BY <1>0, <1>P, <2>2, <2>3 DEF DecidersSawPreview, RowsOK, Deciding, GuardExecutionStatus
  <2> QED
    BY <2>4, <2>6, <2>7
<1>16. ASSUME Crash PROVE Parts'
  BY <1>0, <1>P, <1>16
  DEF Crash, rows,
      SavesAreFirst, DecidersSawPreview, StatusReflectsDecision, Reset, Deciding,
      Executable, GuardExecutionStatus
<1>17. ASSUME NEW g \in Guards, EditArtifact(g) PROVE Parts'
  BY <1>0, <1>P, <1>17
  DEF EditArtifact, rows, threads, history,
      SavesAreFirst, DecidersSawPreview, StatusReflectsDecision, Reset, Deciding,
      Executable, GuardExecutionStatus
<1>18. CASE UNCHANGED vars
  BY <1>0, <1>18
  DEF vars, rows, threads, history, SavesAreFirst, DecidersSawPreview, StatusReflectsDecision, Reset
<1>19. ASSUME NEW w \in Workers, StoreRaises(w) PROVE Parts'
  BY <1>0, <1>P, <1>19
  DEF StoreRaises, Goto, rows,
      SavesAreFirst, DecidersSawPreview, StatusReflectsDecision, Reset, Deciding,
      Executable, GuardExecutionStatus
<1> HIDE DEF Parts
<1> QED
  BY <1>1, <1>2, <1>3, <1>4, <1>5, <1>6, <1>7, <1>8, <1>9, <1>10, <1>11, <1>12,
     <1>13, <1>14, <1>15, <1>16, <1>17, <1>18, <1>19, StepCases

(* Whatever requests overlap, fail or crash, for any number of threads: the *)
(* status shown and the decision recorded agree, save for a guard that the  *)
(* second of two overlapping previews set back (service.py:47-52).          *)
THEOREM StatusReflectsDecisionCorrect == Spec => []StatusReflectsDecision
<1>1. StatusInv => StatusReflectsDecision
  BY DEF StatusInv
<1> QED
  BY <1>1, InitStatus, NextStatus, PTL DEF Spec

(* A guard whose execution is recorded shows one of its results: a thread    *)
(* records what it finished, and nothing else changes a status then.         *)
RecordersFinished ==
  \A w \in Workers : pc[w] \in {"confirm", "record"} =>
    \E i \in DOMAIN finished[job[w]] : finished[job[w]][i] = run[w]

ReportInv == StatusInv /\ RecordersFinished /\ StatusIsReported

LEMMA NextReport == ReportInv /\ [Next]_vars => ReportInv'
<1> SUFFICES ASSUME ReportInv, [Next]_vars PROVE ReportInv'
  OBVIOUS
<1>0. /\ StatusInv /\ LockInv /\ RowsOK /\ ThreadsOK /\ CountsOK /\ WriterHoldsApproval
      /\ InstalledApproved /\ RunnersInstalled /\ ResultsInstalled
      /\ SavesAreFirst /\ StatusReflectsDecision
      /\ RecordersFinished /\ StatusIsReported
  BY DEF ReportInv, StatusInv, LockInv, TypeOK
<1>S. StatusInv'
  BY <1>0, NextStatus
<1>P. pc \in [Workers -> Steps] /\ job \in [Workers -> Guards]
  BY <1>0 DEF ThreadsOK
<1>R. \A g \in Guards : executions[g] # {} =>
        /\ approval[g] = "APPROVED" /\ g \in installed
        /\ status[g] \in Executable \/ Reset(g)
  BY <1>0 DEF ResultsInstalled, InstalledApproved, StatusReflectsDecision
<1> SUFFICES RecordersFinished' /\ StatusIsReported'
  BY <1>S DEF ReportInv
(* Steps that finish and record nothing. *)
<1>Q. ASSUME UNCHANGED <<executions, finished>>,
             overlapped => overlapped',
             \A g \in Guards : executions[g] # {} => status'[g] = status[g] \/ Reset(g)',
             \A w \in Workers : pc'[w] \in {"confirm", "record"} =>
               /\ pc[w] \in {"confirm", "record"}
               /\ job'[w] = job[w] /\ run'[w] = run[w]
      PROVE  RecordersFinished' /\ StatusIsReported'
  BY <1>Q, <1>0 DEF RecordersFinished, StatusIsReported, Reset
<1>1. ASSUME NEW w \in Workers, ReadOrRefuse(w) PROVE RecordersFinished' /\ StatusIsReported'
  BY <1>1, <1>Q DEF ReadOrRefuse, vars, rows, files, threads, history, counts
<1>2. ASSUME NEW w \in Workers, RequestPreview(w) PROVE RecordersFinished' /\ StatusIsReported'
  BY <1>2, <1>P, <1>Q DEF RequestPreview, Accept, rows, history, counts
<1>3. ASSUME NEW w \in Workers, NEW g \in Guards, NEW decision \in Deciding,
             RequestDecision(w, g, decision)
      PROVE  RecordersFinished' /\ StatusIsReported'
  BY <1>3, <1>P, <1>Q DEF RequestDecision, Accept, Deciding, rows, history, counts
<1>4. ASSUME NEW w \in Workers, NEW g \in Guards, RequestExecution(w, g)
      PROVE  RecordersFinished' /\ StatusIsReported'
  <2>1. /\ UNCHANGED <<executions, finished, status, overlapped>>
        /\ pc' = [pc EXCEPT ![w] = "lookup"] /\ job' = [job EXCEPT ![w] = g]
        /\ \A v \in Workers \ {w} : run'[v] = run[v]
    BY <1>4, <1>0 DEF RequestExecution, Accept, rows, history, ThreadsOK
  <2> QED
    BY <2>1, <1>P, <1>Q
<1>5. ASSUME NEW w \in Workers, SaveGuard(w), ~StoreRaises(w) PROVE RecordersFinished' /\ StatusIsReported'
  <2>1. /\ job[w] \in Guards /\ job[w] >= job[w]
        /\ ~overlapped => status[job[w]] = "ABSENT"
    BY <1>5, <1>0, <1>P DEF SaveGuard, SavesAreFirst, Guards
  <2>2. /\ UNCHANGED <<executions, finished, run, overlapped>>
        /\ status' = [status EXCEPT ![job[w]] = "PREVIEWED"]
        /\ \A v \in Workers \ {w} : pc'[v] = pc[v] /\ job'[v] = job[v]
        /\ pc'[w] \in {"save", "idle"}
    BY <1>5, <1>P DEF SaveGuard, Goto, history, counts
  <2>3. ~overlapped => executions[job[w]] = {}
    BY <2>1, <1>R DEF Reset, Executable, GuardExecutionStatus
  <2>4. \A g \in Guards : executions[g] # {} => status'[g] = status[g] \/ Reset(g)'
    BY <2>2, <2>3, <1>0 DEF RowsOK, Reset
  <2> QED
    BY <2>2, <2>4, <1>Q
<1>6. ASSUME NEW w \in Workers, NEW decision, NEW row, NEW newStatus, NEW next,
             RecordDecision(w, decision, row, newStatus, next), ~StoreRaises(w),
             next \in {"idle", "write"}
      PROVE  RecordersFinished' /\ StatusIsReported'
  <2>1. /\ UNCHANGED <<executions, finished, run, job, overlapped>>
        /\ pc' = [pc EXCEPT ![w] = "idle"] \/ pc' = [pc EXCEPT ![w] = next]
        /\ status' = status \/ (/\ approval[job[w]] = "NONE"
                                /\ status' = [status EXCEPT ![job[w]] = newStatus])
    BY <1>6 DEF RecordDecision, Goto, rows, history, counts
  <2>2. \A g \in Guards : executions[g] # {} => status'[g] = status[g]
    BY <2>1, <1>R, <1>P, <1>0 DEF RowsOK
  <2> QED
    BY <2>1, <2>2, <1>6, <1>P, <1>Q
<1>7. ASSUME NEW w \in Workers, RecordRejection(w) \/ RecordApproval(w), ~StoreRaises(w)
      PROVE  RecordersFinished' /\ StatusIsReported'
  BY <1>7, <1>6 DEF RecordRejection, RecordApproval
<1>8. ASSUME NEW w \in Workers,
             \/ OpenArtifact(w) \/ FlushArtifact(w) \/ LookupApproval(w) \/ CheckArtifact(w)
             \/ ConfirmApproval(w),
             ~StoreRaises(w)
      PROVE  RecordersFinished' /\ StatusIsReported'
  BY <1>8, <1>P, <1>Q DEF OpenArtifact, FlushArtifact, LookupApproval, CheckArtifact,
     ConfirmApproval, Goto, rows, files, history, counts
<1>9. ASSUME NEW w \in Workers, RestorePreview(w), ~StoreRaises(w) PROVE RecordersFinished' /\ StatusIsReported'
  <2>1. job[w] \notin installed /\ job[w] \in Guards
    BY <1>9, <1>0, <1>P DEF RestorePreview, WriterHoldsApproval, Writing
  <2>2. executions[job[w]] = {}
    BY <2>1, <1>R
  <2> QED
    BY <1>9, <2>1, <2>2, <1>0, <1>P, <1>Q DEF RestorePreview, Goto, RowsOK, history, counts
<1>10. ASSUME NEW w \in Workers, RunGuard(w) PROVE RecordersFinished' /\ StatusIsReported'
  <2>1. PICK result \in Outcomes :
          /\ run' = [run EXCEPT ![w] = [run[w] EXCEPT !.result = result]]
          /\ finished' = [finished EXCEPT ![job[w]] =
                            Append(@, [run[w] EXCEPT !.result = result])]
    BY <1>10 DEF RunGuard
  <2>2. /\ pc' = [pc EXCEPT ![w] = "confirm"]
        /\ UNCHANGED <<job, status, executions, overlapped>>
    BY <1>10 DEF RunGuard, rows, history
  <2>3. job[w] \in Guards /\ \A g \in Guards : finished[g] \in Seq(Execution)
    BY <1>0, <1>P DEF CountsOK
  <2> DEFINE execution == [run[w] EXCEPT !.result = result]
  <2>4. \A g \in Guards : finished'[g] = IF g = job[w] THEN Append(finished[g], execution)
                                         ELSE finished[g]
    BY <2>1, <2>3, <1>0 DEF CountsOK
  <2>5. run'[w] = execution /\ \A v \in Workers \ {w} : run'[v] = run[v]
    BY <2>1, <1>0 DEF ThreadsOK
  <2>6. execution \in Execution
    <3>1. run[w] \in [ticket : 0..MaxRuns, result : Outcomes \cup {"NONE"}]
          /\ run[w].ticket \in Tickets
      BY <1>0, <1>10 DEF ThreadsOK, RunGuard, Executing
    <3> QED
      BY <3>1 DEF Execution
  <2> HIDE DEF execution
  <2>7. \A g \in Guards : \A i \in DOMAIN finished[g] :
          i \in DOMAIN finished'[g] /\ finished'[g][i] = finished[g][i]
    <3> SUFFICES ASSUME NEW g \in Guards, NEW i \in DOMAIN finished[g]
                 PROVE  i \in DOMAIN finished'[g] /\ finished'[g][i] = finished[g][i]
      OBVIOUS
    <3>1. CASE g = job[w]
      <4>1. finished'[g] = Append(finished[g], execution) /\ finished[g] \in Seq(Execution)
        BY <3>1, <2>3, <2>4
      <4> QED
        BY <4>1, <2>6
    <3>2. CASE g # job[w]
      BY <3>2, <2>4
    <3> QED
      BY <3>1, <3>2
  <2>8. \E i \in DOMAIN finished'[job[w]] : finished'[job[w]][i] = execution
    <3>1. finished'[job[w]] = Append(finished[job[w]], execution)
      BY <2>3, <2>4
    <3>2. Len(finished[job[w]]) + 1 \in DOMAIN finished'[job[w]]
      BY <2>3, <2>6, <3>1
    <3>3. finished'[job[w]][Len(finished[job[w]]) + 1] = execution
      BY <2>3, <2>6, <3>1
    <3> QED
      BY <3>2, <3>3
  <2>9. RecordersFinished'
    <3> SUFFICES ASSUME NEW v \in Workers, pc'[v] \in {"confirm", "record"}
                 PROVE  \E i \in DOMAIN finished'[job[v]] : finished'[job[v]][i] = run'[v]
      BY <2>2 DEF RecordersFinished
    <3>1. CASE v = w
      BY <3>1, <2>5, <2>8
    <3>2. CASE v # w
      <4>1. PICK i \in DOMAIN finished[job[v]] : finished[job[v]][i] = run[v]
        BY <3>2, <2>2, <1>0, <1>P DEF RecordersFinished
      <4> QED
        BY <3>2, <4>1, <2>5, <2>7, <1>P
    <3> QED
      BY <3>1, <3>2
  <2>10. StatusIsReported'
    <3> SUFFICES ASSUME NEW g \in Guards, executions[g] # {}, ~Reset(g)
                 PROVE  \E i \in DOMAIN finished'[g] :
                          /\ finished'[g][i].ticket \in executions[g]
                          /\ finished'[g][i].result = status[g]
      BY <2>2 DEF StatusIsReported, Reset
    <3>1. PICK i \in DOMAIN finished[g] : /\ finished[g][i].ticket \in executions[g]
                                          /\ finished[g][i].result = status[g]
      BY <1>0 DEF StatusIsReported
    <3> QED
      BY <3>1, <2>7
  <2> QED
    BY <2>9, <2>10
<1>11. ASSUME NEW w \in Workers, SaveExecution(w), ~StoreRaises(w) PROVE RecordersFinished' /\ StatusIsReported'
  <2>1. /\ status' = [status EXCEPT ![job[w]] = run[w].result]
        /\ executions' = [executions EXCEPT ![job[w]] = @ \cup {run[w].ticket}]
        /\ pc' = [pc EXCEPT ![w] = "idle"]
        /\ UNCHANGED <<job, run, finished, overlapped>>
    BY <1>11 DEF SaveExecution, Goto, history, counts
  <2>2. PICK i \in DOMAIN finished[job[w]] : finished[job[w]][i] = run[w]
    BY <1>0, <1>11 DEF SaveExecution, RecordersFinished
  <2>3. RecordersFinished'
    BY <2>1, <1>0, <1>P DEF RecordersFinished
  <2>4. ASSUME NEW g \in Guards, executions'[g] # {}, ~Reset(g)'
        PROVE  \E k \in DOMAIN finished[g] : /\ finished[g][k].ticket \in executions'[g]
                                             /\ finished[g][k].result = status'[g]
    <3>1. CASE g = job[w]
      BY <3>1, <2>1, <2>2, <1>0 DEF RowsOK
    <3>2. CASE g # job[w]
      BY <3>2, <2>1, <2>4, <1>0 DEF RowsOK, StatusIsReported, Reset
    <3> QED
      BY <3>1, <3>2
  <2> QED
    BY <2>1, <2>3, <2>4 DEF StatusIsReported
<1>12. ASSUME Crash PROVE RecordersFinished' /\ StatusIsReported'
  BY <1>12, <1>P, <1>Q DEF Crash, rows
<1>13. ASSUME NEW g \in Guards, EditArtifact(g) PROVE RecordersFinished' /\ StatusIsReported'
  BY <1>13, <1>Q DEF EditArtifact, rows, threads, history
<1>14. CASE UNCHANGED vars
  BY <1>14, <1>Q DEF vars, rows, threads, history, counts
<1>15. ASSUME NEW w \in Workers, StoreRaises(w) PROVE RecordersFinished' /\ StatusIsReported'
  BY <1>15, <1>P, <1>Q DEF StoreRaises, Goto, rows
<1> QED
  BY <1>1, <1>2, <1>3, <1>4, <1>5, <1>7, <1>8, <1>9, <1>10, <1>11, <1>12, <1>13, <1>14,
     <1>15, StepCases

(* A guard that was executed shows the result of a recorded execution, in   *)
(* whatever order executions end and however many threads there are, unless *)
(* overlapping previews set it back (storage.py:771-795).                   *)
THEOREM StatusIsReportedCorrect == Spec => []StatusIsReported
<1>1. Init => ReportInv
  BY InitStatus DEF Init, ReportInv, RecordersFinished, StatusIsReported
<1>2. ReportInv => StatusIsReported
  BY DEF ReportInv
<1> QED
  BY <1>1, <1>2, NextReport, PTL DEF Spec

-----------------------------------------------------------------------------
(***************************************************************************)
(* Every approval has a use: its file is installed, one request writes or  *)
(* compensates it, or the guard was abandoned between the two store calls. *)
(***************************************************************************)
AbandonedAlone ==
  \A g \in abandoned : g \notin installed /\ Writers(g) = {}

ApprovalInv == LockInv /\ AbandonedAlone /\ ApprovalUsable

LEMMA NextApproval == ApprovalInv /\ [Next]_vars => ApprovalInv'
<1> SUFFICES ASSUME ApprovalInv, [Next]_vars PROVE ApprovalInv'
  OBVIOUS
<1>0. /\ LockInv /\ RowsOK /\ FilesOK /\ ThreadsOK /\ HistoryOK
      /\ WriterHoldsApproval /\ OneWriter /\ InstalledApproved
      /\ AbandonedAlone /\ ApprovalUsable
  BY DEF ApprovalInv, LockInv, TypeOK
<1>L. LockInv'
  BY <1>0, NextLock
<1>P. pc \in [Workers -> Steps] /\ job \in [Workers -> Guards]
  BY <1>0 DEF ThreadsOK
<1> DEFINE Parts == AbandonedAlone /\ ApprovalUsable
<1> SUFFICES Parts'
  BY <1>L DEF ApprovalInv
<1> HIDE DEF Parts
(* Steps of threads that do not write, before and after. *)
<1>K. ASSUME UNCHANGED <<approval, installed, abandoned>>,
             NEW w \in Workers, pc[w] \notin Writing, pc'[w] \notin Writing,
             \A v \in Workers \ {w} : pc'[v] = pc[v] /\ job'[v] = job[v]
      PROVE  Parts'
  <2>1. \A g \in Guards : Writers(g)' = Writers(g)
    BY <1>K DEF Writers
  <2>2. abandoned \subseteq Guards
    BY <1>0 DEF HistoryOK
  <2> QED
    BY <1>0, <1>K, <2>1, <2>2 DEF Parts, AbandonedAlone, ApprovalUsable
(* The writing thread leaves, and its approval gets the use `use`.           *)
<1>W. ASSUME NEW w \in Workers, pc[w] \in Writing,
             UNCHANGED job, pc' = [pc EXCEPT ![w] = "idle"],
             \/ /\ UNCHANGED <<approval, abandoned>>
                /\ installed' = installed \cup {job[w]}
             \/ /\ UNCHANGED <<approval, installed>>
                /\ abandoned' = abandoned \cup {job[w]}
             \/ /\ approval' = [approval EXCEPT ![job[w]] = "NONE"]
                /\ UNCHANGED <<installed, abandoned>>
      PROVE  Parts'
  <2>1. job[w] \in Guards /\ w \in Writers(job[w]) /\ abandoned \subseteq Guards
    BY <1>0, <1>P, <1>W DEF Writers, HistoryOK
  <2>2. Writers(job[w]) = {w}
    BY <1>0, <1>W, <2>1 DEF OneWriter, Writers
  <2>3. Writers(job[w])' = {} /\ \A g \in Guards \ {job[w]} : Writers(g)' = Writers(g)
    BY <1>P, <1>W, <2>2 DEF Writers, Writing
  <2>4. job[w] \notin abandoned /\ job[w] \notin installed /\ approval[job[w]] = "APPROVED"
    BY <1>0, <1>W, <2>1 DEF AbandonedAlone, WriterHoldsApproval
  <2>5. AbandonedAlone'
    BY <1>0, <1>W, <2>1, <2>3, <2>4 DEF AbandonedAlone
  <2>6. ApprovalUsable'
    BY <1>0, <1>W, <2>1, <2>3, <2>4 DEF ApprovalUsable, RowsOK
  <2> QED
    BY <2>5, <2>6 DEF Parts
(* The writing thread goes on writing. *)
<1>G. ASSUME NEW w \in Workers, pc[w] \in Writing, NEW to \in Writing,
             UNCHANGED <<job, approval, installed, abandoned>>, pc' = [pc EXCEPT ![w] = to]
      PROVE  Parts'
  <2>1. \A g \in Guards : Writers(g)' = Writers(g)
    BY <1>P, <1>G DEF Writers
  <2>2. abandoned \subseteq Guards
    BY <1>0 DEF HistoryOK
  <2> QED
    BY <1>0, <1>G, <2>1, <2>2 DEF Parts, AbandonedAlone, ApprovalUsable
<1>1. ASSUME NEW w \in Workers,
             \/ ReadOrRefuse(w) \/ RequestPreview(w)
             \/ \E g \in Guards, decision \in Deciding : RequestDecision(w, g, decision)
             \/ \E g \in Guards : RequestExecution(w, g)
      PROVE  Parts'
  <2>1. CASE ReadOrRefuse(w)
    BY <2>1, <1>K DEF ReadOrRefuse, vars, rows, files, threads, history, Writing
  <2>2. CASE RequestPreview(w)
    BY <2>2, <1>P, <1>K DEF RequestPreview, Accept, rows, files, Writing
  <2>3. CASE \E g \in Guards, decision \in Deciding : RequestDecision(w, g, decision)
    BY <2>3, <1>P, <1>K DEF RequestDecision, Accept, rows, files, history, Writing, Deciding
  <2>4. CASE \E g \in Guards : RequestExecution(w, g)
    BY <2>4, <1>P, <1>K DEF RequestExecution, Accept, rows, files, history, Writing
  <2> QED
    BY <1>1, <2>1, <2>2, <2>3, <2>4
<1>2. ASSUME NEW w \in Workers, SaveGuard(w), ~StoreRaises(w) PROVE Parts'
  BY <1>2, <1>P, <1>K DEF SaveGuard, Goto, files, history, Writing
<1>3. ASSUME NEW w \in Workers, RecordRejection(w), ~StoreRaises(w) PROVE Parts'
  <2>1. CASE approval[job[w]] # "NONE"
    BY <1>3, <2>1, <1>P, <1>K DEF RecordRejection, RecordDecision, Goto, rows, files, history,
       Writing
  <2>2. CASE approval[job[w]] = "NONE"
    <3>1. /\ pc[w] = "reject" /\ pc' = [pc EXCEPT ![w] = "idle"] /\ UNCHANGED job
          /\ approval' = [approval EXCEPT ![job[w]] = "REJECTED"]
          /\ UNCHANGED <<installed, abandoned>>
      BY <1>3, <2>2 DEF RecordRejection, RecordDecision, Goto, files, history
    <3>2. \A g \in Guards : Writers(g)' = Writers(g)
      BY <1>P, <3>1 DEF Writers, Writing
    <3>3. abandoned \subseteq Guards /\ job[w] \in Guards
      BY <1>0, <1>P DEF HistoryOK
    <3> QED
      BY <1>0, <2>2, <3>1, <3>2, <3>3 DEF Parts, AbandonedAlone, ApprovalUsable, RowsOK
  <2> QED
    BY <2>1, <2>2
<1>4. ASSUME NEW w \in Workers, RecordApproval(w), ~StoreRaises(w) PROVE Parts'
  <2>1. CASE approval[job[w]] # "NONE"
    BY <1>4, <2>1, <1>P, <1>K DEF RecordApproval, RecordDecision, Goto, rows, files, history,
       Writing
  <2>2. CASE approval[job[w]] = "NONE"
    <3>1. /\ pc[w] = "approve" /\ pc' = [pc EXCEPT ![w] = "write"] /\ UNCHANGED job
          /\ approval' = [approval EXCEPT ![job[w]] = "APPROVED"]
          /\ UNCHANGED <<installed, abandoned>>
      BY <1>4, <2>2 DEF RecordApproval, RecordDecision, Goto, files, history
    <3>2. w \in Writers(job[w])' /\ \A g \in Guards \ {job[w]} : Writers(g)' = Writers(g)
      BY <1>P, <3>1 DEF Writers, Writing
    <3>3. abandoned \subseteq Guards /\ job[w] \in Guards /\ job[w] \notin abandoned
      BY <1>0, <1>P, <2>2 DEF HistoryOK, ApprovalUsable
    <3> QED
      BY <1>0, <3>1, <3>2, <3>3 DEF Parts, AbandonedAlone, ApprovalUsable, RowsOK
  <2> QED
    BY <2>1, <2>2
<1>5. ASSUME NEW w \in Workers, OpenArtifact(w) PROVE Parts'
  BY <1>5, <1>G DEF OpenArtifact, Goto, rows, history, Writing
<1>6. ASSUME NEW w \in Workers, FlushArtifact(w) PROVE Parts'
  BY <1>6, <1>G, <1>W DEF FlushArtifact, Goto, rows, files, history, Writing
<1>7. ASSUME NEW w \in Workers, RestorePreview(w), ~StoreRaises(w) PROVE Parts'
  BY <1>7, <1>W DEF RestorePreview, Goto, files, history, Writing
<1>8. ASSUME NEW w \in Workers,
             \/ CheckArtifact(w)
             \/ ~StoreRaises(w) /\ (LookupApproval(w) \/ ConfirmApproval(w))
      PROVE  Parts'
  BY <1>8, <1>P, <1>K DEF LookupApproval, CheckArtifact, ConfirmApproval, Goto, rows, files,
     history, Writing
<1>9. ASSUME NEW w \in Workers, RunGuard(w) PROVE Parts'
  BY <1>9, <1>P, <1>K DEF RunGuard, rows, files, history, Writing
<1>10. ASSUME NEW w \in Workers, SaveExecution(w), ~StoreRaises(w) PROVE Parts'
  BY <1>10, <1>P, <1>K DEF SaveExecution, Goto, files, history, Writing
(* A store call that raises inside the file's compensation abandons the guard; *)
(* no other step of a writing thread is a store call.                          *)
<1>11. ASSUME NEW w \in Workers, StoreRaises(w), pc[w] \in StoreCalls PROVE Parts'
  <2>1. CASE pc[w] = "restore"
    BY <1>11, <2>1, <1>W DEF StoreRaises, Goto, rows, files, Writing
  <2>2. CASE pc[w] # "restore"
    BY <1>11, <2>2, <1>P, <1>K DEF StoreRaises, StoreCalls, Goto, rows, files, Writing
  <2> QED
    BY <2>1, <2>2
<1>12. ASSUME Crash PROVE Parts'
  <2>1. /\ UNCHANGED <<approval, installed, job>> /\ \A g \in Guards : Writers(g)' = {}
        /\ abandoned' = abandoned \cup {job[w] : w \in {v \in Workers : pc[v] \in Writing}}
    BY <1>12 DEF Crash, rows, files, Writers, Writing
  <2>2. \A g \in Guards : g \in abandoned' <=> g \in abandoned \/ Writers(g) # {}
    BY <2>1 DEF Writers
  <2>3. abandoned' \subseteq Guards
    BY <2>1, <1>0, <1>P DEF HistoryOK
  <2>4. \A g \in Guards : Writers(g) # {} => g \notin installed
    BY <1>0 DEF Writers, WriterHoldsApproval
  <2> QED
    BY <1>0, <2>1, <2>2, <2>3, <2>4 DEF Parts, AbandonedAlone, ApprovalUsable
<1>13. ASSUME NEW g \in Guards, EditArtifact(g) PROVE Parts'
  BY <1>0, <1>13 DEF Parts, EditArtifact, rows, threads, history, AbandonedAlone,
     ApprovalUsable, Writers
<1>14. CASE UNCHANGED vars
  BY <1>0, <1>14 DEF Parts, vars, rows, files, threads, history, AbandonedAlone,
     ApprovalUsable, Writers
<1> QED
  BY <1>1, <1>2, <1>3, <1>4, <1>5, <1>6, <1>7, <1>8, <1>9, <1>10, <1>11, <1>12, <1>13, <1>14,
     StepCases

(* Failed writes are compensated; an approval outlives its file only through *)
(* the server's death or a compensation that raises, and stays unusable then *)
(* (service.py:92-97), for any number of requests, faults and crashes.       *)
THEOREM ApprovalUsableCorrect == Spec => []ApprovalUsable
<1>1. Init => ApprovalInv
  BY InitLock DEF Init, ApprovalInv, AbandonedAlone, ApprovalUsable, Writers, Writing
<1>2. ApprovalInv => ApprovalUsable
  BY DEF ApprovalInv
<1> QED
  BY <1>1, <1>2, NextApproval, PTL DEF Spec

-----------------------------------------------------------------------------
(* Previews are all or nothing as long as no loop is cut off: every thread   *)
(* that saves has already saved the guards before its own.                   *)
RowsPresent ==
  \A w \in Workers : pc[w] \in Deciding \cup Writing \cup Executing => status[job[w]] # "ABSENT"

SavesInOrder ==
  \A w \in Workers : pc[w] = "save" => \A g \in Guards : g < job[w] => status[g] # "ABSENT"

PreviewInv == LockInv /\ RowsPresent /\ SavesInOrder /\ PreviewsComplete

LEMMA NextPreview == PreviewInv /\ [Next]_vars => PreviewInv'
<1> SUFFICES ASSUME PreviewInv, [Next]_vars PROVE PreviewInv'
  OBVIOUS
<1>0. /\ LockInv /\ RowsOK /\ ThreadsOK /\ HistoryOK
      /\ RowsPresent /\ SavesInOrder /\ PreviewsComplete
  BY DEF PreviewInv, LockInv, TypeOK
<1>L. LockInv'
  BY <1>0, NextLock
<1>P. pc \in [Workers -> Steps] /\ job \in [Workers -> Guards]
  BY <1>0 DEF ThreadsOK
<1> DEFINE Parts == RowsPresent /\ SavesInOrder /\ PreviewsComplete
<1> SUFFICES Parts'
  BY <1>L DEF PreviewInv
<1>J. \A w \in Workers : job'[w] \in Guards
  BY <1>L DEF LockInv, TypeOK, ThreadsOK
<1> HIDE DEF Parts
(* Steps that add no row: the thread does not save, before or after.         *)
<1>K. ASSUME NEW w \in Workers, pc[w] # "save", pc'[w] # "save",
             UNCHANGED cut,
             \A g \in Guards : status'[g] = "ABSENT" <=> status[g] = "ABSENT",
             \A v \in Workers \ {w} : pc'[v] = pc[v] /\ job'[v] = job[v],
             pc'[w] \in Deciding \cup Writing \cup Executing => status[job'[w]] # "ABSENT"
      PROVE  Parts'
  <2>1. RowsPresent'
    BY <1>0, <1>J, <1>K DEF RowsPresent
  <2>2. SavesInOrder'
    BY <1>0, <1>K DEF SavesInOrder
  <2>3. PreviewsComplete'
    BY <1>0, <1>K DEF PreviewsComplete
  <2> QED
    BY <2>1, <2>2, <2>3 DEF Parts
<1>1. ASSUME NEW w \in Workers, ReadOrRefuse(w) PROVE Parts'
  BY <1>0, <1>1 DEF Parts, ReadOrRefuse, vars, rows, threads, history,
     RowsPresent, SavesInOrder, PreviewsComplete
<1>2. ASSUME NEW w \in Workers, RequestPreview(w) PROVE Parts'
  <2>1. /\ pc[w] = "idle" /\ pc' = [pc EXCEPT ![w] = "save"] /\ job' = [job EXCEPT ![w] = 1]
        /\ UNCHANGED status
    BY <1>2 DEF RequestPreview, Accept, rows
  <2>2. SavesInOrder'
    BY <1>0, <1>P, <2>1 DEF SavesInOrder, Guards
  <2>3. RowsPresent'
    BY <1>0, <1>P, <2>1 DEF RowsPresent, Deciding, Writing, Executing
  <2>4. pc'[w] = "save"
    BY <1>P, <2>1
  <2> QED
    BY <2>2, <2>3, <2>4 DEF Parts, PreviewsComplete
<1>3. ASSUME NEW w \in Workers, NEW g \in Guards, NEW decision \in Deciding,
             RequestDecision(w, g, decision)
      PROVE  Parts'
  <2>1. /\ pc[w] = "idle" /\ pc' = [pc EXCEPT ![w] = decision] /\ job' = [job EXCEPT ![w] = g]
        /\ UNCHANGED <<status, cut>> /\ status[g] = "PREVIEWED"
    BY <1>3 DEF RequestDecision, Accept, rows, history
  <2> QED
    BY <1>P, <2>1, <1>K DEF Deciding
<1>4. ASSUME NEW w \in Workers, NEW g \in Guards, RequestExecution(w, g) PROVE Parts'
  <2>1. /\ pc[w] = "idle" /\ pc' = [pc EXCEPT ![w] = "lookup"] /\ job' = [job EXCEPT ![w] = g]
        /\ UNCHANGED <<status, cut>> /\ status[g] # "ABSENT"
    BY <1>4 DEF RequestExecution, Accept, rows, history, Executable, GuardExecutionStatus
  <2> QED
    BY <1>P, <2>1, <1>K
<1>5. ASSUME NEW w \in Workers, SaveGuard(w), ~StoreRaises(w) PROVE Parts'
  <2>1. /\ status' = [status EXCEPT ![job[w]] = "PREVIEWED"]
        /\ \A v \in Workers \ {w} : pc'[v] = pc[v] /\ job'[v] = job[v]
        /\ pc'[w] \in {"save", "idle"}
    BY <1>5, <1>P DEF SaveGuard, Goto
  <2>2. \A g \in Guards : status'[g] = "ABSENT" => status[g] = "ABSENT" /\ g # job[w]
    BY <2>1, <1>0 DEF RowsOK
  <2>3. job[w] \in Guards /\ job[w] \in Nat /\ NumGuards \in Nat
    BY <1>P, NumGuardsAssumption DEF Guards
  <2>4. \/ /\ job[w] < NumGuards /\ job'[w] = job[w] + 1 /\ pc'[w] = "save"
        \/ /\ job[w] = NumGuards /\ pc'[w] = "idle"
    BY <1>5, <1>P, <2>3, <2>1 DEF SaveGuard, Goto, Guards
  <2>5. \A g \in Guards : g < job[w] \/ g = job[w] => status'[g] # "ABSENT"
    BY <1>5, <2>2, <1>0 DEF SavesInOrder, SaveGuard
  <2>6. RowsPresent'
    BY <1>0, <1>J, <2>1, <2>2 DEF RowsPresent, Deciding, Writing, Executing
  <2>7. SavesInOrder'
    <3> SUFFICES ASSUME NEW v \in Workers, pc'[v] = "save", NEW g \in Guards, g < job'[v]
                 PROVE  status'[g] # "ABSENT"
      BY DEF SavesInOrder
    <3>1. CASE v = w
      BY <3>1, <2>3, <2>4, <2>5 DEF Guards
    <3>2. CASE v # w
      BY <3>2, <1>0, <2>1, <2>2 DEF SavesInOrder
    <3> QED
      BY <3>1, <3>2
  <2>8. PreviewsComplete'
    BY <2>3, <2>4, <2>5 DEF PreviewsComplete, Guards
  <2> QED
    BY <2>6, <2>7, <2>8 DEF Parts
<1>6. ASSUME NEW w \in Workers, NEW decision \in Deciding, NEW row, NEW newStatus, NEW next,
             RecordDecision(w, decision, row, newStatus, next), ~StoreRaises(w),
             newStatus # "ABSENT", next \in {"idle", "write"}
      PROVE  Parts'
  <2>1. /\ pc[w] \in Deciding /\ UNCHANGED <<cut, job>> /\ job[w] \in Guards
        /\ status[job[w]] # "ABSENT"
    BY <1>6, <1>0, <1>P DEF RecordDecision, Goto, history, RowsPresent
  <2>2. /\ pc' = [pc EXCEPT ![w] = "idle"] \/ pc' = [pc EXCEPT ![w] = next]
        /\ status' = status \/ status' = [status EXCEPT ![job[w]] = newStatus]
    BY <1>6 DEF RecordDecision, Goto, rows
  <2>3. \A g \in Guards : status'[g] = "ABSENT" <=> status[g] = "ABSENT"
    BY <1>0, <1>6, <2>1, <2>2 DEF RowsOK
  <2> QED
    BY <1>P, <1>6, <2>1, <2>2, <2>3, <1>K DEF Deciding
<1>7. ASSUME NEW w \in Workers, RecordRejection(w) \/ RecordApproval(w), ~StoreRaises(w)
      PROVE  Parts'
  BY <1>7, <1>6 DEF RecordRejection, RecordApproval, Deciding
<1>8. ASSUME NEW w \in Workers, NEW to \in Steps, pc[w] \in Writing \cup Executing,
             to # "save", pc' = [pc EXCEPT ![w] = to], UNCHANGED <<job, cut>>,
             \/ UNCHANGED status
             \/ \E value \in GuardStatus : status' = [status EXCEPT ![job[w]] = value]
      PROVE  Parts'
  <2>1. status[job[w]] # "ABSENT" /\ job[w] \in Guards
    BY <1>0, <1>P, <1>8 DEF RowsPresent
  <2>2. \A g \in Guards : status'[g] = "ABSENT" <=> status[g] = "ABSENT"
    BY <1>0, <1>8, <2>1 DEF RowsOK, GuardStatus, GuardExecutionStatus
  <2> QED
    BY <1>P, <1>8, <2>1, <2>2, <1>K DEF Writing, Executing
<1>9. ASSUME NEW w \in Workers, OpenArtifact(w) \/ FlushArtifact(w) PROVE Parts'
  BY <1>9, <1>8 DEF OpenArtifact, FlushArtifact, Goto, rows, history, Writing, Steps
<1>10. ASSUME NEW w \in Workers, RestorePreview(w), ~StoreRaises(w) PROVE Parts'
  BY <1>10, <1>8 DEF RestorePreview, Goto, history, Writing, Steps, GuardStatus
<1>11. ASSUME NEW w \in Workers,
              LookupApproval(w) \/ CheckArtifact(w) \/ ConfirmApproval(w), ~StoreRaises(w)
       PROVE  Parts'
  BY <1>11, <1>8 DEF LookupApproval, CheckArtifact, ConfirmApproval, Goto, rows, history,
     Executing, Steps
<1>12. ASSUME NEW w \in Workers, RunGuard(w) PROVE Parts'
  BY <1>12, <1>8 DEF RunGuard, rows, history, Executing, Steps
<1>13. ASSUME NEW w \in Workers, SaveExecution(w), ~StoreRaises(w) PROVE Parts'
  <2>1. run[w].result \in GuardStatus
    BY <1>0, <1>13, OutcomesAssumption DEF SaveExecution, ThreadsOK, GuardStatus
  <2> QED
    BY <1>13, <2>1, <1>8 DEF SaveExecution, Goto, history, Executing, Steps
<1>14. ASSUME NEW w \in Workers, StoreRaises(w) PROVE Parts'
  <2>1. /\ pc' = [pc EXCEPT ![w] = "idle"] /\ UNCHANGED <<job, status>>
        /\ cut' = (cut \/ pc[w] = "save")
    BY <1>14 DEF StoreRaises, Goto, rows
  <2>2. CASE pc[w] = "save"
    BY <1>0, <1>P, <2>1, <2>2 DEF Parts, RowsPresent, SavesInOrder, PreviewsComplete,
       Deciding, Writing, Executing
  <2>3. CASE pc[w] # "save"
    BY <1>0, <1>P, <2>1, <2>3, <1>K DEF HistoryOK, Deciding, Writing, Executing
  <2> QED
    BY <2>2, <2>3
<1>15. ASSUME Crash PROVE Parts'
  <2>1. \A v \in Workers : pc'[v] = "idle"
    BY <1>15 DEF Crash
  <2>2. UNCHANGED status /\ cut' = (cut \/ \E w \in Workers : pc[w] = "save")
    BY <1>15 DEF Crash, rows
  <2> QED
    BY <1>0, <2>1, <2>2 DEF Parts, RowsPresent, SavesInOrder, PreviewsComplete,
       Deciding, Writing, Executing
<1>16. ASSUME NEW g \in Guards, EditArtifact(g) PROVE Parts'
  BY <1>0, <1>16 DEF Parts, EditArtifact, rows, threads, history,
     RowsPresent, SavesInOrder, PreviewsComplete
<1>17. CASE UNCHANGED vars
  BY <1>0, <1>17 DEF Parts, vars, rows, threads, history,
     RowsPresent, SavesInOrder, PreviewsComplete
<1> QED
  BY <1>1, <1>2, <1>3, <1>4, <1>5, <1>7, <1>9, <1>10, <1>11, <1>12, <1>13, <1>14, <1>15,
     <1>16, <1>17, StepCases

(* All guards of a run are listed or none once the saving threads are done,  *)
(* however many previews overlap, unless a loop was cut off by a crash or by *)
(* a save that raised (service.py:47-52).                                    *)
THEOREM PreviewsCompleteCorrect == Spec => []PreviewsComplete
<1>1. Init => PreviewInv
  BY InitLock DEF Init, PreviewInv, RowsPresent, SavesInOrder, PreviewsComplete,
     Deciding, Writing, Executing
<1>2. PreviewInv => PreviewsComplete
  BY DEF PreviewInv
<1> QED
  BY <1>1, <1>2, NextPreview, PTL DEF Spec
============================================================================
