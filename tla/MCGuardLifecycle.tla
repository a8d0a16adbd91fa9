-------------------------- MODULE MCGuardLifecycle --------------------------
(* Instances of GuardLifecycle for TLC. *)
EXTENDS GuardLifecycle, TLC

CONSTANTS w1, w2   \* request threads

TwoWorkers == {w1, w2}
TwoResults == {"PASSED", "FAILED"}
OneResult == {"PASSED"}

(* The request threads are interchangeable. *)
ThreadSymmetry == Permutations(Workers)

(* What an idle thread last worked on, and the execution record of a thread  *)
(* that executes nothing, are overwritten before they are read.              *)
LiveState ==
  <<rows, files, pc,
    [w \in Workers |-> IF pc[w] = "idle" THEN 1 ELSE job[w]],
    [w \in Workers |-> IF pc[w] \in Executing THEN run[w] ELSE NoRun],
    history, counts>>
============================================================================
