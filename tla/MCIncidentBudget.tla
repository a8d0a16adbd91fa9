-------------------------- MODULE MCIncidentBudget --------------------------
(* Instances of IncidentBudget for TLC. *)
EXTENDS IncidentBudget

CONSTANTS w1, w2, w3, pA, pB, a1

TwoWorkers == {w1, w2}
ThreeWorkers == {w1, w2, w3}
Gateway == {w3}
TwoProjects == {pA, pB}
OneAction == {a1}

(* Two servers whose settings differ. *)
MixedLimits == [w \in Workers |-> IF w = w1 THEN 2 ELSE 3]
============================================================================
