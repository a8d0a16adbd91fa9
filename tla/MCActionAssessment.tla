------------------------- MODULE MCActionAssessment -------------------------
(* Instances of ActionAssessment and GeneratedGuard for TLC. *)
EXTENDS GeneratedGuard

CONSTANTS t1, t2

OneTerm == {t1}
TwoTerms == {t1, t2}
============================================================================
