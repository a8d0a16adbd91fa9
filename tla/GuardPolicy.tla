---------------------------- MODULE GuardPolicy ----------------------------
(***************************************************************************)
(* What the guard lifecycle promises its user, without the mechanism       *)
(* (docs/DECISIONS.md ADR-009 and ADR-017): a guard is decided by a human, *)
(* a rejection is final, an approval may be withdrawn only while its file  *)
(* has not been put in place, and a result is reported only for a guard    *)
(* whose approved file was put in place.                                   *)
(*                                                                         *)
(* GuardLifecycle implements this specification: see                       *)
(* GuardLifecycle!Policy and GuardLifecycle_proofs.                        *)
(***************************************************************************)

CONSTANTS Guards,   \* identities of the guards of one audit run
          Tickets   \* identities of execution requests of one guard

VARIABLES phase,    \* phase[g]: where the decision about g stands
          reports   \* reports[g]: the executions of g that were reported

vars == <<phase, reports>>

Phases == {"open", "approved", "released", "rejected"}

Init == /\ phase = [g \in Guards |-> "open"]
        /\ reports = [g \in Guards |-> {}]

Move(g, from, to) == /\ phase[g] = from
                     /\ phase' = [phase EXCEPT ![g] = to]
                     /\ UNCHANGED reports

Approve(g)  == Move(g, "open", "approved")
Reject(g)   == Move(g, "open", "rejected")
Withdraw(g) == Move(g, "approved", "open")
Release(g)  == Move(g, "approved", "released")

Report(g) == /\ phase[g] = "released"
             /\ \E t \in Tickets : reports' = [reports EXCEPT ![g] = @ \cup {t}]
             /\ UNCHANGED phase

Next == \E g \in Guards : \/ Approve(g)
                          \/ Reject(g)
                          \/ Withdraw(g)
                          \/ Release(g)
                          \/ Report(g)

Spec == Init /\ [][Next]_vars
============================================================================
