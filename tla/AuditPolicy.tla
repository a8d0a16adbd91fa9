----------------------------- MODULE AuditPolicy -----------------------------
(***************************************************************************)
(* What an audit run promises who started it, without the mechanism: it    *)
(* goes through its stages in order, no stage twice but the one that       *)
(* retrieves; retrieval is charged before it begins and never given back   *)
(* (docs/DECISIONS.md ADR-016); it completes only from its last stage, may *)
(* fail from any, and its answer is the last thing that happens to it.     *)
(*                                                                         *)
(* AuditRun implements this specification: see AuditRun!Policy and         *)
(* AuditRun_proofs.                                                        *)
(***************************************************************************)

CONSTANTS Runs,    \* run ids
          Actions  \* corrective actions, which name the invariants

VARIABLES stage,    \* stage[r]: the stored status of r
          rounds,   \* rounds[r]: the invariants whose retrieval was charged
          searched, \* searched[r]: those whose retrieval took place
          answer    \* answer[r]: what the request returned

vars == <<stage, rounds, searched, answer>>

Follows == {<<"NO ROW", "QUEUED">>, <<"QUEUED", "PARSING">>,
            <<"PARSING", "COMPILING_INVARIANTS">>, <<"COMPILING_INVARIANTS", "INDEXING">>,
            <<"INDEXING", "INVESTIGATING">>, <<"INVESTIGATING", "VERIFYING">>}
Under == {"NO ROW", "QUEUED", "PARSING", "COMPILING_INVARIANTS", "INDEXING",
          "INVESTIGATING", "VERIFYING"}

Init == /\ stage = [r \in Runs |-> "NO ROW"]
        /\ rounds = [r \in Runs |-> {}]
        /\ searched = [r \in Runs |-> {}]
        /\ answer = [r \in Runs |-> "none"]

Enter(r, to) == stage' = [stage EXCEPT ![r] = to]
Return(r, value) == answer' = [answer EXCEPT ![r] = value]

Advance(r) == /\ \E to \in Under : <<stage[r], to>> \in Follows /\ Enter(r, to)
              /\ UNCHANGED <<rounds, searched, answer>>

Charge(r) == /\ stage[r] \in {"COMPILING_INVARIANTS", "INDEXING"}
             /\ Enter(r, "INDEXING")
             /\ \E a \in Actions \ rounds[r] : rounds' = [rounds EXCEPT ![r] = @ \cup {a}]
             /\ UNCHANGED <<searched, answer>>

Search(r) == /\ stage[r] = "INDEXING"
             /\ searched' = [searched EXCEPT ![r] = rounds[r]]
             /\ UNCHANGED <<stage, rounds, answer>>

Complete(r) == /\ stage[r] = "VERIFYING" /\ searched[r] = rounds[r]
               /\ Enter(r, "COMPLETE") /\ Return(r, "COMPLETE")
               /\ UNCHANGED <<rounds, searched>>

Fail(r) == /\ stage[r] \in Under
           /\ Enter(r, "FAILED") /\ Return(r, "FAILED")
           /\ UNCHANGED <<rounds, searched>>

(* The request ends with an error and the run stays where it is. *)
Abort(r) == /\ stage[r] \in Under
            /\ Return(r, "error")
            /\ UNCHANGED <<stage, rounds, searched>>

Next == \E r \in Runs : /\ answer[r] = "none"
                        /\ \/ Advance(r) \/ Charge(r) \/ Search(r)
                           \/ Complete(r) \/ Fail(r) \/ Abort(r)

Spec == Init /\ [][Next]_vars
=============================================================================
