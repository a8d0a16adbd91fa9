-------------------------- MODULE Dashboard_proofs --------------------------
(***************************************************************************)
(* Proofs about the dashboard, for any number of guards, runs, late        *)
(* requests and lost bodies.                                               *)
(***************************************************************************)
EXTENDS Dashboard, FiniteSetTheorems, TLAPS

Values == {"NONE"} \cup Runs \cup GuardStatus \cup Outcomes
            \cup [GuardIds -> GuardStatus \cup {"NONE"}]
RequestType == [op : Ops, id : (0..MaxRuns) \X (0..NumGuards),
                step : Served \cup Answered, value : Values]

OnGuard == {"approve", "reject", "execute", "list"}

-----------------------------------------------------------------------------
(* The inductive invariant. *)

(* The variables, and every request that travels. *)
Typed ==
  /\ pending \in {"none", "audit", "preview", "decision", "execution"}
  /\ error \in BOOLEAN /\ blank \in BOOLEAN /\ bare \in BOOLEAN
  /\ run \in 0..MaxRuns /\ details \in 0..MaxRuns
  /\ guards \in [GuardIds -> GuardStatus \cup {"NONE"}]
  /\ executions \in [GuardIds -> Outcomes \cup {"NONE"}]
  /\ outcome \in [Runs -> {"NONE", "COMPLETE", "FAILED"}]
  /\ status \in [GuardIds -> GuardStatus \cup {"NONE"}]
  /\ approval \in [GuardIds -> {"NONE", "APPROVED", "REJECTED"}]
  /\ results \in [GuardIds -> SUBSET Outcomes]
  /\ clicks \in [GuardIds -> SUBSET {"approve", "reject"}]
  /\ written \subseteq GuardIds /\ stale \subseteq GuardIds /\ withdrawn \subseteq GuardIds
  /\ cuts \in 0..MaxCuts /\ faults \in 0..MaxFaults

(* A request asks of a run or a guard that exists, and a decision was taken. *)
Sound(r) ==
  /\ r \in RequestType
  /\ r.op \in {"preview", "details"} => r.id[1] \in Runs
  /\ r.op \in OnGuard => r.id \in GuardIds
  /\ r.op \in {"approve", "reject"} => r.op \in clicks[r.id]

LateOK == /\ IsFiniteSet(late) /\ Cardinality(late) <= MaxLate
          /\ \A r \in late : Sound(r) /\ r.step \in Served

(* An approval is about to be written: committed, and by no other request.  *)
Unwritten(r) == r.op = "approve" /\ approval[r.id] = "APPROVED" /\ r.id \notin written

WritersOK == /\ call.step = "writing" => Unwritten(call)
             /\ \A r \in late : r.step = "writing" =>
                  /\ Unwritten(r)
                  /\ call.step = "writing" => r.id # call.id
                  /\ \A q \in late : q.step = "writing" /\ q.id = r.id => q = r

(* The action in progress is about the run shown, or no run is shown. *)
CallOK ==
  IF call = NoCall THEN pending = "none"
  ELSE /\ Sound(call) /\ pending # "none"
       /\ IF call.op \in {"project", "incident", "run"} THEN run = 0 ELSE call.id[1] = run
       /\ call.op \in OnGuard => guards[call.id] # "NONE"
       /\ call.op \in {"approve", "reject"} => guards[call.id] = "PREVIEWED"
       /\ call.op = "details" => details = 0

(* A status of id that somebody decided, or that was taken back since.      *)
Backed(st, id) ==
  /\ st = "REJECTED" => approval[id] = "REJECTED"
  /\ st = "WRITTEN" => approval[id] = "APPROVED" \/ id \in withdrawn
  /\ st \in Executable \ {"WRITTEN"} => id \in written

Stored(id) == /\ status[id] = "REJECTED" => approval[id] = "REJECTED"
              /\ status[id] = "WRITTEN" => approval[id] = "APPROVED"
              /\ status[id] \in Executable \ {"WRITTEN"} => id \in written
              /\ id \in written => approval[id] = "APPROVED"
              /\ results[id] # {} => id \in written
              /\ approval[id] = "APPROVED" => "approve" \in clicks[id]
              /\ approval[id] = "REJECTED" => "reject" \in clicks[id]

Card(id) == /\ guards[id] # "NONE" => id[1] = run /\ status[id] # "NONE"
            /\ Backed(guards[id], id)
            /\ executions[id] # "NONE" => guards[id] # "NONE" /\ executions[id] \in results[id]

(* What an answer on its way to the page says. *)
Listed(id) == /\ call.value[id] # "NONE" => id[1] = call.id[1]
              /\ Backed(call.value[id], id)
              /\ guards[id] # "NONE" => call.value[id] # "NONE"
              /\ call.value[id] # "NONE" => status[id] # "NONE"
              /\ id \notin stale /\ id[1] = call.id[1] => call.value[id] = status[id]

AnswerOK ==
  /\ call.step = "writing" => call.id \in stale \/ status[call.id] = "WRITTEN"
  /\ call.step = "ok" =>
    /\ call.op = "run" => call.value \in Runs
    /\ call.op \in {"preview", "list"} =>
         /\ call.value \in [GuardIds -> GuardStatus \cup {"NONE"}]
         /\ \A id \in GuardIds : Listed(id)
    /\ call.op \in {"approve", "reject"} =>
         /\ call.value \in GuardStatus /\ Backed(call.value, call.id)
         /\ call.id \notin stale => call.value = status[call.id]
    /\ call.op = "execute" => call.value \in Outcomes /\ call.value \in results[call.id]

(* The request in progress changed guard id, and its answer will say so. *)
InFlight(id) ==
  \/ call.op \in {"approve", "reject", "execute"} /\ call.step \in {"writing", "ok"} /\ call.id = id
  \/ call.op = "list" /\ call.id = id
  \/ call.op \in {"preview", "list"} /\ call.step = "ok" /\ call.id[1] = id[1]

Fresh == /\ run # 0 /\ details # run => bare \/ call.op = "details"
         /\ \A id \in GuardIds \ stale :
              guards[id] # "NONE" => guards[id] = status[id] \/ InFlight(id)

IInv == /\ Typed /\ LateOK /\ CallOK /\ WritersOK
        /\ details \in {0, run}
        /\ \A id \in GuardIds : Stored(id) /\ Card(id)
        /\ AnswerOK /\ Fresh

LEMMA ImpliesTypeOK == IInv => TypeOK
<1> SUFFICES ASSUME IInv PROVE TypeOK
  OBVIOUS
<1>1. call # NoCall => call.op \in Ops /\ call.step \in Served \cup Answered
  BY DEF IInv, CallOK, Sound, RequestType
<1>2. \A r \in late : r.op \in Ops /\ r.step \in Served
  BY DEF IInv, LateOK, Sound, RequestType
<1> QED BY <1>1, <1>2 DEF IInv, Typed, LateOK, TypeOK

LEMMA ImpliesScreenIsOneRun == IInv => ScreenIsOneRun
BY DEF IInv, Card, ScreenIsOneRun

LEMMA ImpliesShownDecisionStands == IInv => ShownDecisionStands
BY DEF IInv, Card, Stored, Backed, ShownDecisionStands

LEMMA ImpliesStaleOnlyAfterFailure == IInv => StaleOnlyAfterFailure
<1> SUFFICES ASSUME IInv, pending = "none" PROVE StaleOnlyAfterFailure
  BY DEF StaleOnlyAfterFailure
<1>1. call = NoCall
  BY DEF IInv, CallOK
<1>2. call.op = "none"
  BY <1>1 DEF NoCall
<1> QED BY <1>2 DEF IInv, Fresh, InFlight, StaleOnlyAfterFailure

LEMMA InitHolds == Init => IInv
<1> SUFFICES ASSUME Init PROVE IInv
  OBVIOUS
<1> USE DEF Init, Nothing
<1>1. Typed
  <2>1. run \in 0..MaxRuns /\ details \in 0..MaxRuns /\ cuts \in 0..MaxCuts /\ faults \in 0..MaxFaults
    BY BoundsAssumption
  <2>2. /\ guards \in [GuardIds -> GuardStatus \cup {"NONE"}]
        /\ executions \in [GuardIds -> Outcomes \cup {"NONE"}]
        /\ status \in [GuardIds -> GuardStatus \cup {"NONE"}]
        /\ approval \in [GuardIds -> {"NONE", "APPROVED", "REJECTED"}]
    OBVIOUS
  <2>3. /\ results \in [GuardIds -> SUBSET Outcomes]
        /\ clicks \in [GuardIds -> SUBSET {"approve", "reject"}]
        /\ outcome \in [Runs -> {"NONE", "COMPLETE", "FAILED"}]
    OBVIOUS
  <2> QED BY <2>1, <2>2, <2>3 DEF Typed
<1>2. LateOK
  BY FS_EmptySet, BoundsAssumption DEF LateOK
<1>3. CallOK /\ AnswerOK /\ WritersOK
  BY DEF CallOK, AnswerOK, WritersOK, NoCall
<1>4. \A id \in GuardIds : Stored(id) /\ Card(id)
  BY DEF Stored, Card, Backed, Executable
<1> QED BY <1>1, <1>2, <1>3, <1>4 DEF IInv, Fresh

-----------------------------------------------------------------------------
(* A step of the service for request r, which becomes `next`; `changed` are *)
(* the guards whose status it may change.                                   *)

(* No row of id is lost, save by a withdrawal. *)
Grown(id) == /\ approval[id] = "REJECTED" => approval'[id] = "REJECTED"
             /\ approval[id] = "APPROVED" => approval'[id] = "APPROVED" \/ id \in withdrawn'
             /\ id \in written => id \in written'
             /\ id \in withdrawn => id \in withdrawn'
             /\ status[id] # "NONE" => status'[id] # "NONE"
             /\ results[id] \subseteq results'[id]

LEMMA BackedKept ==
  ASSUME NEW id, NEW st, Grown(id), Backed(st, id)
  PROVE  /\ st = "REJECTED" => approval'[id] = "REJECTED"
         /\ st = "WRITTEN" => approval'[id] = "APPROVED" \/ id \in withdrawn'
         /\ st \in Executable \ {"WRITTEN"} => id \in written'
BY DEF Grown, Backed

LEMMA ReplaceLate ==
  ASSUME LateOK, NEW r \in late, NEW next, clicks' = clicks,
         next.op = r.op, next.id = r.id, next \in RequestType, next.step \in Served \cup Answered,
         late' = (late \ {r}) \cup (IF next.step \in Answered THEN {} ELSE {next})
  PROVE  LateOK'
<1>1. /\ IsFiniteSet(late \ {r}) /\ Cardinality(late \ {r}) = Cardinality(late) - 1
      /\ Cardinality(late) \in Nat /\ Cardinality(late \ {r}) \in Nat
  BY FS_RemoveElement, FS_CardinalityType DEF LateOK
<1>2. /\ IsFiniteSet((late \ {r}) \cup {next})
      /\ Cardinality((late \ {r}) \cup {next}) \in {Cardinality(late) - 1, Cardinality(late)}
  <2> DEFINE rest == late \ {r}
  <2>1. IsFiniteSet(rest) /\ Cardinality(rest) = Cardinality(late) - 1 /\ Cardinality(late) \in Nat
    BY <1>1
  <2> HIDE DEF rest
  <2>2. /\ IsFiniteSet(rest \cup {next})
        /\ Cardinality(rest \cup {next}) =
             IF next \in rest THEN Cardinality(rest) ELSE Cardinality(rest) + 1
    BY <2>1, FS_AddElement
  <2>3. Cardinality(rest \cup {next}) \in {Cardinality(late) - 1, Cardinality(late)}
    BY <2>1, <2>2
  <2> QED BY <2>2, <2>3 DEF rest
<1>3. IsFiniteSet(late') /\ Cardinality(late') <= Cardinality(late)
  <2>1. CASE next.step \in Answered
    BY <1>1, <2>1
  <2>2. CASE next.step \notin Answered
    BY <1>1, <1>2, <2>2
  <2> QED BY <2>1, <2>2
<1>4. Cardinality(late') \in Nat /\ MaxLate \in Nat
  BY <1>3, FS_CardinalityType, BoundsAssumption
<1>5. \A q \in late' : Sound(q)' /\ q.step \in Served
  <2>1. Sound(next)' /\ (next.step \notin Answered => next.step \in Served)
    BY DEF LateOK, Sound
  <2> QED BY <2>1 DEF LateOK, Sound
<1> QED BY <1>1, <1>3, <1>4, <1>5 DEF LateOK

LEMMA ServiceKeeps ==
  ASSUME IInv, NEW isLate \in BOOLEAN, NEW r \in IF isLate THEN late ELSE Open,
         NEW next \in RequestType, NEW changed \in SUBSET GuardIds,
         next.op = r.op, next.id = r.id, next.step \in Served \cup Answered,
         late' = IF isLate THEN (late \ {r}) \cup (IF next.step \in Answered THEN {} ELSE {next})
                 ELSE late,
         call' = IF isLate THEN call ELSE next,
         isLate => stale' = stale \cup changed,
         ~ isLate => /\ stale' \subseteq stale \cup changed /\ AnswerOK'
                     /\ \A id \in GuardIds : id \in changed \/ id \in stale \ stale' =>
                          InFlight(id)' \/ id \in stale' \/ guards[id] = status'[id]
                     /\ call.step = "writing" => call.id \in changed,
         WritersOK',
         UNCHANGED <<page, clicks, bare, cuts>>,
         outcome' \in [Runs -> {"NONE", "COMPLETE", "FAILED"}],
         status' \in [GuardIds -> GuardStatus \cup {"NONE"}],
         approval' \in [GuardIds -> {"NONE", "APPROVED", "REJECTED"}],
         results' \in [GuardIds -> SUBSET Outcomes],
         written' \subseteq GuardIds, withdrawn' \subseteq GuardIds, faults' \in 0..MaxFaults,
         \A id \in GuardIds : /\ Grown(id) /\ Stored(id)'
                              /\ id \notin changed => status'[id] = status[id]
  PROVE  IInv'
<1> USE DEF page
<1>1. Typed'
  BY DEF IInv, Typed
<1>2. LateOK'
  <2>1. CASE isLate
    BY <2>1, ReplaceLate DEF IInv
  <2>2. CASE ~ isLate
    BY <2>2 DEF IInv, LateOK, Sound
  <2> QED BY <2>1, <2>2
<1>3. CallOK'
  <2>1. CASE isLate
    BY <2>1 DEF IInv, CallOK, Sound
  <2>2. CASE ~ isLate
    <3>1. r = call /\ call # NoCall /\ call' = next
      BY <2>2 DEF Open, NoCall, Served
    <3>2. Sound(next)'
      BY <3>1 DEF IInv, CallOK, Sound
    <3>3. next # NoCall
      BY DEF NoCall, Answered, Served
    <3> QED BY <3>1, <3>2, <3>3 DEF IInv, CallOK
  <2> QED BY <2>1, <2>2
<1>4. ASSUME NEW id \in GuardIds PROVE Card(id)'
  BY <1>4, BackedKept DEF IInv, Card, Grown, Backed
<1>5. AnswerOK'
  <2>1. CASE ~ isLate
    BY <2>1
  <2>2. CASE isLate
    <3>0. call.step = "writing" => call.id \in stale' \/ status'[call.id] = "WRITTEN"
      <4> SUFFICES ASSUME call.step = "writing" PROVE call.id \in stale' \/ status'[call.id] = "WRITTEN"
        OBVIOUS
      <4>1. call.id \in GuardIds
        BY DEF IInv, WritersOK, Unwritten, CallOK, Sound, NoCall, OnGuard
      <4> QED BY <2>2, <4>1 DEF IInv, AnswerOK
    <3> SUFFICES ASSUME call.step = "ok" PROVE AnswerOK'
      BY <2>2, <3>0 DEF AnswerOK
    <3>1. call' = call /\ stale' = stale \cup changed
      BY <2>2
    <3>2. ASSUME call.op \in {"preview", "list"}, NEW id \in GuardIds PROVE Listed(id)'
      <4>1. Listed(id) /\ Grown(id)
        BY <3>2 DEF IInv, AnswerOK
      <4>2. Backed(call.value[id], id)'
        BY <3>1, <4>1, BackedKept DEF Listed, Backed
      <4> QED BY <3>1, <4>1, <4>2 DEF Listed, Grown
    <3>3. ASSUME call.op \in OnGuard PROVE call.id \in GuardIds /\ Grown(call.id)
      BY <3>3 DEF IInv, CallOK, Sound, NoCall, OnGuard
    <3>4. ASSUME call.op \in {"approve", "reject"} PROVE Backed(call.value, call.id)'
      BY <3>1, <3>3, <3>4, BackedKept DEF IInv, AnswerOK, Backed, OnGuard
    <3> QED BY <3>1, <3>2, <3>3, <3>4 DEF IInv, AnswerOK, Grown, OnGuard
  <2> QED BY <2>1, <2>2
<1>6. Fresh'
  <2>1. run' # 0 /\ details' # run' => bare' \/ call'.op = "details"
    BY DEF IInv, Fresh, Open, Served
  <2>2. ASSUME NEW id \in GuardIds \ stale', guards'[id] # "NONE"
        PROVE  guards'[id] = status'[id] \/ InFlight(id)'
    <3>1. CASE isLate
      BY <2>2, <3>1 DEF IInv, Fresh, InFlight
    <3>2. CASE ~ isLate
      <4>1. r = call /\ call.step \in Served /\ call' = next
        BY <3>2 DEF Open
      <4>2. InFlight(id) => InFlight(id)' \/ id \in changed
        BY <3>2, <4>1 DEF InFlight, Served
      <4> QED BY <2>2, <3>2, <4>2 DEF IInv, Fresh
    <3> QED BY <3>1, <3>2
  <2> QED BY <2>1, <2>2 DEF Fresh
<1> QED BY <1>1, <1>2, <1>3, <1>4, <1>5, <1>6 DEF IInv

LEMMA Travelling ==
  ASSUME IInv, NEW isLate \in BOOLEAN, NEW r \in IF isLate THEN late ELSE Open
  PROVE  /\ Sound(r) /\ r \in RequestType /\ r.step \in Served
         /\ r.step = "writing" => Unwritten(r)
         /\ ~ isLate => r = call /\ call # NoCall
BY DEF IInv, LateOK, CallOK, WritersOK, Open, Sound, NoCall, Served

(* No approval is about to be written that was not before. *)
LEMMA WritersKept ==
  ASSUME IInv, NEW isLate \in BOOLEAN, NEW r \in IF isLate THEN late ELSE Open,
         NEW next, next.step # "writing",
         late' = IF isLate THEN (late \ {r}) \cup (IF next.step \in Answered THEN {} ELSE {next})
                 ELSE late,
         call' = IF isLate THEN call ELSE next,
         approval' = approval, written' = written
  PROVE  WritersOK'
<1>1. CASE isLate
  BY <1>1 DEF IInv, WritersOK, Unwritten
<1>2. CASE ~ isLate
  BY <1>2 DEF IInv, WritersOK, Unwritten
<1> QED BY <1>1, <1>2

(* The requests about to write, and their guards. *)
LEMMA WritersAre ==
  ASSUME IInv
  PROVE  \A q \in late \cup {call} : q.step = "writing" =>
           /\ Unwritten(q) /\ q.id \in GuardIds /\ approval[q.id] = "APPROVED"
BY DEF IInv, WritersOK, Unwritten, LateOK, CallOK, Sound, OnGuard, NoCall

(* Nothing begins to write, and the rows of the guards others are about to  *)
(* write stay.                                                              *)
LEMMA OthersWrite ==
  ASSUME IInv, NEW isLate \in BOOLEAN, NEW r \in IF isLate THEN late ELSE Open,
         NEW next, next.step # "writing", r.step # "writing",
         late' = IF isLate THEN (late \ {r}) \cup (IF next.step \in Answered THEN {} ELSE {next})
                 ELSE late,
         call' = IF isLate THEN call ELSE next,
         approval[r.id] = "NONE", \A id \in GuardIds : id # r.id => approval'[id] = approval[id],
         written' = written
  PROVE  WritersOK'
<1>1. \A q \in late \cup {call} : q.step = "writing" => Unwritten(q)'
  BY WritersAre DEF Unwritten
<1>2. CASE isLate
  BY <1>1, <1>2 DEF IInv, WritersOK
<1>3. CASE ~ isLate
  BY <1>1, <1>3 DEF IInv, WritersOK
<1> QED BY <1>2, <1>3

(* One writer has ended; the guards of the others are not its own. *)
LEMMA DoneWriting ==
  ASSUME IInv, NEW isLate \in BOOLEAN, NEW r \in IF isLate THEN late ELSE Open, r.step = "writing",
         NEW next, next.step \in Answered,
         late' = IF isLate THEN (late \ {r}) \cup (IF next.step \in Answered THEN {} ELSE {next})
                 ELSE late,
         call' = IF isLate THEN call ELSE next,
         \A id \in GuardIds : id # r.id => approval'[id] = approval[id],
         written' \subseteq written \cup {r.id}
  PROVE  WritersOK'
<1>1. \A q \in late \cup {call} : q.step = "writing" /\ q.id # r.id => Unwritten(q)'
  BY WritersAre DEF Unwritten
<1>2. next.step # "writing"
  BY DEF Answered
<1>3. CASE isLate
  <2>1. late' = late \ {r} /\ call' = call
    BY <1>3
  <2>2. \A q \in (late \ {r}) \cup {call} : q.step = "writing" => q.id # r.id
    BY <1>3 DEF IInv, WritersOK
  <2> QED BY <1>1, <2>1, <2>2 DEF IInv, WritersOK
<1>4. CASE ~ isLate
  <2>1. r = call /\ late' = late /\ call'.step # "writing"
    BY <1>2, <1>4 DEF Open
  <2>2. \A q \in late : q.step = "writing" => q.id # r.id
    BY <2>1 DEF IInv, WritersOK
  <2> QED BY <1>1, <2>1, <2>2 DEF IInv, WritersOK
<1> QED BY <1>3, <1>4

LEMMA ReplyType ==
  ASSUME NEW r \in RequestType, NEW v \in Values
  PROVE  /\ Reply(r, v) \in RequestType /\ Reply(r, v).op = r.op /\ Reply(r, v).id = r.id
         /\ Reply(r, v).step = "ok" /\ Reply(r, v).value = v
BY DEF Reply, RequestType, Answered

LEMMA RefusedType ==
  ASSUME NEW r \in RequestType
  PROVE  /\ Refused(r) \in RequestType /\ Refused(r).op = r.op /\ Refused(r).id = r.id
         /\ Refused(r).step = "refused"
BY DEF Refused, RequestType, Answered

(* A step that changes no row and gives no answer the page uses. *)
LEMMA IdleKeeps ==
  ASSUME IInv, NEW isLate \in BOOLEAN, NEW r \in IF isLate THEN late ELSE Open,
         NEW next \in RequestType, next.op = r.op, next.id = r.id,
         next.step \in {"listed"} \cup Answered, r.step # "writing",
         ~ isLate => next.step # "ok" \/ r.op \in {"project", "incident", "details"},
         Proceed(r, isLate, next, {}), UNCHANGED <<service, withdrawn>>
  PROVE  IInv'
<1>1. /\ late' = IF isLate THEN (late \ {r}) \cup (IF next.step \in Answered THEN {} ELSE {next})
                 ELSE late
      /\ call' = IF isLate THEN call ELSE next
      /\ stale' = stale
      /\ UNCHANGED <<page, clicks, bare, cuts>>
  BY DEF Proceed
<1>2. ~ isLate => AnswerOK' /\ call.step # "writing"
  BY <1>1, Travelling DEF AnswerOK, Answered
<1>3. \A id \in GuardIds : Grown(id) /\ Stored(id)' /\ status'[id] = status[id]
  BY <1>1 DEF service, IInv, Grown, Stored
<1>4. /\ outcome' \in [Runs -> {"NONE", "COMPLETE", "FAILED"}]
      /\ status' \in [GuardIds -> GuardStatus \cup {"NONE"}]
      /\ approval' \in [GuardIds -> {"NONE", "APPROVED", "REJECTED"}]
      /\ results' \in [GuardIds -> SUBSET Outcomes]
      /\ written' \subseteq GuardIds /\ withdrawn' \subseteq GuardIds /\ faults' \in 0..MaxFaults
  BY DEF service, IInv, Typed
<1>5. WritersOK'
  BY <1>1, WritersKept DEF Answered, service
<1>6. next.step \in Served \cup Answered /\ {} \in SUBSET GuardIds
  BY DEF Served
<1>7. /\ isLate => stale' = stale \cup {}
      /\ ~ isLate => /\ stale' \subseteq stale \cup {} /\ AnswerOK'
                     /\ \A id \in GuardIds : id \in {} \/ id \in stale \ stale' =>
                          InFlight(id)' \/ id \in stale' \/ guards[id] = status'[id]
                     /\ call.step = "writing" => call.id \in {}
  BY <1>1, <1>2
<1> QED BY <1>1, <1>3, <1>4, <1>5, <1>6, <1>7, ServiceKeeps

LEMMA RefuseKeeps ==
  ASSUME IInv, NEW isLate \in BOOLEAN, NEW r \in IF isLate THEN late ELSE Open, Refuse(r, isLate)
  PROVE  IInv'
<1> DEFINE next == Refused(r)
<1>1. /\ next \in RequestType /\ next.op = r.op /\ next.id = r.id /\ next.step = "refused"
  BY Travelling, RefusedType
<1>2. Proceed(r, isLate, next, {}) /\ UNCHANGED <<service, withdrawn>> /\ r.step # "writing"
  BY DEF Refuse
<1> HIDE DEF next
<1> QED BY <1>1, <1>2, IdleKeeps DEF Answered

LEMMA RegisterKeeps ==
  ASSUME IInv, NEW isLate \in BOOLEAN, NEW r \in IF isLate THEN late ELSE Open, Register(r, isLate)
  PROVE  IInv'
<1> DEFINE next == Reply(r, "NONE")
<1>1. /\ next \in RequestType /\ next.op = r.op /\ next.id = r.id /\ next.step = "ok"
  BY Travelling, ReplyType DEF Values
<1>2. /\ Proceed(r, isLate, next, {}) /\ UNCHANGED <<service, withdrawn>>
      /\ r.op \in {"project", "incident", "details"}
  BY DEF Register
<1>3. r.step # "writing"
  BY <1>2, Travelling DEF Unwritten
<1> HIDE DEF next
<1> QED BY <1>1, <1>2, <1>3, IdleKeeps DEF Answered

LEMMA FindNoGuardsKeeps ==
  ASSUME IInv, NEW isLate \in BOOLEAN, NEW r \in IF isLate THEN late ELSE Open,
         FindNoGuards(r, isLate)
  PROVE  IInv'
<1> DEFINE next == [r EXCEPT !.step = "listed"]
<1>1. /\ next \in RequestType /\ next.op = r.op /\ next.id = r.id /\ next.step = "listed"
  BY Travelling DEF RequestType, Served
<1>2. Proceed(r, isLate, next, {}) /\ UNCHANGED <<service, withdrawn>> /\ r.step # "writing"
  BY DEF FindNoGuards
<1> HIDE DEF next
<1> QED BY <1>1, <1>2, IdleKeeps DEF Answered

LEMMA CardsType ==
  ASSUME NEW s \in [GuardIds -> GuardStatus \cup {"NONE"}], NEW q
  PROVE  /\ Cards(s, q) \in [GuardIds -> GuardStatus \cup {"NONE"}] /\ Cards(s, q) \in Values
         /\ \A id \in GuardIds : Cards(s, q)[id] = IF id[1] = q THEN s[id] ELSE "NONE"
BY DEF Cards, Values

LEMMA ListGuardsKeeps ==
  ASSUME IInv, NEW isLate \in BOOLEAN, NEW r \in IF isLate THEN late ELSE Open, ListGuards(r, isLate)
  PROVE  IInv'
<1>0. r.step # "writing" /\ r.op \in {"preview", "list"} /\ UNCHANGED <<service, withdrawn>>
  BY Travelling DEF ListGuards, Unwritten
<1>1. CASE isLate
  <2> DEFINE next == Reply(r, "NONE")
  <2>1. /\ next \in RequestType /\ next.op = r.op /\ next.id = r.id /\ next.step = "ok"
    BY Travelling, ReplyType DEF Values
  <2>2. Proceed(r, isLate, next, {})
    BY <1>1 DEF ListGuards
  <2> HIDE DEF next
  <2> QED BY <1>0, <1>1, <2>1, <2>2, IdleKeeps DEF Answered
<1>2. CASE ~ isLate
  <2> DEFINE v == Cards(status, r.id[1])
             next == Reply(r, v)
  <2>1. /\ v \in [GuardIds -> GuardStatus \cup {"NONE"}] /\ v \in Values
        /\ \A id \in GuardIds : v[id] = IF id[1] = r.id[1] THEN status[id] ELSE "NONE"
    BY CardsType DEF IInv, Typed
  <2>2. /\ next \in RequestType /\ next.op = r.op /\ next.id = r.id /\ next.step = "ok"
        /\ next.value = v
    BY <2>1, Travelling, ReplyType
  <2>3. call' = next /\ stale' = stale \ Of(r.id[1]) /\ UNCHANGED <<page, late, clicks, bare, cuts>>
    BY <1>2 DEF ListGuards
  <2>4. r = call /\ call # NoCall /\ call.id[1] = run
    BY <1>0, <1>2, Travelling DEF IInv, CallOK
  <2> HIDE DEF v, next
  <2>5. ASSUME NEW id \in GuardIds PROVE Listed(id)'
    <3>1. Stored(id) /\ Card(id)
      BY DEF IInv
    <3> QED
      BY <1>0, <2>1, <2>2, <2>3, <2>4, <3>1 DEF Listed, Stored, Card, Backed, service, page, Executable
  <2>6. AnswerOK'
    BY <1>0, <2>1, <2>2, <2>3, <2>5 DEF AnswerOK
  <2>7. ASSUME NEW id \in stale \ stale' PROVE InFlight(id)'
    BY <1>0, <2>2, <2>3, <2>7 DEF InFlight, Of
  <2>8. \A id \in GuardIds : Grown(id) /\ Stored(id)' /\ status'[id] = status[id]
    BY <1>0, <2>3 DEF service, IInv, Grown, Stored
  <2>9. /\ outcome' \in [Runs -> {"NONE", "COMPLETE", "FAILED"}]
        /\ status' \in [GuardIds -> GuardStatus \cup {"NONE"}]
        /\ approval' \in [GuardIds -> {"NONE", "APPROVED", "REJECTED"}]
        /\ results' \in [GuardIds -> SUBSET Outcomes]
        /\ written' \subseteq GuardIds /\ withdrawn' \subseteq GuardIds /\ faults' \in 0..MaxFaults
        /\ {} \in SUBSET GuardIds /\ stale' \subseteq stale \cup {}
    BY <1>0, <2>3 DEF service, IInv, Typed
  <2>10. /\ late' = IF isLate THEN (late \ {r}) \cup (IF next.step \in Answered THEN {} ELSE {next})
                    ELSE late
         /\ call' = IF isLate THEN call ELSE next
         /\ UNCHANGED <<page, clicks, bare, cuts>>
    BY <1>2, <2>3
  <2>11. WritersOK'
    BY <1>0, <2>2, <2>10, WritersKept DEF service
  <2>12. next.step \in Served \cup Answered /\ call.step # "writing"
    BY <1>0, <2>2, <2>4 DEF Answered
  <2> QED BY <1>2, <2>2, <2>6, <2>7, <2>8, <2>9, <2>10, <2>11, <2>12, ServiceKeeps
<1> QED BY <1>1, <1>2

(* A step that brings r to `next`, after it wrote the status of the guards  *)
(* in `changed`.                                                            *)
LEMMA WriteKeeps ==
  ASSUME IInv, NEW isLate \in BOOLEAN, NEW r \in IF isLate THEN late ELSE Open,
         NEW next \in RequestType, next.op = r.op, next.id = r.id,
         next.step \in Served \cup Answered,
         NEW changed \in SUBSET GuardIds, Proceed(r, isLate, next, changed),
         ~ isLate => /\ AnswerOK'
                     /\ \A id \in changed : InFlight(id)' \/ guards[id] = status'[id]
                     /\ call.step = "writing" => call.id \in changed,
         WritersOK',
         outcome' \in [Runs -> {"NONE", "COMPLETE", "FAILED"}],
         status' \in [GuardIds -> GuardStatus \cup {"NONE"}],
         approval' \in [GuardIds -> {"NONE", "APPROVED", "REJECTED"}],
         results' \in [GuardIds -> SUBSET Outcomes],
         written' \subseteq GuardIds, withdrawn' \subseteq GuardIds, faults' \in 0..MaxFaults,
         \A id \in GuardIds : /\ Grown(id) /\ Stored(id)'
                              /\ id \notin changed => status'[id] = status[id]
  PROVE  IInv'
<1>1. /\ late' = IF isLate THEN (late \ {r}) \cup (IF next.step \in Answered THEN {} ELSE {next})
                 ELSE late
      /\ call' = IF isLate THEN call ELSE next
      /\ isLate => stale' = stale \cup changed
      /\ ~ isLate => stale' = stale
      /\ UNCHANGED <<page, clicks, bare, cuts>>
  BY DEF Proceed
<1>2. ~ isLate => /\ stale' \subseteq stale \cup changed
                  /\ \A id \in GuardIds : id \in changed \/ id \in stale \ stale' =>
                       InFlight(id)' \/ id \in stale' \/ guards[id] = status'[id]
  BY <1>1
<1> QED BY <1>1, <1>2, ServiceKeeps

(* A step that refuses r after it wrote the status of those in `changed`.   *)
LEMMA BreakKeeps ==
  ASSUME IInv, NEW isLate \in BOOLEAN, NEW r \in IF isLate THEN late ELSE Open,
         NEW changed \in SUBSET GuardIds, Break(r, isLate, changed),
         r.step = "writing" => r.id \in changed,
         UNCHANGED <<outcome, approval, results, written, withdrawn>>, faults' \in 0..MaxFaults,
         status' \in [GuardIds -> GuardStatus \cup {"NONE"}],
         \A id \in GuardIds : /\ Grown(id) /\ Stored(id)'
                              /\ id \notin changed => status'[id] = status[id]
  PROVE  IInv'
<1> DEFINE next == Refused(r)
<1>1. /\ next \in RequestType /\ next.op = r.op /\ next.id = r.id /\ next.step = "refused"
      /\ ~ isLate => r = call
  BY Travelling, RefusedType
<1>2. /\ late' = IF isLate THEN late \ {r} ELSE late
      /\ call' = IF isLate THEN call ELSE next
      /\ stale' = stale \cup changed
      /\ UNCHANGED <<page, clicks, bare, cuts>>
  BY DEF Break
<1> HIDE DEF next
<1>3. late' = IF isLate THEN (late \ {r}) \cup (IF next.step \in Answered THEN {} ELSE {next})
              ELSE late
  BY <1>1, <1>2 DEF Answered
<1>4. WritersOK'
  BY <1>1, <1>2, <1>3, WritersKept
<1>5. ~ isLate => AnswerOK'
  BY <1>1, <1>2 DEF AnswerOK
<1>6. ~ isLate => /\ stale' \subseteq stale \cup changed /\ AnswerOK'
                  /\ \A id \in GuardIds : id \in changed \/ id \in stale \ stale' =>
                       InFlight(id)' \/ id \in stale' \/ guards[id] = status'[id]
                  /\ call.step = "writing" => call.id \in changed
  BY <1>1, <1>2, <1>5
<1>7. /\ outcome' \in [Runs -> {"NONE", "COMPLETE", "FAILED"}]
      /\ approval' \in [GuardIds -> {"NONE", "APPROVED", "REJECTED"}]
      /\ results' \in [GuardIds -> SUBSET Outcomes]
      /\ written' \subseteq GuardIds /\ withdrawn' \subseteq GuardIds
      /\ next.step \in Served \cup Answered
  BY <1>1 DEF IInv, Typed, Answered
<1> QED BY <1>1, <1>2, <1>3, <1>4, <1>6, <1>7, ServiceKeeps

LEMMA CreateRunKeeps ==
  ASSUME IInv, NEW isLate \in BOOLEAN, NEW r \in IF isLate THEN late ELSE Open, CreateRun(r, isLate)
  PROVE  IInv'
<1>1. PICK new \in Runs, final \in {"COMPLETE", "FAILED"} :
        /\ outcome' = [outcome EXCEPT ![new] = final]
        /\ Proceed(r, isLate, Reply(r, new), {})
  BY DEF CreateRun
<1> DEFINE next == Reply(r, new)
<1>2. /\ next \in RequestType /\ next.op = "run" /\ next.id = r.id /\ next.op = r.op
      /\ next.step = "ok" /\ next.value = new /\ next.step \in Served \cup Answered
      /\ r.step # "writing"
  <2>1. r.op = "run" /\ r \in RequestType /\ r.step # "writing" /\ new \in Values
    BY Travelling DEF Values, CreateRun, Unwritten
  <2> QED BY <2>1, ReplyType DEF Answered
<1>3. Proceed(r, isLate, next, {})
  BY <1>1
<1> HIDE DEF next
<1>4. /\ late' = IF isLate THEN (late \ {r}) \cup (IF next.step \in Answered THEN {} ELSE {next})
                 ELSE late
      /\ call' = IF isLate THEN call ELSE next
      /\ clicks' = clicks
  BY <1>3 DEF Proceed
<1>5. UNCHANGED <<status, approval, results, written, withdrawn, faults>>
  BY DEF CreateRun
<1>6. ~ isLate => AnswerOK' /\ call.step # "writing"
  BY <1>2, <1>4, Travelling DEF AnswerOK
<1>7. \A id \in GuardIds : Grown(id) /\ Stored(id)' /\ status'[id] = status[id]
  BY <1>4, <1>5 DEF IInv, Grown, Stored
<1>8. /\ outcome' \in [Runs -> {"NONE", "COMPLETE", "FAILED"}]
      /\ status' \in [GuardIds -> GuardStatus \cup {"NONE"}]
      /\ approval' \in [GuardIds -> {"NONE", "APPROVED", "REJECTED"}]
      /\ results' \in [GuardIds -> SUBSET Outcomes]
      /\ written' \subseteq GuardIds /\ withdrawn' \subseteq GuardIds /\ faults' \in 0..MaxFaults
      /\ {} \in SUBSET GuardIds
  BY <1>1, <1>5 DEF IInv, Typed
<1>9. WritersOK'
  BY <1>2, <1>4, <1>5, WritersKept
<1> QED BY <1>2, <1>3, <1>6, <1>7, <1>8, <1>9, WriteKeeps

LEMMA SaveGuardsKeeps ==
  ASSUME IInv, NEW isLate \in BOOLEAN, NEW r \in IF isLate THEN late ELSE Open, SaveGuards(r, isLate)
  PROVE  IInv'
<1> DEFINE v == Cards(status', r.id[1])
           next == Reply(r, v)
<1>1. /\ Proceed(r, isLate, next, Of(r.id[1])) /\ r.op = "preview" /\ r.step = "listed"
      /\ status' = [id \in GuardIds |-> IF id[1] = r.id[1] THEN "PREVIEWED" ELSE status[id]]
      /\ UNCHANGED <<outcome, approval, results, written, withdrawn, faults>>
  BY DEF SaveGuards
<1>2. status' \in [GuardIds -> GuardStatus \cup {"NONE"}]
  BY <1>1 DEF IInv, Typed, GuardStatus
<1>3. /\ v \in [GuardIds -> GuardStatus \cup {"NONE"}] /\ v \in Values
      /\ \A id \in GuardIds : v[id] = IF id[1] = r.id[1] THEN status'[id] ELSE "NONE"
  BY <1>2, CardsType
<1>4. /\ next \in RequestType /\ next.op = r.op /\ next.id = r.id /\ next.step = "ok"
      /\ next.value = v
  BY <1>3, Travelling, ReplyType
<1> HIDE DEF v, next
<1>5. /\ clicks' = clicks /\ guards' = guards
      /\ late' = IF isLate THEN (late \ {r}) \cup (IF next.step \in Answered THEN {} ELSE {next})
                 ELSE late
      /\ call' = IF isLate THEN call ELSE next
  BY <1>1 DEF Proceed, page
<1>6. ASSUME NEW id \in GuardIds
      PROVE  Grown(id) /\ Stored(id)' /\ (id \notin Of(r.id[1]) => status'[id] = status[id])
  <2>1. Stored(id)
    BY DEF IInv
  <2> QED BY <1>1, <1>5, <2>1 DEF Grown, Stored, Of, Executable
<1>7. ASSUME ~ isLate PROVE AnswerOK' /\ \A id \in Of(r.id[1]) : InFlight(id)'
  <2>1. call' = next /\ r = call /\ call.id[1] = run /\ stale' = stale
    BY <1>1, <1>5, <1>7, Travelling DEF Proceed, IInv, CallOK
  <2>2. ASSUME NEW id \in GuardIds PROVE Listed(id)'
    <3>1. Card(id) /\ Stored(id)'
      BY <1>6 DEF IInv
    <3> QED BY <1>1, <1>3, <1>4, <1>5, <2>1, <3>1 DEF Listed, Stored, Card, Backed, Executable
  <2>3. AnswerOK'
    BY <1>1, <1>3, <1>4, <2>1, <2>2 DEF AnswerOK
  <2> QED BY <1>1, <1>4, <2>1, <2>3 DEF InFlight, Of
<1>8. Of(r.id[1]) \in SUBSET GuardIds /\ next.step \in Served \cup Answered
      /\ (~ isLate => call.step # "writing")
  BY <1>1, <1>4, Travelling DEF Of, Answered
<1>9. /\ approval' \in [GuardIds -> {"NONE", "APPROVED", "REJECTED"}]
      /\ results' \in [GuardIds -> SUBSET Outcomes]
      /\ outcome' \in [Runs -> {"NONE", "COMPLETE", "FAILED"}]
      /\ written' \subseteq GuardIds /\ withdrawn' \subseteq GuardIds /\ faults' \in 0..MaxFaults
  BY <1>1 DEF IInv, Typed
<1>10. WritersOK'
  BY <1>1, <1>4, <1>5, WritersKept
<1> QED BY <1>1, <1>2, <1>4, <1>6, <1>7, <1>8, <1>9, <1>10, WriteKeeps

LEMMA FaultCounted ==
  ASSUME IInv, Fault
  PROVE  faults' \in 0..MaxFaults
BY BoundsAssumption DEF IInv, Typed, Fault

LEMMA SaveRaisesKeeps ==
  ASSUME IInv, NEW isLate \in BOOLEAN, NEW r \in IF isLate THEN late ELSE Open, SaveRaises(r, isLate)
  PROVE  IInv'
<1>1. PICK saved \in SUBSET Of(r.id[1]) :
        /\ status' = [id \in GuardIds |-> IF id \in saved THEN "PREVIEWED" ELSE status[id]]
        /\ Break(r, isLate, saved)
  BY DEF SaveRaises
<1>2. /\ UNCHANGED <<outcome, approval, results, written, withdrawn>> /\ r.step # "writing"
      /\ faults' \in 0..MaxFaults
  BY FaultCounted DEF SaveRaises
<1>3. saved \in SUBSET GuardIds
  BY DEF Of
<1>4. status' \in [GuardIds -> GuardStatus \cup {"NONE"}]
  BY <1>1 DEF IInv, Typed, GuardStatus
<1>5. ASSUME NEW id \in GuardIds
      PROVE  Grown(id) /\ Stored(id)' /\ (id \notin saved => status'[id] = status[id])
  <2>1. Stored(id) /\ clicks' = clicks
    BY <1>1 DEF IInv, Break
  <2> QED BY <1>1, <1>2, <2>1 DEF Grown, Stored, Executable
<1> QED BY <1>1, <1>2, <1>3, <1>4, <1>5, BreakKeeps

(* A decision on r's guard: its new status and its decision row. *)
StatusOf(r) == IF r.op = "approve" THEN "WRITTEN" ELSE "REJECTED"
RowOf(r) == IF r.op = "approve" THEN "APPROVED" ELSE "REJECTED"

LEMMA DecisionRows ==
  ASSUME IInv, NEW r \in RequestType, Sound(r),
         r.op \in {"approve", "reject"}, Undecided(r.id),
         status' = [status EXCEPT ![r.id] = StatusOf(r)], approval' = [approval EXCEPT ![r.id] = RowOf(r)],
         clicks' = clicks, UNCHANGED <<outcome, results, written, withdrawn, faults>>
  PROVE  /\ r.id \in GuardIds /\ status'[r.id] = StatusOf(r) /\ approval'[r.id] = RowOf(r)
         /\ r.id \notin written /\ approval[r.id] = "NONE"
         /\ outcome' \in [Runs -> {"NONE", "COMPLETE", "FAILED"}]
         /\ status' \in [GuardIds -> GuardStatus \cup {"NONE"}]
         /\ approval' \in [GuardIds -> {"NONE", "APPROVED", "REJECTED"}]
         /\ results' \in [GuardIds -> SUBSET Outcomes]
         /\ written' \subseteq GuardIds /\ withdrawn' \subseteq GuardIds /\ faults' \in 0..MaxFaults
         /\ \A id \in GuardIds : /\ Grown(id) /\ Stored(id)'
                                 /\ id \notin {r.id} => status'[id] = status[id]
                                 /\ id # r.id => approval'[id] = approval[id]
<1>1. r.id \in GuardIds /\ r.op \in clicks[r.id] /\ approval[r.id] = "NONE" /\ status[r.id] = "PREVIEWED"
  BY DEF Sound, OnGuard, Undecided
<1>2. r.id \notin written
  BY <1>1 DEF IInv, Stored
<1>3. /\ status' \in [GuardIds -> GuardStatus \cup {"NONE"}]
      /\ approval' \in [GuardIds -> {"NONE", "APPROVED", "REJECTED"}]
      /\ status'[r.id] = StatusOf(r) /\ approval'[r.id] = RowOf(r)
  BY <1>1 DEF IInv, Typed, GuardStatus, Executable, StatusOf, RowOf
<1>4. ASSUME NEW id \in GuardIds
      PROVE  /\ Grown(id) /\ Stored(id)'
             /\ id # r.id => status'[id] = status[id] /\ approval'[id] = approval[id]
  <2>1. Stored(id)
    BY DEF IInv
  <2>2. CASE id = r.id
    BY <1>1, <1>2, <1>3, <2>1, <2>2 DEF Grown, Stored, Executable, StatusOf, RowOf
  <2>3. CASE id # r.id
    <3>1. status'[id] = status[id] /\ approval'[id] = approval[id]
      BY <2>3 DEF IInv, Typed
    <3> QED BY <2>1, <2>3, <3>1 DEF Grown, Stored
  <2> QED BY <2>2, <2>3
<1>5. /\ outcome' \in [Runs -> {"NONE", "COMPLETE", "FAILED"}]
      /\ results' \in [GuardIds -> SUBSET Outcomes]
      /\ written' \subseteq GuardIds /\ withdrawn' \subseteq GuardIds /\ faults' \in 0..MaxFaults
  BY DEF IInv, Typed
<1> QED BY <1>1, <1>2, <1>3, <1>4, <1>5

LEMMA RejectKeeps ==
  ASSUME IInv, NEW isLate \in BOOLEAN, NEW r \in IF isLate THEN late ELSE Open, Reject(r, isLate)
  PROVE  IInv'
<1> DEFINE next == Reply(r, "REJECTED")
<1>1. /\ Proceed(r, isLate, next, {r.id}) /\ r.op = "reject" /\ Undecided(r.id)
      /\ status' = [status EXCEPT ![r.id] = "REJECTED"]
      /\ approval' = [approval EXCEPT ![r.id] = "REJECTED"]
      /\ UNCHANGED <<outcome, results, written, withdrawn, faults>>
  BY DEF Reject
<1>2. /\ next \in RequestType /\ next.op = r.op /\ next.id = r.id /\ next.step = "ok"
      /\ next.value = "REJECTED" /\ r \in RequestType /\ Sound(r) /\ r.step # "writing"
      /\ (~ isLate => r = call)
  BY <1>1, Travelling, ReplyType DEF Values, GuardStatus, Unwritten
<1> HIDE DEF next
<1>3. /\ clicks' = clicks
      /\ late' = IF isLate THEN (late \ {r}) \cup (IF next.step \in Answered THEN {} ELSE {next})
                 ELSE late
      /\ call' = IF isLate THEN call ELSE next
  BY <1>1 DEF Proceed
<1>4. /\ r.id \in GuardIds /\ status'[r.id] = "REJECTED" /\ approval'[r.id] = "REJECTED"
      /\ outcome' \in [Runs -> {"NONE", "COMPLETE", "FAILED"}]
      /\ status' \in [GuardIds -> GuardStatus \cup {"NONE"}]
      /\ approval' \in [GuardIds -> {"NONE", "APPROVED", "REJECTED"}]
      /\ results' \in [GuardIds -> SUBSET Outcomes]
      /\ written' \subseteq GuardIds /\ withdrawn' \subseteq GuardIds /\ faults' \in 0..MaxFaults
      /\ \A id \in GuardIds : /\ Grown(id) /\ Stored(id)'
                              /\ id \notin {r.id} => status'[id] = status[id]
      /\ approval[r.id] = "NONE" /\ \A id \in GuardIds : id # r.id => approval'[id] = approval[id]
  <2>1. /\ status' = [status EXCEPT ![r.id] = StatusOf(r)]
        /\ approval' = [approval EXCEPT ![r.id] = RowOf(r)] /\ r.op \in {"approve", "reject"}
    BY <1>1 DEF StatusOf, RowOf
  <2> QED BY <1>1, <1>2, <1>3, <2>1, DecisionRows DEF StatusOf, RowOf
<1>5. WritersOK'
  BY <1>2, <1>3, <1>4, <1>1, OthersWrite
<1>6. ASSUME ~ isLate PROVE AnswerOK' /\ \A id \in {r.id} : InFlight(id)'
  BY <1>1, <1>2, <1>3, <1>4, <1>6 DEF AnswerOK, InFlight, Backed, Executable, GuardStatus
<1>7. next.step \in Served \cup Answered /\ {r.id} \in SUBSET GuardIds
  BY <1>2, <1>4 DEF Answered
<1> QED BY <1>1, <1>2, <1>4, <1>5, <1>6, <1>7, WriteKeeps

LEMMA ApproveKeeps ==
  ASSUME IInv, NEW isLate \in BOOLEAN, NEW r \in IF isLate THEN late ELSE Open, Approve(r, isLate)
  PROVE  IInv'
<1> DEFINE next == [r EXCEPT !.step = "writing"]
<1>1. /\ Proceed(r, isLate, next, {r.id}) /\ r.op = "approve" /\ Undecided(r.id) /\ r.step = "sent"
      /\ status' = [status EXCEPT ![r.id] = "WRITTEN"]
      /\ approval' = [approval EXCEPT ![r.id] = "APPROVED"]
      /\ UNCHANGED <<outcome, results, written, withdrawn, faults>>
  BY DEF Approve
<1>2. /\ next \in RequestType /\ next.op = r.op /\ next.id = r.id /\ next.step = "writing"
      /\ r \in RequestType /\ Sound(r) /\ (~ isLate => r = call)
  BY Travelling DEF RequestType, Served
<1> HIDE DEF next
<1>3. /\ clicks' = clicks
      /\ late' = IF isLate THEN (late \ {r}) \cup {next} ELSE late
      /\ call' = IF isLate THEN call ELSE next
  BY <1>1, <1>2 DEF Proceed, Answered
<1>4. /\ r.id \in GuardIds /\ status'[r.id] = "WRITTEN" /\ approval'[r.id] = "APPROVED"
      /\ outcome' \in [Runs -> {"NONE", "COMPLETE", "FAILED"}]
      /\ status' \in [GuardIds -> GuardStatus \cup {"NONE"}]
      /\ approval' \in [GuardIds -> {"NONE", "APPROVED", "REJECTED"}]
      /\ results' \in [GuardIds -> SUBSET Outcomes]
      /\ written' \subseteq GuardIds /\ withdrawn' \subseteq GuardIds /\ faults' \in 0..MaxFaults
      /\ \A id \in GuardIds : /\ Grown(id) /\ Stored(id)'
                              /\ id \notin {r.id} => status'[id] = status[id]
      /\ approval[r.id] = "NONE" /\ \A id \in GuardIds : id # r.id => approval'[id] = approval[id]
      /\ r.id \notin written
  <2>1. /\ status' = [status EXCEPT ![r.id] = StatusOf(r)]
        /\ approval' = [approval EXCEPT ![r.id] = RowOf(r)] /\ r.op \in {"approve", "reject"}
    BY <1>1 DEF StatusOf, RowOf
  <2> QED BY <1>1, <1>2, <1>3, <2>1, DecisionRows DEF StatusOf, RowOf
<1>5. WritersOK'
  <2>1. \A q \in late \cup {call} : q.step = "writing" => q.id # r.id /\ q.id \in GuardIds /\ Unwritten(q)
    BY <1>4, WritersAre
  <2>2. \A q \in late \cup {call} : q.step = "writing" => Unwritten(q)'
    BY <1>1, <1>4, <2>1 DEF Unwritten
  <2>3. Unwritten(next)'
    BY <1>1, <1>2, <1>4 DEF Unwritten
  <2> QED BY <1>2, <1>3, <2>1, <2>2, <2>3 DEF IInv, WritersOK
<1>6. ASSUME ~ isLate PROVE AnswerOK' /\ \A id \in {r.id} : InFlight(id)'
  BY <1>1, <1>2, <1>3, <1>4, <1>6 DEF AnswerOK, InFlight
<1>7. next.step \in Served \cup Answered /\ {r.id} \in SUBSET GuardIds /\ (~ isLate => call.step # "writing")
  BY <1>1, <1>2, <1>4 DEF Served
<1> QED BY <1>1, <1>2, <1>4, <1>5, <1>6, <1>7, WriteKeeps

LEMMA WriteArtifactKeeps ==
  ASSUME IInv, NEW isLate \in BOOLEAN, NEW r \in IF isLate THEN late ELSE Open, WriteArtifact(r, isLate)
  PROVE  IInv'
<1> DEFINE next == Reply(r, "WRITTEN")
           changed == IF isLate THEN {} ELSE {r.id}
<1>1. /\ Proceed(r, isLate, next, {}) /\ r.step = "writing" /\ written' = written \cup {r.id}
      /\ UNCHANGED <<outcome, status, approval, results, withdrawn, faults>>
  BY DEF WriteArtifact
<1>2. /\ next \in RequestType /\ next.op = r.op /\ next.id = r.id /\ next.step = "ok"
      /\ next.value = "WRITTEN" /\ Unwritten(r) /\ Sound(r) /\ (~ isLate => r = call)
  BY <1>1, Travelling, ReplyType DEF Values, GuardStatus, Executable
<1> HIDE DEF next
<1>3. /\ late' = IF isLate THEN (late \ {r}) \cup (IF next.step \in Answered THEN {} ELSE {next})
                 ELSE late
      /\ call' = IF isLate THEN call ELSE next
      /\ stale' = stale
      /\ UNCHANGED <<page, clicks, bare, cuts>>
  BY <1>1 DEF Proceed
<1>4. r.id \in GuardIds /\ r.op = "approve" /\ approval[r.id] = "APPROVED"
  BY <1>2 DEF Unwritten, Sound, OnGuard
<1>5. \A id \in GuardIds : Grown(id) /\ Stored(id)' /\ status'[id] = status[id]
  BY <1>1, <1>3, <1>4 DEF IInv, Grown, Stored
<1>6. WritersOK'
  BY <1>1, <1>2, <1>3, DoneWriting DEF Answered
<1>7. ASSUME ~ isLate PROVE AnswerOK' /\ InFlight(r.id)'
  <2>1. r.id \in stale \/ status[r.id] = "WRITTEN"
    BY <1>1, <1>2, <1>7 DEF IInv, AnswerOK
  <2> QED BY <1>1, <1>2, <1>3, <1>4, <1>7, <2>1 DEF AnswerOK, InFlight, Backed, GuardStatus, Executable
<1>8. /\ outcome' \in [Runs -> {"NONE", "COMPLETE", "FAILED"}]
      /\ status' \in [GuardIds -> GuardStatus \cup {"NONE"}]
      /\ approval' \in [GuardIds -> {"NONE", "APPROVED", "REJECTED"}]
      /\ results' \in [GuardIds -> SUBSET Outcomes]
      /\ written' \subseteq GuardIds /\ withdrawn' \subseteq GuardIds /\ faults' \in 0..MaxFaults
      /\ changed \in SUBSET GuardIds /\ next.step \in Served \cup Answered
  BY <1>1, <1>2, <1>4 DEF IInv, Typed, Answered
<1>9. /\ isLate => stale' = stale \cup changed
      /\ ~ isLate => /\ stale' \subseteq stale \cup changed /\ AnswerOK'
                     /\ \A id \in GuardIds : id \in changed \/ id \in stale \ stale' =>
                          InFlight(id)' \/ id \in stale' \/ guards[id] = status'[id]
                     /\ call.step = "writing" => call.id \in changed
  BY <1>2, <1>3, <1>7
<1> HIDE DEF changed
<1> QED BY <1>2, <1>3, <1>5, <1>6, <1>8, <1>9, ServiceKeeps

LEMMA RestorePreviewKeeps ==
  ASSUME IInv, NEW isLate \in BOOLEAN, NEW r \in IF isLate THEN late ELSE Open, RestorePreview(r, isLate)
  PROVE  IInv'
<1> DEFINE next == Refused(r)
<1>1. /\ Proceed(r, isLate, next, {r.id}) /\ r.step = "writing"
      /\ status' = [status EXCEPT ![r.id] = "PREVIEWED"]
      /\ approval' = [approval EXCEPT ![r.id] = "NONE"]
      /\ withdrawn' = withdrawn \cup {r.id}
      /\ UNCHANGED <<outcome, results, written>> /\ faults' \in 0..MaxFaults
  BY FaultCounted DEF RestorePreview
<1>2. /\ next \in RequestType /\ next.op = r.op /\ next.id = r.id /\ next.step = "refused"
      /\ Unwritten(r) /\ Sound(r) /\ (~ isLate => r = call /\ call # NoCall)
  BY <1>1, Travelling, RefusedType
<1> HIDE DEF next
<1>3. /\ late' = IF isLate THEN (late \ {r}) \cup (IF next.step \in Answered THEN {} ELSE {next})
                 ELSE late
      /\ call' = IF isLate THEN call ELSE next
      /\ UNCHANGED <<page, clicks, bare, cuts>>
  BY <1>1 DEF Proceed
<1>4. r.id \in GuardIds /\ r.op = "approve" /\ approval[r.id] = "APPROVED" /\ r.id \notin written
  BY <1>2 DEF Unwritten, Sound, OnGuard
<1>5. /\ status' \in [GuardIds -> GuardStatus \cup {"NONE"}]
      /\ approval' \in [GuardIds -> {"NONE", "APPROVED", "REJECTED"}]
      /\ status'[r.id] = "PREVIEWED" /\ approval'[r.id] = "NONE"
      /\ \A id \in GuardIds : id # r.id => status'[id] = status[id] /\ approval'[id] = approval[id]
  BY <1>1, <1>4 DEF IInv, Typed, GuardStatus
<1>6. ASSUME NEW id \in GuardIds
      PROVE  Grown(id) /\ Stored(id)' /\ (id \notin {r.id} => status'[id] = status[id])
  <2>1. Stored(id)
    BY DEF IInv
  <2>2. CASE id = r.id
    BY <1>1, <1>3, <1>4, <1>5, <2>1, <2>2 DEF Grown, Stored, Executable
  <2>3. CASE id # r.id
    BY <1>1, <1>3, <1>5, <2>1, <2>3 DEF Grown, Stored
  <2> QED BY <2>2, <2>3
<1>7. WritersOK'
  BY <1>1, <1>2, <1>3, <1>5, DoneWriting DEF Answered
<1>8. ASSUME ~ isLate
      PROVE  AnswerOK' /\ \A id \in {r.id} : guards[id] = status'[id]
  <2>1. guards[r.id] = "PREVIEWED"
    BY <1>2, <1>4, <1>8 DEF IInv, CallOK
  <2> QED BY <1>2, <1>3, <1>5, <1>8, <2>1 DEF AnswerOK
<1>9. /\ outcome' \in [Runs -> {"NONE", "COMPLETE", "FAILED"}]
      /\ results' \in [GuardIds -> SUBSET Outcomes]
      /\ written' \subseteq GuardIds /\ withdrawn' \subseteq GuardIds
      /\ {r.id} \in SUBSET GuardIds /\ next.step \in Served \cup Answered
      /\ (~ isLate => call.id \in {r.id})
  BY <1>1, <1>2, <1>4 DEF IInv, Typed, Answered
<1> QED BY <1>1, <1>2, <1>5, <1>6, <1>7, <1>8, <1>9, WriteKeeps

LEMMA RestoreRaisesKeeps ==
  ASSUME IInv, NEW isLate \in BOOLEAN, NEW r \in IF isLate THEN late ELSE Open, RestoreRaises(r, isLate)
  PROVE  IInv'
<1>1. /\ Break(r, isLate, {r.id}) /\ r.step = "writing"
      /\ UNCHANGED <<outcome, status, approval, results, written, withdrawn>>
      /\ faults' \in 0..MaxFaults
  BY FaultCounted DEF RestoreRaises
<1>2. {r.id} \in SUBSET GuardIds /\ clicks' = clicks
  BY <1>1, Travelling DEF Unwritten, Sound, OnGuard, Break
<1>3. \A id \in GuardIds : Grown(id) /\ Stored(id)' /\ status'[id] = status[id]
  BY <1>1, <1>2 DEF IInv, Grown, Stored
<1>4. status' \in [GuardIds -> GuardStatus \cup {"NONE"}]
  BY <1>1 DEF IInv, Typed
<1> QED BY <1>1, <1>2, <1>3, <1>4, BreakKeeps

LEMMA ExecuteKeeps ==
  ASSUME IInv, NEW isLate \in BOOLEAN, NEW r \in IF isLate THEN late ELSE Open, Execute(r, isLate)
  PROVE  IInv'
<1>1. PICK v \in Outcomes :
        /\ Proceed(r, isLate, Reply(r, v), {r.id})
        /\ status' = [status EXCEPT ![r.id] = v]
        /\ results' = [results EXCEPT ![r.id] = @ \cup {v}]
  BY DEF Execute
<1> DEFINE next == Reply(r, v)
<1>2. /\ r.op = "execute" /\ status[r.id] \in Executable /\ approval[r.id] = "APPROVED"
      /\ r.id \in written /\ UNCHANGED <<outcome, approval, written, withdrawn, faults>>
  BY DEF Execute
<1>3. r.id \in GuardIds /\ v \in Values /\ v \in GuardStatus /\ v # "NONE" /\ v \in Executable
      /\ v # "REJECTED" /\ v # "WRITTEN"
  BY <1>2, Travelling, OutcomesAssumption DEF Sound, OnGuard, Values, GuardStatus, Executable
<1>4. /\ next \in RequestType /\ next.op = "execute" /\ next.op = r.op /\ next.id = r.id
      /\ next.step = "ok" /\ next.value = v /\ r.step # "writing" /\ (~ isLate => r = call)
  BY <1>2, <1>3, Travelling, ReplyType DEF Unwritten
<1>5. Proceed(r, isLate, next, {r.id})
  BY <1>1
<1> HIDE DEF next
<1>6. /\ clicks' = clicks
      /\ late' = IF isLate THEN (late \ {r}) \cup (IF next.step \in Answered THEN {} ELSE {next})
                 ELSE late
      /\ call' = IF isLate THEN call ELSE next
  BY <1>5 DEF Proceed
<1>7. /\ status' \in [GuardIds -> GuardStatus \cup {"NONE"}]
      /\ approval' \in [GuardIds -> {"NONE", "APPROVED", "REJECTED"}]
      /\ results' \in [GuardIds -> SUBSET Outcomes]
      /\ status'[r.id] = v /\ v \in results'[r.id]
      /\ outcome' \in [Runs -> {"NONE", "COMPLETE", "FAILED"}]
      /\ written' \subseteq GuardIds /\ withdrawn' \subseteq GuardIds /\ faults' \in 0..MaxFaults
  BY <1>1, <1>2, <1>3 DEF IInv, Typed
<1>8. ASSUME NEW id \in GuardIds
      PROVE  Grown(id) /\ Stored(id)' /\ (id \notin {r.id} => status'[id] = status[id])
  <2>1. Stored(id)
    BY DEF IInv
  <2>2. results[id] \subseteq results'[id]
    BY <1>1, <1>3 DEF IInv, Typed
  <2>3. CASE id = r.id
    BY <1>2, <1>3, <1>6, <1>7, <2>1, <2>2, <2>3 DEF Grown, Stored
  <2>4. CASE id # r.id
    <3>1. status'[id] = status[id] /\ results'[id] = results[id]
      BY <1>1, <2>4 DEF IInv, Typed
    <3> QED BY <1>2, <1>6, <2>1, <2>2, <2>4, <3>1 DEF Grown, Stored
  <2> QED BY <2>3, <2>4
<1>9. WritersOK'
  BY <1>2, <1>4, <1>6, WritersKept
<1>10. ASSUME ~ isLate PROVE AnswerOK' /\ \A id \in {r.id} : InFlight(id)'
  BY <1>4, <1>6, <1>7, <1>10 DEF AnswerOK, InFlight
<1>11. {r.id} \in SUBSET GuardIds /\ next.step \in Served \cup Answered
       /\ (~ isLate => call.step # "writing")
  BY <1>3, <1>4 DEF Answered
<1> QED BY <1>4, <1>5, <1>7, <1>8, <1>9, <1>10, <1>11, WriteKeeps

LEMMA ServeKeeps == IInv /\ Serve => IInv'
BY RefuseKeeps, RegisterKeeps, CreateRunKeeps, ListGuardsKeeps, FindNoGuardsKeeps, SaveGuardsKeeps,
   SaveRaisesKeeps, RejectKeeps, ApproveKeeps, WriteArtifactKeeps, RestorePreviewKeeps,
   RestoreRaisesKeeps, ExecuteKeeps DEF Serve, Handle

-----------------------------------------------------------------------------
(* The user begins an action. *)

LEMMA NothingIs ==
  ASSUME NEW v
  PROVE  Nothing(v) = [id \in GuardIds |-> v] /\ \A id \in GuardIds : Nothing(v)[id] = v
BY DEF Nothing

LEMMA BeginCalls ==
  ASSUME IInv, NEW op \in Ops, NEW id \in (0..MaxRuns) \X (0..NumGuards), Begin(op, id)
  PROVE  /\ call = NoCall /\ call' = Request(op, id) /\ call' \in RequestType /\ call' # NoCall
         /\ call'.op = op /\ call'.id = id /\ call'.step = "sent"
         /\ pending' # "none"
         /\ pending' \in {"none", "audit", "preview", "decision", "execution"}
         /\ error' \in BOOLEAN
<1>1. pending = "none" /\ pending' = ActionOf(op) /\ error' = FALSE /\ call' = Request(op, id)
  BY DEF Begin
<1>2. call = NoCall
  BY <1>1 DEF IInv, CallOK
<1>3. Request(op, id) \in RequestType /\ Request(op, id) # NoCall
  BY DEF Request, RequestType, NoCall, Values, Ops, Served
<1>4. Request(op, id).op = op /\ Request(op, id).id = id /\ Request(op, id).step = "sent"
  BY DEF Request
<1>5. ActionOf(op) \in {"audit", "preview", "decision", "execution"}
  BY DEF ActionOf, Ops
<1> QED BY <1>1, <1>2, <1>3, <1>4, <1>5

(* Outside the service nothing begins to write. *)
LEMMA QuietWriters ==
  ASSUME IInv, UNCHANGED <<approval, written>>, call'.step # "writing", late' \subseteq late \cup {call}
  PROVE  WritersOK'
<1>1. \A q \in late \cup {call} : q.step = "writing" => Unwritten(q)'
  BY WritersAre DEF Unwritten
<1>2. \A q, t \in late \cup {call} : q.step = "writing" /\ t.step = "writing" /\ t.id = q.id => t = q
  BY DEF IInv, WritersOK
<1> QED BY <1>1, <1>2 DEF WritersOK

LEMMA QuietCall ==
  ASSUME call = NoCall
  PROVE  call.op = "none" /\ \A id \in GuardIds : ~ InFlight(id)
BY DEF NoCall, InFlight

LEMMA GuardIdsAre ==
  /\ \A id \in GuardIds : id \in (0..MaxRuns) \X (0..NumGuards) /\ id[1] \in Runs /\ id[1] # 0
  /\ \A r \in Runs : r \in 1..MaxRuns /\ r # 0 /\ <<r, 0>> \in (0..MaxRuns) \X (0..NumGuards)
  /\ <<0, 0>> \in (0..MaxRuns) \X (0..NumGuards)
BY BoundsAssumption DEF GuardIds, Runs

LEMMA StartAuditKeeps ==
  ASSUME IInv, StartAudit
  PROVE  IInv'
<1>1. /\ Begin("project", <<0, 0>>) /\ run' = 0 /\ details' = 0 /\ bare' = FALSE
      /\ guards' = Nothing("NONE") /\ executions' = Nothing("NONE")
      /\ UNCHANGED <<blank, late, service, clicks, stale, withdrawn, cuts>>
  BY DEF StartAudit
<1>2. /\ call'.op = "project" /\ call'.step = "sent" /\ call' \in RequestType /\ call' # NoCall
      /\ pending' # "none" /\ error' \in BOOLEAN
      /\ pending' \in {"none", "audit", "preview", "decision", "execution"}
  BY <1>1, BeginCalls, GuardIdsAre DEF Ops
<1>3. Typed'
  <2>1. guards' \in [GuardIds -> GuardStatus \cup {"NONE"}]
    BY <1>1, NothingIs
  <2>2. executions' \in [GuardIds -> Outcomes \cup {"NONE"}]
    BY <1>1, NothingIs
  <2>3. 0 \in 0..MaxRuns
    BY BoundsAssumption
  <2> QED BY <1>1, <1>2, <2>1, <2>2, <2>3 DEF IInv, Typed, service
<1>4. LateOK'
  BY <1>1 DEF IInv, LateOK, Sound
<1>5. CallOK'
  BY <1>1, <1>2 DEF CallOK, Sound, OnGuard
<1>6. ASSUME NEW id \in GuardIds PROVE Stored(id)' /\ Card(id)'
  <2>1. Stored(id)
    BY DEF IInv
  <2>2. guards'[id] = "NONE" /\ executions'[id] = "NONE"
    BY <1>1, NothingIs
  <2> QED BY <1>1, <2>1, <2>2 DEF Stored, Card, Backed, service, Executable
<1>7. AnswerOK'
  BY <1>2 DEF AnswerOK
<1>8. Fresh'
  <2>1. \A id \in GuardIds : guards'[id] = "NONE"
    BY <1>1, NothingIs
  <2> QED BY <1>1, <2>1 DEF Fresh
<1>9. WritersOK'
  BY <1>1, <1>2, QuietWriters DEF service
<1> QED BY <1>1, <1>3, <1>4, <1>5, <1>6, <1>7, <1>8, <1>9 DEF IInv

(* An action on the run shown. *)
LEMMA BeginKeeps ==
  ASSUME IInv, NEW op \in {"preview", "approve", "reject", "execute"},
         NEW id \in (0..MaxRuns) \X (0..NumGuards), Begin(op, id), id[1] = run, run # 0,
         op # "preview" => id \in GuardIds /\ guards[id] # "NONE",
         op \in {"approve", "reject"} => op \in clicks'[id] /\ guards[id] = "PREVIEWED",
         clicks' \in [GuardIds -> SUBSET {"approve", "reject"}],
         \A x \in GuardIds : clicks[x] \subseteq clicks'[x],
         UNCHANGED <<run, details, guards, executions, blank, late, service, stale, withdrawn, bare, cuts>>
  PROVE  IInv'
<1>1. /\ call = NoCall /\ call'.op = op /\ call'.id = id /\ call'.step = "sent"
      /\ call' \in RequestType /\ call' # NoCall
      /\ pending' # "none" /\ error' \in BOOLEAN
      /\ pending' \in {"none", "audit", "preview", "decision", "execution"}
  BY BeginCalls DEF Ops
<1>2. Typed'
  BY <1>1 DEF IInv, Typed, service
<1>3. LateOK'
  <2>1. ASSUME NEW r \in late PROVE Sound(r)'
    <3>1. Sound(r)
      BY DEF IInv, LateOK
    <3>2. r.op \in {"approve", "reject"} => r.id \in GuardIds
      BY <3>1 DEF Sound, OnGuard
    <3> QED BY <3>1, <3>2 DEF Sound
  <2> QED BY <2>1 DEF IInv, LateOK
<1>4. CallOK'
  <2>1. run \in Runs
    BY DEF IInv, Typed, Runs
  <2>2. Sound(call)'
    BY <1>1, <2>1 DEF Sound, OnGuard
  <2> QED BY <1>1, <2>2 DEF CallOK, OnGuard
<1>5. ASSUME NEW x \in GuardIds PROVE Stored(x)' /\ Card(x)'
  <2>1. Stored(x) /\ Card(x)
    BY DEF IInv
  <2> QED BY <2>1 DEF Stored, Card, Backed, service
<1>6. AnswerOK'
  BY <1>1 DEF AnswerOK
<1>7. Fresh'
  BY <1>1, QuietCall DEF IInv, Fresh, service
<1>8. WritersOK'
  BY <1>1, QuietWriters DEF service
<1> QED BY <1>2, <1>3, <1>4, <1>5, <1>6, <1>7, <1>8 DEF IInv

LEMMA PreviewGuardsKeeps == IInv /\ PreviewGuards => IInv'
<1> SUFFICES ASSUME IInv, PreviewGuards PROVE IInv'
  OBVIOUS
<1>1. run \in Runs /\ run # 0
  BY DEF IInv, Typed, PreviewGuards, Runs
<1>2. <<run, 0>> \in (0..MaxRuns) \X (0..NumGuards) /\ <<run, 0>>[1] = run
  BY <1>1, GuardIdsAre
<1>3. clicks' = clicks /\ clicks \in [GuardIds -> SUBSET {"approve", "reject"}]
  BY DEF PreviewGuards, IInv, Typed
<1> QED BY <1>1, <1>2, <1>3, BeginKeeps DEF PreviewGuards

LEMMA DecideGuardKeeps ==
  ASSUME IInv, NEW id \in GuardIds, NEW decision \in {"approve", "reject"}, DecideGuard(id, decision)
  PROVE  IInv'
<1>1. guards[id] = "PREVIEWED" /\ Card(id)
  BY DEF DecideGuard, IInv
<1>2. id[1] = run /\ run # 0 /\ id \in (0..MaxRuns) \X (0..NumGuards)
  BY <1>1, GuardIdsAre DEF Card
<1>3. /\ clicks' \in [GuardIds -> SUBSET {"approve", "reject"}]
      /\ decision \in clicks'[id] /\ \A x \in GuardIds : clicks[x] \subseteq clicks'[x]
  BY DEF DecideGuard, IInv, Typed
<1>4. /\ Begin(decision, id)
      /\ UNCHANGED <<run, details, guards, executions, blank, late, service, stale, withdrawn, bare, cuts>>
  BY DEF DecideGuard
<1>5. guards[id] # "NONE"
  BY <1>1
<1> QED BY <1>1, <1>2, <1>3, <1>4, <1>5, BeginKeeps

LEMMA ExecuteGuardKeeps ==
  ASSUME IInv, NEW id \in GuardIds, ExecuteGuard(id)
  PROVE  IInv'
<1>1. guards[id] # "NONE" /\ Card(id)
  BY DEF ExecuteGuard, Executable, IInv
<1>2. id[1] = run /\ run # 0 /\ id \in (0..MaxRuns) \X (0..NumGuards)
  BY <1>1, GuardIdsAre DEF Card
<1>3. clicks' = clicks /\ clicks \in [GuardIds -> SUBSET {"approve", "reject"}]
  BY DEF ExecuteGuard, IInv, Typed
<1> QED BY <1>1, <1>2, <1>3, BeginKeeps DEF ExecuteGuard

LEMMA ReloadKeeps == IInv /\ Reload => IInv'
<1> SUFFICES ASSUME IInv, Reload PROVE IInv'
  OBVIOUS
<1>1. PICK kept \in SUBSET Open : late' = late \cup kept /\ Cardinality(late') <= MaxLate
  BY DEF Reload
<1>2. /\ pending' = "none" /\ error' = FALSE /\ run' = 0 /\ details' = 0 /\ blank' = FALSE
      /\ guards' = Nothing("NONE") /\ executions' = Nothing("NONE")
      /\ call' = NoCall /\ bare' = FALSE
      /\ UNCHANGED <<service, clicks, stale, withdrawn, cuts>>
  BY DEF Reload
<1>3. \A id \in GuardIds : guards'[id] = "NONE" /\ executions'[id] = "NONE"
  BY <1>2, NothingIs
<1>4. Typed'
  <2>1. guards' \in [GuardIds -> GuardStatus \cup {"NONE"}]
    BY <1>2, NothingIs
  <2>2. executions' \in [GuardIds -> Outcomes \cup {"NONE"}]
    BY <1>2, NothingIs
  <2>3. 0 \in 0..MaxRuns
    BY BoundsAssumption
  <2> QED BY <1>2, <2>1, <2>2, <2>3 DEF IInv, Typed, service
<1>5. LateOK'
  <2>1. kept \subseteq {call} /\ \A r \in kept : Sound(r) /\ r.step \in Served
    BY DEF Open, IInv, CallOK, NoCall, Served
  <2>2. IsFiniteSet(late')
    <3>1. IsFiniteSet({call})
      BY FS_Singleton
    <3>2. IsFiniteSet(kept)
      BY <2>1, <3>1, FS_Subset
    <3> QED BY <1>1, <3>2, FS_Union DEF IInv, LateOK
  <2> QED BY <1>1, <1>2, <2>1, <2>2 DEF IInv, LateOK, Sound
<1>6. CallOK' /\ AnswerOK'
  BY <1>2 DEF CallOK, AnswerOK, NoCall
<1>7. ASSUME NEW id \in GuardIds PROVE Stored(id)' /\ Card(id)'
  <2>1. Stored(id)
    BY DEF IInv
  <2> QED BY <1>2, <1>3, <2>1 DEF Stored, Card, Backed, service, Executable
<1>8. Fresh'
  BY <1>2, <1>3 DEF Fresh
<1>9. WritersOK'
  <2>1. late' \subseteq late \cup {call} /\ call'.step # "writing"
    BY <1>1, <1>2 DEF Open, NoCall
  <2> QED BY <1>2, <2>1, QuietWriters DEF service
<1> QED BY <1>2, <1>4, <1>5, <1>6, <1>7, <1>8, <1>9 DEF IInv

LEMMA UserKeeps == IInv /\ User => IInv'
BY StartAuditKeeps, PreviewGuardsKeeps, DecideGuardKeeps, ExecuteGuardKeeps, ReloadKeeps DEF User

-----------------------------------------------------------------------------
(* The page takes an answer, or gives up. *)

LEMMA SettleKeeps ==
  ASSUME IInv, call' = NoCall, pending' = "none", UNCHANGED <<service, clicks, withdrawn>>,
         Typed', LateOK', late' \subseteq late \cup {call}, details' \in {0, run'},
         run' # 0 /\ details' # run' => bare',
         \A id \in GuardIds : Card(id)',
         \A id \in GuardIds \ stale' : guards'[id] # "NONE" => guards'[id] = status[id]
  PROVE  IInv'
<1>1. CallOK' /\ AnswerOK'
  BY DEF CallOK, AnswerOK, NoCall
<1>2. ASSUME NEW id \in GuardIds PROVE Stored(id)'
  <2>1. Stored(id)
    BY DEF IInv
  <2> QED BY <2>1 DEF Stored, Backed, service
<1>3. Fresh'
  BY DEF Fresh, service
<1>4. WritersOK'
  BY QuietWriters DEF service, NoCall
<1> QED BY <1>1, <1>2, <1>3, <1>4 DEF IInv

(* The page is as before, and every guard whose change it would have been   *)
(* told is stale now.                                                       *)
LEMMA FailKeeps ==
  ASSUME IInv, call # NoCall, NEW touched \in SUBSET GuardIds, Fail(touched), LateOK',
         late' \subseteq late \cup {call},
         \A id \in GuardIds : InFlight(id) => id \in touched
  PROVE  IInv'
<1>1. /\ pending' = "none" /\ error' = TRUE /\ stale' = stale \cup touched
      /\ bare' = (bare \/ call.op = "details") /\ call' = NoCall
      /\ UNCHANGED <<run, details, guards, executions, blank, service, clicks, withdrawn, cuts>>
  BY DEF Fail
<1>2. Typed'
  <2>1. bare' \in BOOLEAN
    BY Zenon, <1>1
  <2>2. stale' \subseteq GuardIds
    BY <1>1 DEF IInv, Typed
  <2> QED BY <1>1, <2>1, <2>2 DEF IInv, Typed, service
<1>3. ASSUME NEW id \in GuardIds PROVE Card(id)'
  <2>1. Card(id)
    BY DEF IInv
  <2> QED BY <1>1, <2>1 DEF Card, Backed, service
<1>4. run' # 0 /\ details' # run' => bare'
  BY <1>1 DEF IInv, Fresh
<1>5. \A id \in GuardIds \ stale' : guards'[id] # "NONE" => guards'[id] = status[id]
  BY <1>1 DEF IInv, Fresh
<1>6. details' \in {0, run'} /\ UNCHANGED <<service, clicks, withdrawn>>
  BY <1>1 DEF IInv
<1> QED BY <1>1, <1>2, <1>3, <1>4, <1>5, <1>6, SettleKeeps

LEMMA CallIs ==
  ASSUME IInv, call # NoCall
  PROVE  /\ Sound(call) /\ call \in RequestType /\ call.op \in Ops
         /\ call.op \in {"project", "incident", "run"} => run = 0
         /\ call.op \notin {"project", "incident", "run"} => call.id[1] = run
         /\ call.op \in OnGuard => call.id \in GuardIds /\ guards[call.id] # "NONE"
BY DEF IInv, CallOK, Sound, RequestType

LEMMA TouchedIs ==
  ASSUME IInv, call # NoCall
  PROVE  /\ Touched(call) \in SUBSET GuardIds
         /\ \A id \in GuardIds : InFlight(id) => id \in Touched(call)
<1>1. Sound(call)
  BY CallIs
<1>2. CASE call.op \in {"preview", "list"}
  <2>1. Touched(call) = Of(call.id[1])
    BY <1>2 DEF Touched
  <2> QED BY <1>2, <2>1 DEF InFlight, Of
<1>3. CASE call.op \in {"approve", "reject", "execute"}
  <2>1. Touched(call) = {call.id}
    BY <1>3 DEF Touched
  <2> QED BY <1>1, <1>3, <2>1 DEF InFlight, Sound, OnGuard
<1>4. CASE call.op \in {"project", "incident", "run", "details"}
  <2>1. Touched(call) = {}
    BY <1>4 DEF Touched
  <2> QED BY <1>4, <2>1 DEF InFlight
<1> QED BY <1>2, <1>3, <1>4, CallIs DEF Ops

LEMMA ReceiveRefusalKeeps == IInv /\ ReceiveRefusal => IInv'
<1> SUFFICES ASSUME IInv, ReceiveRefusal PROVE IInv'
  OBVIOUS
<1> DEFINE touched == IF call.op = "list" THEN {call.id} ELSE {}
<1>1. call.step = "refused" /\ Fail(touched) /\ late' = late
  BY DEF ReceiveRefusal
<1>2. call # NoCall
  BY <1>1 DEF NoCall
<1>3. touched \in SUBSET GuardIds
  BY <1>2, CallIs DEF OnGuard
<1>4. \A id \in GuardIds : InFlight(id) => id \in touched
  BY <1>1 DEF InFlight
<1>5. LateOK'
  BY <1>1 DEF IInv, LateOK, Sound, Fail
<1> HIDE DEF touched
<1> QED BY <1>1, <1>2, <1>3, <1>4, <1>5, FailKeeps

LEMMA ExpireKeeps == IInv /\ Expire => IInv'
<1> SUFFICES ASSUME IInv, Expire PROVE IInv'
  OBVIOUS
<1>1. call # NoCall /\ Fail(Touched(call)) /\ clicks' = clicks
  BY DEF Expire, Fail
<1>2. Sound(call)
  BY <1>1, CallIs
<1>3. LateOK'
  <2>1. CASE late' = late
    BY <1>1, <2>1 DEF IInv, LateOK, Sound
  <2>2. CASE call.step \notin Answered /\ late' = late \cup {call} /\ Cardinality(late') <= MaxLate
    <3>1. IsFiniteSet(late')
      BY <2>2, FS_AddElement DEF IInv, LateOK
    <3>2. call.step \in Served
      BY <1>2, <2>2 DEF Sound, RequestType
    <3> QED BY <1>1, <1>2, <2>2, <3>1, <3>2 DEF IInv, LateOK, Sound
  <2> QED BY <2>1, <2>2 DEF Expire
<1>4. late' \subseteq late \cup {call}
  BY DEF Expire
<1> QED BY <1>1, <1>3, <1>4, TouchedIs, FailKeeps

LEMMA ReceiveCutKeeps == IInv /\ ReceiveCut => IInv'
<1> SUFFICES ASSUME IInv, ReceiveCut PROVE IInv'
  OBVIOUS
<1>1. /\ call.step = "ok" /\ cuts < MaxCuts /\ cuts' = cuts + 1
      /\ pending' = "none" /\ call' = NoCall /\ stale' = stale \cup Touched(call)
      /\ UNCHANGED <<late, service, clicks, withdrawn, bare>>
  BY DEF ReceiveCut, Settle
<1>2. call # NoCall
  BY <1>1 DEF NoCall
<1>3. LateOK'
  BY <1>1 DEF IInv, LateOK, Sound
<1>4. cuts' \in 0..MaxCuts /\ stale' \subseteq GuardIds
  BY <1>1, <1>2, TouchedIs, BoundsAssumption DEF IInv, Typed
<1>5. \A id \in GuardIds \ stale' : guards[id] # "NONE" => guards[id] = status[id]
  BY <1>1, <1>2, TouchedIs DEF IInv, Fresh
<1>6. CASE call.op \in {"project", "incident", "approve", "reject"}
  <2>1. UNCHANGED <<run, details, guards, executions, blank>> /\ error' \in {TRUE, error}
    BY <1>6 DEF ReceiveCut
  <2>2. Typed'
    BY <1>1, <1>4, <2>1 DEF IInv, Typed, service
  <2>3. ASSUME NEW id \in GuardIds PROVE Card(id)'
    <3>1. Card(id)
      BY DEF IInv
    <3> QED BY <1>1, <2>1, <3>1 DEF Card, Backed, service
  <2>4. run' # 0 /\ details' # run' => bare'
    BY <1>1, <1>6, <2>1 DEF IInv, Fresh
  <2> QED BY <1>1, <1>3, <1>5, <2>1, <2>2, <2>3, <2>4, SettleKeeps DEF IInv
<1>7. CASE call.op \notin {"project", "incident", "approve", "reject"}
  <2>1. /\ blank' = TRUE /\ error' = FALSE /\ run' = 0 /\ details' = 0
        /\ guards' = Nothing("NONE") /\ executions' = Nothing("NONE")
    BY <1>7 DEF ReceiveCut
  <2>2. /\ guards' \in [GuardIds -> GuardStatus \cup {"NONE"}]
        /\ executions' \in [GuardIds -> Outcomes \cup {"NONE"}]
        /\ \A id \in GuardIds : guards'[id] = "NONE" /\ executions'[id] = "NONE"
    BY <2>1, NothingIs
  <2>3. Typed'
    <3>1. 0 \in 0..MaxRuns
      BY BoundsAssumption
    <3> QED BY <1>1, <1>4, <2>1, <2>2, <3>1 DEF IInv, Typed, service
  <2>4. \A id \in GuardIds : Card(id)'
    BY <2>2 DEF Card, Backed, Executable
  <2> QED BY <1>1, <1>3, <2>1, <2>2, <2>3, <2>4, SettleKeeps
<1> QED BY <1>6, <1>7

(* The next request of an action. *)
LEMMA RequestType2 ==
  ASSUME NEW op \in Ops, NEW id \in (0..MaxRuns) \X (0..NumGuards)
  PROVE  /\ Request(op, id) \in RequestType /\ Request(op, id) # NoCall
         /\ Request(op, id).op = op /\ Request(op, id).id = id /\ Request(op, id).step = "sent"
BY DEF Request, RequestType, NoCall, Values, Ops, Served

LEMMA TakeRegisteredKeeps ==
  ASSUME IInv, call.step = "ok", TakeRegistered, UNCHANGED <<late, service, history>>
  PROVE  IInv'
<1> DEFINE op == IF call.op = "project" THEN "incident" ELSE "run"
<1>1. /\ call.op \in {"project", "incident"} /\ call' = Request(op, <<0, 0>>) /\ UNCHANGED page
      /\ call # NoCall /\ op \in {"incident", "run"}
  BY DEF TakeRegistered, NoCall
<1>2. /\ call' \in RequestType /\ call' # NoCall /\ call'.op = op /\ call'.step = "sent"
  BY <1>1, RequestType2, GuardIdsAre DEF Ops
<1> HIDE DEF op
<1>3. run = 0 /\ pending # "none"
  BY <1>1, CallIs DEF IInv, CallOK
<1>4. Typed' /\ LateOK'
  BY <1>1 DEF IInv, Typed, LateOK, Sound, page, service, history
<1>5. CallOK' /\ AnswerOK'
  BY <1>1, <1>2, <1>3 DEF CallOK, AnswerOK, Sound, OnGuard, page
<1>6. ASSUME NEW id \in GuardIds PROVE Stored(id)' /\ Card(id)'
  <2>1. Stored(id) /\ Card(id)
    BY DEF IInv
  <2> QED BY <1>1, <2>1 DEF Stored, Card, Backed, page, service, history
<1>7. Fresh'
  BY <1>1, <1>3 DEF IInv, Fresh, InFlight, page, service, history
<1>8. WritersOK'
  BY <1>1, <1>2, QuietWriters DEF service
<1> QED BY <1>1, <1>4, <1>5, <1>6, <1>7, <1>8 DEF IInv, page

LEMMA TakeRunKeeps ==
  ASSUME IInv, call.step = "ok", TakeRun, UNCHANGED <<late, service, history>>
  PROVE  IInv'
<1>1. /\ call.op = "run" /\ run' = call.value /\ call' = Request("details", <<call.value, 0>>)
      /\ UNCHANGED <<pending, error, details, guards, executions, blank>> /\ call # NoCall
  BY DEF TakeRun, NoCall
<1>2. call.value \in Runs /\ call.value \in 0..MaxRuns
  BY <1>1 DEF IInv, AnswerOK, Runs
<1>3. run = 0 /\ pending # "none" /\ details = 0
  BY <1>1, CallIs DEF IInv, CallOK
<1>4. /\ call' \in RequestType /\ call' # NoCall /\ call'.op = "details" /\ call'.step = "sent"
      /\ call'.id[1] = run'
  BY <1>1, <1>2, RequestType2, GuardIdsAre DEF Ops
<1>5. Typed' /\ LateOK'
  BY <1>1, <1>2 DEF IInv, Typed, LateOK, Sound, service, history
<1>6. CallOK' /\ AnswerOK'
  BY <1>1, <1>2, <1>3, <1>4 DEF CallOK, AnswerOK, Sound, OnGuard
<1>7. ASSUME NEW id \in GuardIds PROVE Stored(id)' /\ Card(id)' /\ guards[id] = "NONE"
  <2>1. Stored(id) /\ Card(id) /\ guards[id] = "NONE"
    BY <1>3, GuardIdsAre DEF IInv, Card
  <2> QED BY <1>1, <2>1 DEF Stored, Card, Backed, service, history
<1>8. Fresh'
  BY <1>1, <1>4, <1>7 DEF Fresh
<1>9. WritersOK'
  BY <1>1, <1>4, QuietWriters DEF service
<1> QED BY <1>1, <1>3, <1>5, <1>6, <1>7, <1>8, <1>9 DEF IInv

LEMMA TakeDetailsKeeps ==
  ASSUME IInv, call.step = "ok", TakeDetails, UNCHANGED <<late, service, history>>
  PROVE  IInv'
<1>1. /\ call.op = "details" /\ details' = call.id[1] /\ pending' = "none" /\ call' = NoCall
      /\ UNCHANGED <<error, run, guards, executions, blank>> /\ call # NoCall
  BY DEF TakeDetails, Settle, NoCall
<1>2. details' = run
  BY <1>1, CallIs
<1>3. Typed' /\ LateOK'
  BY <1>1, <1>2 DEF IInv, Typed, LateOK, Sound, service, history
<1>4. ASSUME NEW id \in GuardIds PROVE Card(id)'
  <2>1. Card(id)
    BY DEF IInv
  <2> QED BY <1>1, <2>1 DEF Card, Backed, service, history
<1>5. \A id \in GuardIds \ stale' : guards'[id] # "NONE" => guards'[id] = status[id]
  BY <1>1 DEF IInv, Fresh, InFlight, history
<1>6. UNCHANGED <<service, clicks, withdrawn>>
  BY DEF history
<1> QED BY <1>1, <1>2, <1>3, <1>4, <1>5, <1>6, SettleKeeps

LEMMA TakeGuardsKeeps ==
  ASSUME IInv, call.step = "ok", TakeGuards, UNCHANGED <<late, service, history>>
  PROVE  IInv'
<1>1. /\ call.op \in {"preview", "list"} /\ guards' = call.value /\ pending' = "none"
      /\ call' = NoCall /\ call # NoCall
      /\ UNCHANGED <<error, run, details, executions, blank>>
  BY DEF TakeGuards, Settle, NoCall
<1>2. /\ call.value \in [GuardIds -> GuardStatus \cup {"NONE"}]
      /\ \A id \in GuardIds : Listed(id)
      /\ call.id[1] = run
  BY <1>1, CallIs DEF IInv, AnswerOK
<1>3. Typed' /\ LateOK'
  BY <1>1, <1>2 DEF IInv, Typed, LateOK, Sound, service, history
<1>4. ASSUME NEW id \in GuardIds PROVE Card(id)'
  <2>1. Card(id) /\ Listed(id)
    BY <1>2 DEF IInv
  <2> QED BY <1>1, <1>2, <2>1 DEF Card, Listed, Backed, service, history
<1>5. \A id \in GuardIds \ stale' : guards'[id] # "NONE" => guards'[id] = status[id]
  BY <1>1, <1>2 DEF Listed, history
<1>6. run' # 0 /\ details' # run' => bare'
  BY <1>1 DEF IInv, Fresh, history
<1>7. UNCHANGED <<service, clicks, withdrawn>> /\ details' \in {0, run'}
  BY <1>1 DEF history, IInv
<1> QED BY <1>1, <1>3, <1>4, <1>5, <1>6, <1>7, SettleKeeps

LEMMA TakeDecisionKeeps ==
  ASSUME IInv, call.step = "ok", TakeDecision, UNCHANGED <<late, service, history>>
  PROVE  IInv'
<1>1. /\ call.op \in {"approve", "reject"} /\ pending' = "none" /\ call' = NoCall /\ call # NoCall
      /\ guards' = [guards EXCEPT ![call.id] = IF @ = "NONE" THEN @ ELSE call.value]
      /\ UNCHANGED <<error, run, details, executions, blank>>
  BY DEF TakeDecision, Settle, NoCall
<1>2. /\ call.id \in GuardIds /\ guards[call.id] # "NONE"
      /\ call.value \in GuardStatus /\ call.value # "NONE" /\ Backed(call.value, call.id)
      /\ call.id \notin stale => call.value = status[call.id]
  BY <1>1, CallIs DEF IInv, AnswerOK, OnGuard, GuardStatus, Executable
<1>3. /\ guards' \in [GuardIds -> GuardStatus \cup {"NONE"}]
      /\ \A id \in GuardIds : guards'[id] = IF id = call.id THEN call.value ELSE guards[id]
  BY <1>1, <1>2 DEF IInv, Typed
<1>4. Typed' /\ LateOK'
  BY <1>1, <1>3 DEF IInv, Typed, LateOK, Sound, service, history
<1>5. ASSUME NEW id \in GuardIds PROVE Card(id)'
  <2>1. Card(id)
    BY DEF IInv
  <2> QED BY <1>1, <1>2, <1>3, <2>1 DEF Card, Backed, service, history
<1>6. \A id \in GuardIds \ stale' : guards'[id] # "NONE" => guards'[id] = status[id]
  BY <1>1, <1>2, <1>3 DEF IInv, Fresh, InFlight, history
<1>7. run' # 0 /\ details' # run' => bare'
  BY <1>1 DEF IInv, Fresh, history
<1>8. UNCHANGED <<service, clicks, withdrawn>> /\ details' \in {0, run'}
  BY <1>1 DEF history, IInv
<1> QED BY <1>1, <1>4, <1>5, <1>6, <1>7, <1>8, SettleKeeps

LEMMA TakeExecutionKeeps ==
  ASSUME IInv, call.step = "ok", TakeExecution, UNCHANGED <<late, service, history>>
  PROVE  IInv'
<1>1. /\ call.op = "execute" /\ call' = Request("list", call.id) /\ call # NoCall
      /\ executions' = [executions EXCEPT ![call.id] = call.value]
      /\ UNCHANGED <<pending, error, run, details, guards, blank>>
  BY DEF TakeExecution, NoCall
<1>2. /\ call.id \in GuardIds /\ guards[call.id] # "NONE" /\ call.id[1] = run
      /\ call.value \in Outcomes /\ call.value \in results[call.id]
      /\ pending # "none"
  BY <1>1, CallIs DEF IInv, CallOK, AnswerOK, OnGuard
<1>3. /\ call' \in RequestType /\ call' # NoCall /\ call'.op = "list" /\ call'.id = call.id
      /\ call'.step = "sent"
  BY <1>1, <1>2, RequestType2, GuardIdsAre DEF Ops
<1>4. /\ executions' \in [GuardIds -> Outcomes \cup {"NONE"}]
      /\ \A id \in GuardIds : executions'[id] = IF id = call.id THEN call.value ELSE executions[id]
  BY <1>1, <1>2 DEF IInv, Typed
<1>5. Typed' /\ LateOK'
  BY <1>1, <1>4 DEF IInv, Typed, LateOK, Sound, service, history
<1>6. CallOK' /\ AnswerOK'
  BY <1>1, <1>2, <1>3 DEF CallOK, AnswerOK, Sound, OnGuard
<1>7. ASSUME NEW id \in GuardIds PROVE Stored(id)' /\ Card(id)'
  <2>1. Stored(id) /\ Card(id)
    BY DEF IInv
  <2> QED BY <1>1, <1>2, <1>4, <2>1 DEF Stored, Card, Backed, service, history
<1>8. Fresh'
  BY <1>1, <1>3 DEF IInv, Fresh, InFlight, service, history
<1>9. WritersOK'
  BY <1>1, <1>3, QuietWriters DEF service
<1> QED BY <1>1, <1>5, <1>6, <1>7, <1>8, <1>9 DEF IInv

LEMMA NextKeeps == IInv /\ [Next]_vars => IInv'
<1> SUFFICES ASSUME IInv, [Next]_vars PROVE IInv'
  OBVIOUS
<1>1. CASE Receive
  BY <1>1, TakeRegisteredKeeps, TakeRunKeeps, TakeDetailsKeeps, TakeGuardsKeeps,
     TakeDecisionKeeps, TakeExecutionKeeps DEF Receive
<1>2. CASE UNCHANGED vars
  BY <1>2 DEF vars, page, exchange, service, history, IInv, Typed, LateOK, CallOK, Sound, Stored,
              WritersOK, Unwritten,
              Card, Backed, AnswerOK, Listed, Fresh, InFlight
<1> QED BY <1>1, <1>2, UserKeeps, ReceiveRefusalKeeps, ExpireKeeps, ReceiveCutKeeps, ServeKeeps
        DEF Next, Page

LEMMA Invariance == Spec => []IInv
BY InitHolds, NextKeeps, PTL DEF Spec

-----------------------------------------------------------------------------
(* The theorems *)

(* Every reachable state of the page, its requests and the service has its  *)
(* type (frontend/src/App.tsx, api/client.ts).                              *)
THEOREM TypeCorrect == Spec => []TypeOK
BY ImpliesTypeOK, Invariance, PTL

(* The screen speaks of one run, in whatever order answers, timeouts and    *)
(* audits come (App.tsx:54-90).                                             *)
THEOREM ScreenIsOneRunCorrect == Spec => []ScreenIsOneRun
BY ImpliesScreenIsOneRun, Invariance, PTL

(* Decisions and results on screen are recorded ones, and recorded          *)
(* decisions the user's, whatever requests are given up, repeated or late   *)
(* (App.tsx:106-150, guards/service.py:60-136).                             *)
THEOREM ShownDecisionStandsCorrect == Spec => []ShownDecisionStands
BY ImpliesShownDecisionStands, Invariance, PTL

(* A screen that is not true to the store follows a failed or late request  *)
(* about what it shows, and nothing else (App.tsx:80, 137).                 *)
THEOREM StaleOnlyAfterFailureCorrect == Spec => []StaleOnlyAfterFailure
BY ImpliesStaleOnlyAfterFailure, Invariance, PTL

-----------------------------------------------------------------------------
(***************************************************************************)
(* The safety half of ActionSettles: an action is a chain of requests, and *)
(* whatever happens to one of them leads along the chain or ends it.       *)
(***************************************************************************)

(* The requests that may be left of an action, the one with op included ... *)
Requests(op) == CASE op \in {"list", "preview", "approve", "reject", "details"} -> 1
                  [] op \in {"run", "execute"}                                  -> 2
                  [] op = "incident"                                            -> 3
                  [] op = "project"                                             -> 4

(* ... and the steps of it and of them, three for each. *)
StepsOf(step) == CASE step = "sent"      -> 3
                   [] step \in {"listed", "writing"} -> 2
                   [] step \in Answered  -> 1

Left(c) == IF c = NoCall THEN 0 ELSE 3 * (Requests(c.op) - 1) + StepsOf(c.step)

LEMMA RequestsIs ==
  /\ \A op \in {"list", "preview", "approve", "reject", "details"} : Requests(op) = 1
  /\ \A op \in {"run", "execute"} : Requests(op) = 2
  /\ Requests("incident") = 3 /\ Requests("project") = 4
BY DEF Requests

LEMMA StepsOfIs ==
  /\ StepsOf("sent") = 3 /\ StepsOf("listed") = 2 /\ StepsOf("writing") = 2
  /\ StepsOf("ok") = 1 /\ StepsOf("refused") = 1
BY DEF StepsOf, Answered

(* What is left of an action, by the request it waits for. *)
LEMMA LeftIs ==
  ASSUME NEW c \in RequestType
  PROVE  /\ c # NoCall => Left(c) = 3 * (Requests(c.op) - 1) + StepsOf(c.step)
         /\ Requests(c.op) \in 1..4 /\ StepsOf(c.step) \in 1..3
         /\ Left(c) \in 0..12 /\ (Left(c) = 0 <=> c = NoCall)
<1>1. c.op \in Ops /\ c.step \in {"sent", "listed", "writing", "ok", "refused"}
  BY DEF RequestType, Served, Answered
<1>2. Requests(c.op) \in 1..4 /\ StepsOf(c.step) \in 1..3
  BY <1>1, RequestsIs, StepsOfIs DEF Ops
<1> QED
  BY <1>2 DEF Left

LEMMA NothingLeft == Left(NoCall) = 0
BY DEF Left

(* The service brings the page's own request on, and no other. *)
LEMMA ServeDescends ==
  ASSUME IInv, IInv', Serve, call # NoCall
  PROVE  Left(call') <= Left(call) /\ (call' # call => Left(call') < Left(call))
<1>1. call \in RequestType
  BY CallIs
<1>2. call' = call \/ (/\ call.step \in Served
                       /\ call'.op = call.op /\ call' \in RequestType /\ call' # NoCall
                       /\ StepsOf(call'.step) < StepsOf(call.step))
  <2>1. PICK isLate \in BOOLEAN : \E r \in IF isLate THEN late ELSE Open : Handle(r, isLate)
    BY DEF Serve
  <2>2. CASE isLate
    BY <2>1, <2>2 DEF Handle, Refuse, Register, CreateRun, ListGuards, FindNoGuards, SaveGuards,
       SaveRaises, Reject, Approve, WriteArtifact, RestorePreview, RestoreRaises, Execute, Proceed, Break
  <2>3. CASE ~ isLate
    <3>1. Handle(call, isLate) /\ call.step \in Served
      BY <2>1, <2>3 DEF Open
    <3>2. \/ \E value : call' = Reply(call, value)
          \/ call' = Refused(call)
          \/ call.step = "sent" /\ call' = [call EXCEPT !.step = "listed"]
          \/ call.step = "sent" /\ call' = [call EXCEPT !.step = "writing"]
      BY <2>3, <3>1 DEF Handle, Refuse, Register, CreateRun, ListGuards, FindNoGuards, SaveGuards,
         SaveRaises, Reject, Approve, WriteArtifact, RestorePreview, RestoreRaises, Execute, Proceed,
         Break
    <3>3. /\ call'.op = call.op /\ call'.id = call.id
          /\ call'.step \in {"ok", "refused", "listed", "writing"}
          /\ call'.step \in {"listed", "writing"} => call.step = "sent"
      BY <1>1, <3>2 DEF Reply, Refused, RequestType
    <3>4. call' # NoCall
      BY <1>1, <3>3 DEF NoCall
    <3>5. call' \in RequestType
      BY <3>4 DEF IInv, CallOK, Sound
    <3> QED
      BY <3>1, <3>3, <3>4, <3>5, StepsOfIs DEF Served
  <2> QED
    BY <2>2, <2>3
<1>3. CASE call' = call
  BY <1>1, <1>3, LeftIs
<1>4. CASE call' # call
  BY <1>1, <1>2, <1>4, LeftIs
<1> QED
  BY <1>3, <1>4

(* An answer leads to the next request of the action, or ends it. *)
LEMMA ReceiveDescends ==
  ASSUME IInv, IInv', Receive
  PROVE  Left(call') < Left(call)
<1>1. call.step = "ok" /\ call # NoCall
  BY DEF Receive, NoCall
<1>2. call \in RequestType /\ Left(call) = 3 * (Requests(call.op) - 1) + 1 /\ Left(call) \in Nat
  BY <1>1, CallIs, LeftIs, StepsOfIs
<1>3. \/ call' = NoCall
      \/ call.op = "project" /\ \E id : call' = Request("incident", id)
      \/ call.op = "incident" /\ \E id : call' = Request("run", id)
      \/ call.op = "run" /\ \E id : call' = Request("details", id)
      \/ call.op = "execute" /\ \E id : call' = Request("list", id)
  BY DEF Receive, TakeRegistered, TakeRun, TakeDetails, TakeGuards, TakeDecision, TakeExecution,
     Settle
<1>4. CASE call' = NoCall
  BY <1>1, <1>2, <1>4, NothingLeft, LeftIs
<1>5. CASE call' # NoCall
  <2>1. call' \in RequestType
    BY <1>5 DEF IInv, CallOK, Sound
  <2>2. Left(call') = 3 * (Requests(call'.op) - 1) + StepsOf(call'.step)
    BY <1>5, <2>1, LeftIs
  <2>3. call'.step = "sent" /\ Requests(call'.op) = Requests(call.op) - 1
    BY <1>3, <1>5, RequestsIs DEF Request
  <2>4. Requests(call.op) \in 1..4
    BY <1>2, LeftIs
  <2> QED
    BY <1>2, <2>2, <2>3, <2>4, StepsOfIs
<1> QED
  BY <1>4, <1>5

(* While an action is pending nothing takes it back to an earlier request,   *)
(* and every answer, refusal, timeout or lost body brings it on: an action   *)
(* is over after at most four requests (App.tsx:54-150, api/client.ts).      *)
THEOREM ActionAdvances ==
  Spec => /\ [](Left(call) \in 0..12 /\ (pending = "none" <=> Left(call) = 0))
          /\ [][pending # "none" =>
                  /\ Left(call') <= Left(call)
                  /\ Page \/ ReceiveCut => Left(call') < Left(call)]_vars
<1> DEFINE Counted == Left(call) \in 0..12 /\ (pending = "none" <=> Left(call) = 0)
           Advances == pending # "none" =>
                         /\ Left(call') <= Left(call)
                         /\ Page \/ ReceiveCut => Left(call') < Left(call)
<1>1. ASSUME IInv PROVE Counted
  <2>1. CASE call = NoCall
    BY <1>1, <2>1, NothingLeft DEF IInv, CallOK
  <2>2. CASE call # NoCall
    BY <1>1, <2>2, LeftIs, CallIs DEF IInv, CallOK
  <2> QED
    BY <2>1, <2>2
<1>2. ASSUME IInv, IInv', [Next]_vars, pending # "none"
      PROVE  /\ Left(call') <= Left(call)
             /\ Page \/ ReceiveCut => Left(call') < Left(call)
  <2>1. call # NoCall
    BY <1>2 DEF IInv, CallOK
  <2>2. Left(call) \in 1..12
    BY <1>2, <2>1, LeftIs, CallIs
  <2>3. CASE User \/ ReceiveRefusal \/ Expire \/ ReceiveCut
    <3>1. call' = NoCall
      BY <1>2, <2>3 DEF User, StartAudit, PreviewGuards, DecideGuard, ExecuteGuard, Begin, Reload,
         ReceiveRefusal, Expire, Fail, ReceiveCut, Settle
    <3> QED
      BY <2>2, <3>1, NothingLeft
  <2>4. CASE Receive
    <3>1. Left(call') < Left(call)
      BY <1>2, <2>4, ReceiveDescends
    <3>2. Left(call') \in 0..12
      <4>1. CASE call' = NoCall
        BY <4>1, NothingLeft
      <4>2. CASE call' # NoCall
        BY <1>2, <4>2, LeftIs DEF IInv, CallOK, Sound
      <4> QED
        BY <4>1, <4>2
    <3> QED
      BY <2>2, <3>1, <3>2
  <2>5. CASE ~ (Page \/ ReceiveCut \/ User)
    <3>1. CASE Serve
      BY <1>2, <2>1, <2>5, <3>1, ServeDescends
    <3>2. CASE UNCHANGED vars
      BY <2>2, <2>5, <3>2 DEF vars, exchange
    <3> QED
      BY <1>2, <2>5, <3>1, <3>2 DEF Next
  <2> QED
    BY <2>3, <2>4, <2>5 DEF Page
<1>3. IInv => Counted
  BY <1>1
<1>4. IInv /\ IInv' /\ [Next]_vars => [Advances]_vars
  BY <1>2
<1> QED
  BY <1>3, <1>4, Invariance, NextKeeps, PTL DEF Spec
=============================================================================
