----------------------- MODULE IncidentBudget_proofs -----------------------
(***************************************************************************)
(* Proofs about IncidentBudget: the cap on provider calls, for any number  *)
(* of threads, servers, settings and projects.                             *)
(***************************************************************************)
EXTENDS IncidentBudget, FiniteSetTheorems, TLAPS

(* The steps of the two services, one disjunct each. *)
LEMMA StepCases ==
  ASSUME Next
  PROVE  \/ \E w \in Workers :
              \/ \E project \in Projects : RequestIncident(w, project)
              \/ LookupIncident(w) \/ SaveBase(w) \/ Reserve(w)
              \/ Extract(w) \/ SaveActions(w)
              \/ RequestCall(w) \/ LoadRun(w) \/ ChargeRun(w)
              \/ RecordCharge(w) \/ CallProvider(w)
         \/ RegisterRun \/ PersistInvariants \/ Crash
BY DEF Next, Create, Generate

(* The limit a reservation takes is at most each of the three it considers. *)
LEMMA LeastOfThree ==
  ASSUME NEW a \in Nat, NEW b \in Nat, NEW c \in Nat
  PROVE  /\ Least({a, b, c}) \in {a, b, c}
         /\ Least({a, b, c}) <= a /\ Least({a, b, c}) <= b /\ Least({a, b, c}) <= c
<1>1. \E n \in {a, b, c} : \A m \in {a, b, c} : n <= m
  <2>1. CASE a <= b /\ a <= c
    BY <2>1
  <2>2. CASE b <= a /\ b <= c
    BY <2>2
  <2>3. CASE c <= a /\ c <= b
    BY <2>3
  <2> QED
    BY <2>1, <2>2, <2>3
<1>2. /\ Least({a, b, c}) \in {a, b, c}
      /\ \A m \in {a, b, c} : Least({a, b, c}) <= m
  BY <1>1 DEF Least
<1> QED
  BY <1>2

(* The cardinality of the slots used is at most the counter. *)
LEMMA SlotsCount ==
  ASSUME NEW n \in Nat, NEW S, S \subseteq 1..n
  PROVE  IsFiniteSet(S) /\ Cardinality(S) \in Nat /\ Cardinality(S) <= n
<1>1. IsFiniteSet(1..n) /\ Cardinality(1..n) = n
  BY FS_Interval
<1> QED
  BY <1>1, FS_Subset, FS_CardinalityType

-----------------------------------------------------------------------------
(* Every row and thread keeps a value of its kind. *)
LEMMA InitType == Init => TypeOK
<1> SUFFICES ASSUME Init PROVE TypeOK
  OBVIOUS
<1>1. MaxModelCallsPerIncident \in Slots /\ 0 \in 0..MaxModelCallsPerIncident
  BY LimitAssumption DEF Slots
<1>2. snap \in [Workers -> [actions : SUBSET Actions, pinned : SUBSET Actions,
                            limit : Slots]]
  BY <1>1 DEF Init
<1> QED
  BY <1>1, <1>2 DEF Init, TypeOK

LEMMA ChargeType ==
  ASSUME TypeOK, NEW w \in Workers, NEW l \in Slots, Charge(w, l)
  PROVE  /\ used' \in 0..MaxModelCallsPerIncident /\ limit' \in Slots
         /\ slot' \in [Workers -> 0..MaxModelCallsPerIncident]
         /\ used' = used + 1 /\ used' <= limit' /\ limit' <= limit
         /\ slot' = [slot EXCEPT ![w] = used']
<1>1. /\ limit \in Nat /\ l \in Nat /\ MaxModelCallsPerIncident \in Nat
      /\ limit \in Slots /\ used \in Nat
  BY LimitAssumption DEF TypeOK, Slots
<1>2. Effective(l) \in Slots /\ Effective(l) <= limit
  <2>1. MaxModelCallsPerIncident \in Slots
    BY LimitAssumption DEF Slots
  <2> QED
    BY <1>1, <2>1, LeastOfThree DEF Effective
<1> QED
  BY <1>1, <1>2, LimitAssumption DEF Charge, TypeOK, Slots

LEMMA RefuseType == ASSUME TypeOK, NEW w \in Workers, Refuse(w) PROVE TypeOK'
BY DEF Refuse, Goto, TypeOK, incidentRows, counter, runRows, history

LEMMA InvokeType ==
  ASSUME TypeOK, NEW w \in Workers, Invoke(w)
  PROVE  called' \subseteq 0..MaxModelCallsPerIncident /\ calls' \in Nat
<1>1. slot[w] \in 0..MaxModelCallsPerIncident
  BY DEF TypeOK
<1>2. called \subseteq 0..MaxModelCallsPerIncident /\ calls \in Nat
  BY DEF TypeOK
<1>3. called' = called \cup {slot[w]} /\ calls' = calls + 1
  BY DEF Invoke
<1>4. calls' \in Nat
  BY <1>2, <1>3
<1>5. ASSUME NEW S, called \subseteq S, slot[w] \in S PROVE called' \subseteq S
  BY <1>3, <1>5
<1> QED
  BY <1>1, <1>2, <1>4, <1>5

LEMMA NextType == TypeOK /\ [Next]_vars => TypeOK'
<1> SUFFICES ASSUME TypeOK, [Next]_vars PROVE TypeOK'
  OBVIOUS
<1> USE DEF incidentRows, counter, runRows, threads, history
<1>1. ASSUME NEW w \in Workers, NEW project \in Projects, RequestIncident(w, project)
      PROVE  TypeOK'
  BY <1>1 DEF RequestIncident, Goto, TypeOK, Creating
<1>2. ASSUME NEW w \in Workers, LookupIncident(w) PROVE TypeOK'
  BY <1>2 DEF LookupIncident, Goto, TypeOK, Creating
<1>3. ASSUME NEW w \in Workers, SaveBase(w) PROVE TypeOK'
  <2>1. CASE SaveIncident(req[w], {}) /\ Goto(w, "reserve")
             /\ UNCHANGED <<counter, runRows, req, slot, snap, history>>
    BY <2>1 DEF SaveIncident, Goto, TypeOK, Creating
  <2> QED
    BY <1>3, <2>1, RefuseType DEF SaveBase
<1>4. ASSUME NEW w \in Workers, Reserve(w) PROVE TypeOK'
  <2>1. CASE Charge(w, ServiceLimit[w]) /\ Goto(w, "extract")
             /\ UNCHANGED <<incidentRows, runRows, req, snap, history>>
    <3>1. ServiceLimit[w] \in Slots
      BY LimitAssumption DEF Slots
    <3> QED
      BY <2>1, <3>1, ChargeType DEF Goto, TypeOK, Creating
  <2>2. CASE Refuse(w)
    BY <2>2 DEF Refuse, Goto, TypeOK
  <2> QED
    BY <1>4, <2>1, <2>2 DEF Reserve
<1>5. ASSUME NEW w \in Workers, Extract(w) PROVE TypeOK'
  <2>1. PICK to \in {"save", "idle"} : Goto(w, to)
    BY <1>5 DEF Extract
  <2>2. pc' \in [Workers -> {"idle"} \cup Creating \cup Calling]
    BY <2>1 DEF Goto, TypeOK, Creating
  <2> QED
    BY <1>5, <2>2, InvokeType DEF Extract, TypeOK
<1>6. ASSUME NEW w \in Workers, SaveActions(w) PROVE TypeOK'
  <2>1. CASE SaveIncident(req[w], Actions) /\ Goto(w, "idle")
             /\ UNCHANGED <<counter, runRows, req, slot, snap, history>>
    BY <2>1 DEF SaveIncident, Goto, TypeOK
  <2> QED
    BY <1>6, <2>1, RefuseType DEF SaveActions
<1>7. ASSUME NEW w \in Workers, RequestCall(w) PROVE TypeOK'
  BY <1>7 DEF RequestCall, Goto, TypeOK, Calling
<1>8. ASSUME NEW w \in Workers, LoadRun(w) PROVE TypeOK'
  BY <1>8 DEF LoadRun, Goto, TypeOK, Calling
<1>9. ASSUME NEW w \in Workers, ChargeRun(w) PROVE TypeOK'
  <2>1. CASE Charge(w, snap[w].limit) /\ Goto(w, "record")
             /\ UNCHANGED <<incidentRows, runRows, req, snap, history>>
    <3>1. snap[w].limit \in Slots
      BY DEF TypeOK
    <3> QED
      BY <2>1, <3>1, ChargeType DEF Goto, TypeOK, Calling
  <2>2. CASE Refuse(w)
    BY <2>2 DEF Refuse, Goto, TypeOK
  <2> QED
    BY <1>9, <2>1, <2>2 DEF ChargeRun
<1>10. ASSUME NEW w \in Workers, RecordCharge(w) PROVE TypeOK'
  <2>1. CASE pinned' = snap[w].pinned /\ Goto(w, "call")
             /\ UNCHANGED <<incidentRows, counter, audited, req, slot, snap, history>>
    BY <2>1 DEF Goto, TypeOK, Calling
  <2> QED
    BY <1>10, <2>1, RefuseType DEF RecordCharge
<1>11. ASSUME NEW w \in Workers, CallProvider(w) PROVE TypeOK'
  <2>1. pc' \in [Workers -> {"idle"} \cup Creating \cup Calling]
    BY <1>11 DEF CallProvider, Goto, TypeOK
  <2> QED
    BY <1>11, <2>1, InvokeType DEF CallProvider, TypeOK
<1>12. CASE RegisterRun
  BY <1>12 DEF RegisterRun, TypeOK
<1>13. CASE PersistInvariants
  BY <1>13 DEF PersistInvariants, TypeOK
<1>14. CASE Crash
  BY <1>14 DEF Crash, TypeOK
<1>15. CASE UNCHANGED vars
  BY <1>15 DEF vars, TypeOK
<1> QED
  BY <1>1, <1>2, <1>3, <1>4, <1>5, <1>6, <1>7, <1>8, <1>9, <1>10, <1>11, <1>12,
     <1>13, <1>14, <1>15, StepCases

(* The incident, its counter and the threads have their types in every      *)
(* reachable state of IncidentService and the gateway.                      *)
THEOREM TypeCorrect == Spec => []TypeOK
BY InitType, NextType, PTL DEF Spec

-----------------------------------------------------------------------------
(***************************************************************************)
(* A successful reservation returns a number, the counter after it, that   *)
(* no other reservation ever returns: the counter only grows and is read   *)
(* and written in one immediate transaction.  A request holds its number   *)
(* until it calls the provider, which is why calls can be counted by       *)
(* numbers and stay below the counter.                                     *)
(***************************************************************************)
Charged(w) == pc[w] \in {"extract", "record", "call"}

SlotsAreFresh ==
  \A w \in Workers : Charged(w) => slot[w] \in 1..used /\ slot[w] \notin called

SlotsDiffer ==
  \A w, v \in Workers : Charged(w) /\ Charged(v) /\ slot[w] = slot[v] => w = v

CallInv == /\ TypeOK
           /\ SlotsAreFresh
           /\ SlotsDiffer
           /\ CallsCharged
           /\ used <= limit

LEMMA InitCall == Init => CallInv
<1> SUFFICES ASSUME Init PROVE CallInv
  OBVIOUS
<1>1. TypeOK /\ Cardinality({}) = 0
  BY InitType, FS_EmptySet
<1> QED
  BY <1>1, LimitAssumption DEF Init, CallInv, SlotsAreFresh, SlotsDiffer, CallsCharged, Charged

(* A thread that moves, keeps its number and becomes no newly charged one  *)
(* disturbs nothing.                                                       *)
LEMMA MoveKeeps ==
  ASSUME CallInv, NEW w \in Workers, NEW to, Goto(w, to),
         to \in {"extract", "record", "call"} => Charged(w),
         UNCHANGED <<used, limit, slot, called, calls>>
  PROVE  SlotsAreFresh' /\ SlotsDiffer' /\ CallsCharged' /\ (used <= limit)'
<1>1. pc' = [pc EXCEPT ![w] = to] /\ pc \in [Workers -> {"idle"} \cup Creating \cup Calling]
  BY DEF Goto, CallInv, TypeOK
<1>2. \A v \in Workers : Charged(v)' => Charged(v)
  BY <1>1 DEF Charged
<1> QED
  BY <1>2 DEF CallInv, SlotsAreFresh, SlotsDiffer, CallsCharged

LEMMA ChargeKeeps ==
  ASSUME CallInv, NEW w \in Workers, NEW l \in Slots, Charge(w, l),
         NEW to, Goto(w, to), UNCHANGED <<called, calls>>
  PROVE  SlotsAreFresh' /\ SlotsDiffer' /\ CallsCharged' /\ (used <= limit)'
<1>1. /\ used \in Nat /\ used' = used + 1 /\ used' <= limit'
      /\ slot' = [slot EXCEPT ![w] = used'] /\ used' \notin 1..used
      /\ slot \in [Workers -> 0..MaxModelCallsPerIncident]
      /\ pc' = [pc EXCEPT ![w] = to]
      /\ pc \in [Workers -> {"idle"} \cup Creating \cup Calling]
  BY ChargeType DEF CallInv, TypeOK, Goto
<1>2. \A v \in Workers \ {w} : slot'[v] = slot[v] /\ (Charged(v)' <=> Charged(v))
  BY <1>1 DEF Charged
<1>3. slot'[w] = used' /\ used' \in 1..used' /\ used' \notin called
  BY <1>1 DEF CallInv, CallsCharged
<1>4. \A n \in 1..used : n \in 1..used' /\ n # used'
  BY <1>1
<1>5. SlotsAreFresh'
  BY <1>2, <1>3, <1>4 DEF CallInv, SlotsAreFresh
<1>6. SlotsDiffer'
  BY <1>2, <1>3, <1>4 DEF CallInv, SlotsAreFresh, SlotsDiffer
<1> QED
  BY <1>1, <1>4, <1>5, <1>6 DEF CallInv, CallsCharged

LEMMA InvokeKeeps ==
  ASSUME CallInv, NEW w \in Workers, Charged(w), Invoke(w),
         NEW to, to \notin {"extract", "record", "call"}, Goto(w, to),
         UNCHANGED <<used, limit, slot>>
  PROVE  SlotsAreFresh' /\ SlotsDiffer' /\ CallsCharged' /\ (used <= limit)'
<1>1. pc' = [pc EXCEPT ![w] = to] /\ pc \in [Workers -> {"idle"} \cup Creating \cup Calling]
  BY DEF Goto, CallInv, TypeOK
<1>2. \A v \in Workers : Charged(v)' => Charged(v) /\ v # w
  BY <1>1 DEF Charged
<1>3. called' = called \cup {slot[w]} /\ calls' = calls + 1
  BY DEF Invoke
<1>4. slot[w] \in 1..used /\ slot[w] \notin called
  BY DEF CallInv, SlotsAreFresh
<1>5. \A v \in Workers : Charged(v)' => slot[v] # slot[w]
  BY <1>2 DEF CallInv, SlotsDiffer
<1>6. Cardinality(called \cup {slot[w]}) = Cardinality(called) + 1
  <2>1. used \in Nat /\ called \subseteq 1..used
    BY DEF CallInv, CallsCharged, TypeOK
  <2>2. IsFiniteSet(called)
    BY <2>1, SlotsCount
  <2> QED
    BY <1>4, <2>2, FS_AddElement
<1> QED
  BY <1>2, <1>3, <1>4, <1>5, <1>6 DEF CallInv, SlotsAreFresh, SlotsDiffer, CallsCharged

LEMMA NextCall == CallInv /\ [Next]_vars => CallInv'
<1> SUFFICES ASSUME CallInv, [Next]_vars PROVE CallInv'
  OBVIOUS
<1>T. TypeOK /\ TypeOK'
  BY NextType DEF CallInv
<1> DEFINE Parts == SlotsAreFresh /\ SlotsDiffer /\ CallsCharged /\ used <= limit
<1> SUFFICES Parts'
  BY <1>T DEF CallInv
<1> USE DEF counter, history
<1>1. ASSUME NEW w \in Workers, NEW project \in Projects, RequestIncident(w, project)
      PROVE  Parts'
  BY <1>1, MoveKeeps DEF RequestIncident
<1>2. ASSUME NEW w \in Workers, LookupIncident(w) PROVE Parts'
  BY <1>2, MoveKeeps DEF LookupIncident
<1>3. ASSUME NEW w \in Workers, SaveBase(w) PROVE Parts'
  BY <1>3, MoveKeeps DEF SaveBase, Refuse
<1>4. ASSUME NEW w \in Workers, Reserve(w) PROVE Parts'
  <2>1. ServiceLimit[w] \in Slots
    BY LimitAssumption DEF Slots
  <2>2. CASE Charge(w, ServiceLimit[w]) /\ Goto(w, "extract") /\ UNCHANGED history
    BY <2>1, <2>2, ChargeKeeps
  <2>3. CASE Refuse(w)
    BY <2>3, MoveKeeps DEF Refuse
  <2> QED
    BY <1>4, <2>2, <2>3 DEF Reserve
<1>5. ASSUME NEW w \in Workers, Extract(w) PROVE Parts'
  BY <1>5, InvokeKeeps DEF Extract, Charged
<1>6. ASSUME NEW w \in Workers, SaveActions(w) PROVE Parts'
  BY <1>6, MoveKeeps DEF SaveActions, Refuse
<1>7. ASSUME NEW w \in Workers, RequestCall(w) PROVE Parts'
  BY <1>7, MoveKeeps DEF RequestCall
<1>8. ASSUME NEW w \in Workers, LoadRun(w) PROVE Parts'
  BY <1>8, MoveKeeps DEF LoadRun
<1>9. ASSUME NEW w \in Workers, ChargeRun(w) PROVE Parts'
  <2>1. snap[w].limit \in Slots
    BY <1>T DEF TypeOK
  <2>2. CASE Charge(w, snap[w].limit) /\ Goto(w, "record") /\ UNCHANGED history
    BY <2>1, <2>2, ChargeKeeps
  <2>3. CASE Refuse(w)
    BY <2>3, MoveKeeps DEF Refuse
  <2> QED
    BY <1>9, <2>2, <2>3 DEF ChargeRun
<1>10. ASSUME NEW w \in Workers, RecordCharge(w) PROVE Parts'
  BY <1>10, MoveKeeps DEF RecordCharge, Refuse, Charged
<1>11. ASSUME NEW w \in Workers, CallProvider(w) PROVE Parts'
  BY <1>11, InvokeKeeps DEF CallProvider, Charged
<1>12. CASE RegisterRun \/ PersistInvariants \/ UNCHANGED vars
  BY <1>12 DEF RegisterRun, PersistInvariants, vars, threads, CallInv,
     SlotsAreFresh, SlotsDiffer, CallsCharged, Charged
<1>13. CASE Crash
  BY <1>13 DEF Crash, CallInv, SlotsAreFresh, SlotsDiffer, CallsCharged, Charged
<1> HIDE DEF Parts
<1> QED
  BY <1>1, <1>2, <1>3, <1>4, <1>5, <1>6, <1>7, <1>8, <1>9, <1>10, <1>11, <1>12,
     <1>13, StepCases

(* Slots handed out by reserve_incident_model_call are never reused. *)
THEOREM CallInvCorrect == Spec => []CallInv
BY InitCall, NextCall, PTL DEF Spec

(* Every provider call used a charge of its own. *)
THEOREM CallsChargedCorrect == Spec => []CallsCharged
<1>1. CallInv => CallsCharged
  BY DEF CallInv
<1> QED
  BY <1>1, CallInvCorrect, PTL

(* At most the cap of calls is ever made for an incident, and at most the  *)
(* strictest limit it was charged under.                                   *)
THEOREM CapHoldsCorrect == Spec => []CapHolds
<1>1. CallInv => CapHolds
  <2> SUFFICES ASSUME CallInv PROVE CapHolds
    OBVIOUS
  <2>1. used \in Nat /\ limit \in Nat /\ limit <= MaxModelCallsPerIncident /\ used <= limit
    BY LimitAssumption DEF CallInv, TypeOK, Slots
  <2>2. Cardinality(called) \in Nat /\ Cardinality(called) <= used
    BY <2>1, SlotsCount DEF CallInv, CallsCharged
  <2> QED
    BY <2>1, <2>2 DEF CallInv, CallsCharged, CapHolds
<1> QED
  BY <1>1, CallInvCorrect, PTL

-----------------------------------------------------------------------------
(* The rows of an audit reference actions that exist, also those a gateway *)
(* loaded and will write back; and an audited incident exists.             *)
ReferencesHold == /\ pinned \subseteq actions
                  /\ audited => owner # NoOwner
                  /\ \A w \in Workers : snap[w].pinned \subseteq snap[w].actions

LEMMA InitReferences == Init => ReferencesHold
BY DEF Init, ReferencesHold

LEMMA StepReferences ==
  ASSUME TypeOK, ReferencesHold, [Next]_vars
  PROVE  ReferencesHold' /\ (audited => owner' = owner /\ pinned \subseteq actions')
<1> USE DEF incidentRows, counter, runRows, threads, history
<1>1. ASSUME NEW w \in Workers, Refuse(w)
      PROVE  ReferencesHold' /\ (audited => owner' = owner /\ pinned \subseteq actions')
  BY <1>1 DEF Refuse, ReferencesHold
<1>2. ASSUME NEW w \in Workers, NEW items, CanSave(req[w], items), SaveIncident(req[w], items),
             UNCHANGED <<counter, runRows, req, slot, snap, history>>
      PROVE  ReferencesHold' /\ (audited => owner' = owner /\ pinned \subseteq actions')
  BY <1>2 DEF CanSave, SaveIncident, ReferencesHold
<1>3. ASSUME NEW w \in Workers, SaveBase(w) \/ SaveActions(w)
      PROVE  ReferencesHold' /\ (audited => owner' = owner /\ pinned \subseteq actions')
  BY <1>1, <1>2, <1>3 DEF SaveBase, SaveActions
<1>4. ASSUME NEW w \in Workers, LoadRun(w)
      PROVE  ReferencesHold' /\ (audited => owner' = owner /\ pinned \subseteq actions')
  BY <1>4 DEF LoadRun, ReferencesHold, TypeOK
<1>5. ASSUME NEW w \in Workers, RecordCharge(w)
      PROVE  ReferencesHold' /\ (audited => owner' = owner /\ pinned \subseteq actions')
  <2>1. CASE snap[w].actions = actions /\ pinned' = snap[w].pinned
             /\ UNCHANGED <<incidentRows, audited, snap>>
    BY <2>1 DEF ReferencesHold
  <2> QED
    BY <1>1, <1>5, <2>1 DEF RecordCharge
<1>6. ASSUME NEW w \in Workers,
             \/ \E project \in Projects : RequestIncident(w, project)
             \/ LookupIncident(w) \/ Reserve(w) \/ Extract(w)
             \/ RequestCall(w) \/ ChargeRun(w) \/ CallProvider(w)
      PROVE  ReferencesHold' /\ (audited => owner' = owner /\ pinned \subseteq actions')
  <2>1. UNCHANGED <<incidentRows, audited, pinned, snap>>
    BY <1>6 DEF RequestIncident, LookupIncident, Reserve, Extract, RequestCall, ChargeRun,
       CallProvider, Refuse
  <2> QED
    BY <2>1 DEF ReferencesHold
<1>7. CASE RegisterRun \/ PersistInvariants \/ Crash \/ UNCHANGED vars
  BY <1>7 DEF RegisterRun, PersistInvariants, Crash, vars, ReferencesHold
<1> QED
  BY <1>3, <1>4, <1>5, <1>6, <1>7, StepCases

(* No request of any number of threads re-owns an audited incident or       *)
(* deletes an action its audit speaks about.                                *)
THEOREM AuditKeepsIncidentCorrect == Spec => AuditKeepsIncident
<1>1. TypeOK /\ ReferencesHold /\ [Next]_vars => ReferencesHold'
  BY StepReferences
<1>2. TypeOK /\ ReferencesHold /\ [Next]_vars
        => [audited => owner' = owner /\ pinned \subseteq actions']_vars
  BY StepReferences
<1> QED
  BY <1>1, <1>2, InitReferences, TypeCorrect, PTL DEF Spec, AuditKeepsIncident

-----------------------------------------------------------------------------
(* The counter only moves in a reservation, which raises what was used and  *)
(* takes a minimum with the stored limit.                                   *)
LEMMA StepTightens == TypeOK /\ [Next]_vars => used' >= used /\ limit' <= limit
<1> SUFFICES ASSUME TypeOK, [Next]_vars PROVE used' >= used /\ limit' <= limit
  OBVIOUS
<1> USE DEF counter
<1>T. used \in Nat /\ limit \in Nat
  BY LimitAssumption DEF TypeOK, Slots
<1>1. ASSUME NEW w \in Workers, NEW l \in Slots, Charge(w, l)
      PROVE  used' >= used /\ limit' <= limit
  BY <1>T, <1>1, ChargeType
<1>2. ASSUME NEW w \in Workers, Reserve(w) PROVE used' >= used /\ limit' <= limit
  <2>1. ServiceLimit[w] \in Slots
    BY LimitAssumption DEF Slots
  <2> QED
    BY <1>T, <1>1, <1>2, <2>1 DEF Reserve, Refuse
<1>3. ASSUME NEW w \in Workers, ChargeRun(w) PROVE used' >= used /\ limit' <= limit
  <2>1. snap[w].limit \in Slots
    BY DEF TypeOK
  <2> QED
    BY <1>T, <1>1, <1>3, <2>1 DEF ChargeRun, Refuse
<1>4. ASSUME NEW w \in Workers,
             \/ \E project \in Projects : RequestIncident(w, project)
             \/ LookupIncident(w) \/ SaveBase(w) \/ Extract(w) \/ SaveActions(w)
             \/ RequestCall(w) \/ LoadRun(w) \/ RecordCharge(w) \/ CallProvider(w)
      PROVE  used' >= used /\ limit' <= limit
  <2>1. UNCHANGED counter
    BY <1>4 DEF RequestIncident, LookupIncident, SaveBase, Extract, SaveActions, RequestCall,
       LoadRun, RecordCharge, CallProvider, Refuse
  <2> QED
    BY <1>T, <2>1
<1>5. CASE RegisterRun \/ PersistInvariants \/ Crash \/ UNCHANGED vars
  BY <1>T, <1>5 DEF RegisterRun, PersistInvariants, Crash, vars
<1> QED
  BY <1>2, <1>3, <1>4, <1>5, StepCases

(* Neither a resubmission, nor a server with a higher setting, nor the      *)
(* gateway's copy of the budget gives a call back or widens the limit.      *)
THEOREM BudgetOnlyTightensCorrect == Spec => BudgetOnlyTightens
<1>1. TypeOK /\ [Next]_vars => [used' >= used /\ limit' <= limit]_vars
  BY StepTightens
<1> QED
  BY <1>1, TypeCorrect, PTL DEF Spec, BudgetOnlyTightens
============================================================================
