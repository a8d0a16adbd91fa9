----------------------- MODULE GeneratedGuard_proofs -----------------------
(***************************************************************************)
(* Proofs about the assessment of an action and the guard derived from it, *)
(* for every set of terms, every repository and any number of changes to   *)
(* it during the audit.                                                    *)
(***************************************************************************)
EXTENDS GeneratedGuard, TLAPS

guardedVars == <<vars, guard>>

SpecType == [type : {"RUNTIME_CONTEXT", "CONFIGURATION_VALUE", "TEST_PROTECTION",
                     "STATIC_CODE", "UNSUPPORTED"},
             core : BOOLEAN]

-----------------------------------------------------------------------------
(* What each check returns for a repository. *)

LEMMA FilesType ==
  ASSUME NEW f \in Files
  PROVE  /\ f.kind \in {"python", "config", "test", "document"}
         /\ f.readable \in BOOLEAN /\ f.asserts \in BOOLEAN
         /\ f.values \subseteq {"good", "bad"} /\ f.terms \subseteq Terms
         /\ f.asserts => f.readable
         /\ f.kind = "document" => f.readable
BY DEF Files, File

LEMMA ConfigurationFacts ==
  ASSUME NEW files \in SUBSET Files, NEW x, x = Configuration(files)
  PROVE  /\ x.outcome \in {"PASSED", "FAILED", "NOT_FOUND", "ERROR"}
         /\ x.evidence \subseteq Evidence
         /\ \A e \in x.evidence : e.kind # "TEST" /\ e.role # "SUPPORTING_ONLY"
         /\ x.outcome = "PASSED" =>
              /\ \A f \in files : f.readable \/ f.kind = "config"
              /\ \A f \in files : "bad" \notin f.values
              /\ \E e \in x.evidence : e.role = "SUPPORTING" /\ e.kind \in {"CODE", "CONFIGURATION"}
         /\ x.outcome = "ERROR" => x.evidence = {} /\ \E f \in files : ~ f.readable
         /\ x.outcome # "FAILED" => \A e \in x.evidence : e.role # "CONTRADICTORY"
<1> DEFINE python == {f \in files : f.kind \in {"python", "test"}}
           Seen(value, role) == {EvidenceOf(KindOf(f), role) : f \in {g \in files : value \in g.values}}
           good == Seen("good", "SUPPORTING")
           bad == Seen("bad", "CONTRADICTORY")
           found == CASE good \cup bad = {} -> Execution("NOT_FOUND", {Missing})
                      [] bad # {}           -> Execution("FAILED", good \cup bad)
                      [] OTHER              -> Execution("PASSED", good)
<1>1. x = IF \A f \in python : f.readable THEN found ELSE Execution("ERROR", {})
  BY DEF Configuration, Decoded
<1>2. \A e \in good : e.role = "SUPPORTING" /\ e.kind \in {"CODE", "CONFIGURATION"} /\ e \in Evidence
  BY DEF EvidenceOf, KindOf, Evidence
<1>3. \A e \in bad : e.role = "CONTRADICTORY" /\ e.kind \in {"CODE", "CONFIGURATION"} /\ e \in Evidence
  BY DEF EvidenceOf, KindOf, Evidence
<1>4. bad = {} => \A f \in files : "bad" \notin f.values
  OBVIOUS
<1>5. Missing \in Evidence /\ Missing.role = "MISSING" /\ Missing.kind = "ABSENT"
  BY DEF Missing, EvidenceOf, Evidence
<1> HIDE DEF good, bad
<1>6. CASE ~ \A f \in python : f.readable
  <2>1. x.outcome = "ERROR" /\ x.evidence = {}
    BY <1>1, <1>6 DEF Execution
  <2> QED BY <2>1, <1>6
<1>7. CASE \A f \in python : f.readable
  <2>1. \A f \in files : f.readable \/ f.kind = "config"
    BY <1>7, FilesType
  <2>2. CASE good \cup bad = {}
    <3>1. x.outcome = "NOT_FOUND" /\ x.evidence = {Missing}
      BY <1>1, <1>7, <2>2 DEF Execution
    <3> QED BY <3>1, <1>5
  <2>3. CASE bad # {}
    <3>1. x.outcome = "FAILED" /\ x.evidence = good \cup bad
      BY <1>1, <1>7, <2>3 DEF Execution
    <3> QED BY <3>1, <1>2, <1>3
  <2>4. CASE bad = {} /\ good # {}
    <3>1. x.outcome = "PASSED" /\ x.evidence = good
      BY <1>1, <1>7, <2>4 DEF Execution
    <3> QED BY <3>1, <1>2, <1>4, <2>1, <2>4
  <2> QED BY <2>2, <2>3, <2>4
<1> QED BY <1>6, <1>7

LEMMA StaticFacts ==
  ASSUME NEW files \in SUBSET Files, NEW x, x = StaticCode(files)
  PROVE  /\ x.outcome \in {"PASSED", "NOT_FOUND", "ERROR"}
         /\ x.evidence \subseteq Evidence
         /\ \A e \in x.evidence :
              e.kind # "TEST" /\ e.role \notin {"SUPPORTING_ONLY", "CONTRADICTORY"}
         /\ x.outcome = "PASSED" =>
              /\ UNION {f.terms : f \in {g \in files : g.kind \in {"python", "config"} /\ g.readable}}
                   = Terms
              /\ \E e \in x.evidence : e.role = "SUPPORTING" /\ e.kind \in {"CODE", "CONFIGURATION"}
         /\ x.outcome = "ERROR" => x.evidence = {} /\ \E f \in files : ~ f.readable
<1> DEFINE scanned == {f \in files : f.kind \in {"python", "config"}}
           missing == Terms \ UNION {f.terms : f \in scanned}
           uses == {EvidenceOf(KindOf(f), "SUPPORTING") : f \in {g \in scanned : g.terms # {}}}
<1>1. x = IF \A f \in scanned : f.readable
          THEN IF missing = {} THEN Execution("PASSED", uses)
                               ELSE Execution("NOT_FOUND", uses \cup {Missing})
          ELSE Execution("ERROR", {})
  BY DEF StaticCode, Decoded
<1>2. \A e \in uses : e.role = "SUPPORTING" /\ e.kind \in {"CODE", "CONFIGURATION"} /\ e \in Evidence
  BY DEF EvidenceOf, KindOf, Evidence
<1>3. Missing \in Evidence /\ Missing.role = "MISSING" /\ Missing.kind = "ABSENT"
  BY DEF Missing, EvidenceOf, Evidence
<1>4. missing = {} => uses # {}
  <2> SUFFICES ASSUME missing = {} PROVE uses # {}
    OBVIOUS
  <2>1. PICK t \in Terms : TRUE
    BY TermsAssumption
  <2>2. PICK f \in scanned : t \in f.terms
    BY <2>1
  <2> QED BY <2>2
<1>5. CASE ~ \A f \in scanned : f.readable
  <2>1. x.outcome = "ERROR" /\ x.evidence = {}
    BY <1>1, <1>5 DEF Execution
  <2> QED BY <2>1, <1>5
<1>6. CASE missing = {} /\ \A f \in scanned : f.readable
  <2>1. x.outcome = "PASSED" /\ x.evidence = uses
    BY <1>1, <1>6 DEF Execution
  <2>2. {g \in files : g.kind \in {"python", "config"} /\ g.readable} = scanned
    BY <1>6
  <2>3. UNION {f.terms : f \in scanned} = Terms
    BY <1>6, FilesType
  <2> HIDE DEF uses, scanned
  <2> QED BY <2>1, <2>2, <2>3, <1>2, <1>4, <1>6
<1>7. CASE missing # {} /\ \A f \in scanned : f.readable
  <2>1. x.outcome = "NOT_FOUND" /\ x.evidence = uses \cup {Missing}
    BY <1>1, <1>7 DEF Execution
  <2> HIDE DEF uses, scanned
  <2> QED BY <2>1, <1>2, <1>3
<1> QED BY <1>5, <1>6, <1>7

LEMMA TestFacts ==
  ASSUME NEW files \in SUBSET Files, NEW x, x = TestProtection(files)
  PROVE  /\ x.outcome \in {"PASSED", "NOT_FOUND", "ERROR"}
         /\ x.evidence \subseteq {EvidenceOf("TEST", "SUPPORTING"), Missing}
         /\ x.outcome = "PASSED" => EvidenceOf("TEST", "SUPPORTING") \in x.evidence
         /\ EvidenceOf("TEST", "SUPPORTING") \in x.evidence =>
              \E f \in files : f.kind = "test" /\ f.readable /\ f.asserts
         /\ x.outcome = "ERROR" => \E f \in files : ~ f.readable
<1> DEFINE tests == {f \in files : f.kind = "test"}
<1>1. x = IF \A f \in tests : f.readable
          THEN IF \E f \in tests : f.asserts
               THEN Execution("PASSED", {EvidenceOf("TEST", "SUPPORTING")})
               ELSE Execution("NOT_FOUND", {Missing})
          ELSE Execution("ERROR", {})
  BY DEF TestProtection, Decoded
<1>2. EvidenceOf("TEST", "SUPPORTING") # Missing
  BY DEF Missing, EvidenceOf
<1> QED BY <1>1, <1>2 DEF Execution

LEMMA TestNotFound ==
  ASSUME NEW files, TestProtection(files).outcome = "NOT_FOUND"
  PROVE  TestProtection(files).evidence \subseteq {Missing}
BY DEF TestProtection, Decoded, Execution

LEMMA SpecsType ==
  ASSUME NEW r \in RequirementKind
  PROVE  /\ Specs(r) \subseteq SpecType
         /\ \E s \in Specs(r) : s.core
         /\ \A s \in Specs(r) : s.core <=> s = [type |-> CheckType(r), core |-> TRUE]
         /\ \A s \in Specs(r) : ~ s.core => s.type = "TEST_PROTECTION"
<1> DEFINE core == [type |-> CheckType(r), core |-> TRUE]
           test == [type |-> "TEST_PROTECTION", core |-> FALSE]
<1>1. Specs(r) \subseteq {core, test} /\ core \in Specs(r)
  BY Zenon DEF Specs
<1>2. CheckType(r) \in {"RUNTIME_CONTEXT", "CONFIGURATION_VALUE", "TEST_PROTECTION",
                       "STATIC_CODE", "UNSUPPORTED"}
  BY DEF CheckType
<1>3. core \in SpecType /\ core.core = TRUE
  BY <1>2 DEF SpecType
<1>4. test \in SpecType /\ test.core = FALSE /\ test.type = "TEST_PROTECTION"
  BY DEF SpecType
<1> HIDE DEF core, test
<1>5. /\ Specs(r) \subseteq SpecType
      /\ \E s \in Specs(r) : s.core
      /\ \A s \in Specs(r) : s.core <=> s = core
      /\ \A s \in Specs(r) : ~ s.core => s.type = "TEST_PROTECTION"
  BY <1>1, <1>3, <1>4
<1> QED BY <1>5 DEF core

(* The checks of the requirements that have two, and of the others. *)
Core(r) == [type |-> CheckType(r), core |-> TRUE]
Test == [type |-> "TEST_PROTECTION", core |-> FALSE]

LEMMA SpecsAre ==
  ASSUME NEW r \in RequirementKind
  PROVE  Specs(r) = IF r \in {"NUMERIC_CONFIGURATION", "NUMERIC_NO_SUBJECT", "CODE_STATIC"}
                    THEN {Core(r), Test} ELSE {Core(r)}
BY Zenon DEF Specs, Core, Test

LEMMA RunType ==
  ASSUME NEW files \in SUBSET Files, NEW spec \in SpecType
  PROVE  Run(spec, files).outcome \in Outcome /\ Run(spec, files).evidence \subseteq Evidence
<1>1. CASE spec.type = "CONFIGURATION_VALUE"
  BY <1>1, ConfigurationFacts DEF Run, Outcome, NonAssessable
<1>2. CASE spec.type = "STATIC_CODE"
  BY <1>2, StaticFacts DEF Run, Outcome, NonAssessable
<1>3. CASE spec.type = "TEST_PROTECTION"
  <2>1. EvidenceOf("TEST", "SUPPORTING") \in Evidence /\ Missing \in Evidence
    BY DEF EvidenceOf, Missing, Evidence
  <2> QED BY <1>3, <2>1, TestFacts DEF Run, Outcome, NonAssessable
<1>4. CASE spec.type \in {"RUNTIME_CONTEXT", "UNSUPPORTED"}
  BY <1>4 DEF Run, Execution, EvidenceOf, Missing, Evidence, Outcome, NonAssessable
<1> QED BY <1>1, <1>2, <1>3, <1>4 DEF SpecType

-----------------------------------------------------------------------------
(* The inductive invariant: every result and every piece of evidence comes  *)
(* from a run of its check on some repository, on the present one if nobody *)
(* changed it; a verdict is of all results; a guard is of a gap.            *)

Traced == \A x \in results : \E files \in SUBSET Files :
            /\ Stable => files = repository
            /\ x.outcome = Run(x.spec, files).outcome
            /\ Run(x.spec, files).evidence \subseteq evidence

Cited == \A e \in evidence :
           \/ e.role = "SUPPORTING_ONLY"
           \/ \E x \in results : \E files \in SUBSET Files :
                /\ Stable => files = repository
                /\ x.outcome = Run(x.spec, files).outcome
                /\ e \in Run(x.spec, files).evidence

Staged == /\ stage = "retrieve" => results = {} /\ evidence = {}
          /\ stage = "done" => /\ Ran = Specs(requirement)
                               /\ verdict = Verdict(requirement, results, evidence)

Guarding == /\ guard # NotYet => stage = "done"
            /\ guard \in Guard => /\ verdict \in {"PARTIAL", "MISSING"}
                                  /\ requirement \notin Unavailable
                                  /\ guard.terms # {}

IInv == GuardTypeOK /\ Traced /\ Cited /\ Staged /\ Guarding

LEMMA InitHolds == GuardedInit => IInv
<1> SUFFICES ASSUME GuardedInit PROVE IInv
  OBVIOUS
<1> USE DEF GuardedInit, Init
<1>1. repository \subseteq Files
  <2>1. PICK n \in 0..MaxFiles, f \in [1..MaxFiles -> Files] : repository = {f[i] : i \in 1..n}
    OBVIOUS
  <2> QED
    BY <2>1, TermsAssumption
<1>2. TypeOK
  BY <1>1, TermsAssumption DEF TypeOK
<1>3. guard \notin Guard
  BY DEF Guard, GuardType, NotYet
<1> QED BY <1>2, <1>3 DEF IInv, GuardTypeOK, Traced, Cited, Staged, Guarding

LEMMA RetrieveKeeps ==
  ASSUME IInv, RetrieveCandidates, UNCHANGED guard
  PROVE  IInv'
<1> USE DEF RetrieveCandidates
<1>1. PICK candidates \in SUBSET {CandidateKind(f) : f \in {g \in repository : g.readable}} :
        evidence' = {EvidenceOf(kind, "SUPPORTING_ONLY") : kind \in candidates}
  OBVIOUS
<1>2. \A f \in repository : CandidateKind(f) \in {"CODE", "CONFIGURATION", "TEST", "DOCUMENT"}
  BY FilesType DEF IInv, GuardTypeOK, TypeOK, CandidateKind
<1>3. \A e \in evidence' : e \in Evidence /\ e.role = "SUPPORTING_ONLY"
  BY <1>1, <1>2 DEF EvidenceOf, Evidence
<1>4. TypeOK'
  BY <1>3 DEF IInv, GuardTypeOK, TypeOK, Result
<1>5. results' = {} /\ guard' = NotYet
  BY DEF IInv, Staged, Guarding
<1>6. guard' \notin Guard
  BY <1>5 DEF Guard, GuardType, NotYet
<1> QED BY <1>3, <1>4, <1>5, <1>6 DEF IInv, GuardTypeOK, Traced, Cited, Staged, Guarding

LEMMA RunCheckKeeps ==
  ASSUME IInv, NEW spec \in Specs(requirement), RunCheck(spec), UNCHANGED guard
  PROVE  IInv'
<1> DEFINE execution == Run(spec, repository)
           new == [spec |-> spec, outcome |-> execution.outcome]
<1> USE DEF RunCheck
<1>1. /\ results' = results \cup {new}
      /\ evidence' = evidence \cup execution.evidence
      /\ stage = "check" /\ spec \notin Ran
      /\ UNCHANGED <<requirement, repository, stage, verdict, commits>>
  OBVIOUS
<1>2. spec \in SpecType /\ repository \in SUBSET Files
  BY SpecsType DEF IInv, GuardTypeOK, TypeOK
<1>3. execution.outcome \in Outcome /\ execution.evidence \subseteq Evidence
  BY <1>2, RunType
<1> HIDE DEF execution, RunCheck
<1>4. TypeOK'
  <2>1. results' \subseteq Result'
    BY <1>1, <1>3 DEF IInv, GuardTypeOK, TypeOK, Result
  <2>2. \A x, y \in results' : x.spec = y.spec => x = y
    BY <1>1 DEF IInv, GuardTypeOK, TypeOK, Ran
  <2> QED BY <1>1, <1>3, <2>1, <2>2 DEF IInv, GuardTypeOK, TypeOK
<1>5. Traced'
  <2> SUFFICES ASSUME NEW x \in results'
               PROVE  \E files \in SUBSET Files :
                        /\ Stable => files = repository
                        /\ x.outcome = Run(x.spec, files).outcome
                        /\ Run(x.spec, files).evidence \subseteq evidence'
    BY <1>1 DEF Traced, Stable
  <2>1. CASE x \in results
    BY <1>1, <2>1 DEF IInv, Traced
  <2>2. CASE x = new
    BY <1>1, <1>2, <2>2 DEF execution
  <2> QED BY <1>1, <2>1, <2>2
<1>6. Cited'
  <2> SUFFICES ASSUME NEW e \in evidence', e.role # "SUPPORTING_ONLY"
               PROVE  \E x \in results' : \E files \in SUBSET Files :
                        /\ Stable => files = repository
                        /\ x.outcome = Run(x.spec, files).outcome
                        /\ e \in Run(x.spec, files).evidence
    BY <1>1 DEF Cited, Stable
  <2>1. CASE e \in evidence
    BY <1>1, <2>1 DEF IInv, Cited
  <2>2. CASE e \in execution.evidence
    <3>1. new \in results' /\ new.spec = spec /\ new.outcome = Run(spec, repository).outcome
      BY <1>1 DEF execution
    <3>2. e \in Run(spec, repository).evidence
      BY <2>2 DEF execution
    <3> HIDE DEF new
    <3> QED BY <1>2, <3>1, <3>2
  <2> QED BY <1>1, <2>1, <2>2
<1>7. Staged' /\ Guarding'
  <2>1. guard' = NotYet
    BY <1>1 DEF IInv, Guarding
  <2>2. guard' \notin Guard
    BY <2>1 DEF Guard, GuardType, NotYet
  <2> QED BY <1>1, <2>1, <2>2 DEF Staged, Guarding
<1> QED BY <1>4, <1>5, <1>6, <1>7 DEF IInv, GuardTypeOK

LEMMA AssignVerdictKeeps ==
  ASSUME IInv, AssignVerdict, UNCHANGED guard
  PROVE  IInv'
<1> USE DEF AssignVerdict
<1>1. Verdict(requirement, results, evidence) \in {"VERIFIED", "PARTIAL", "MISSING", "UNVERIFIABLE"}
  BY Zenon DEF Verdict
<1>2. TypeOK'
  BY <1>1 DEF IInv, GuardTypeOK, TypeOK, Result
<1>3. Traced' /\ Cited'
  BY DEF IInv, Traced, Cited, Stable
<1>4. Staged'
  BY DEF Staged, Ran
<1>5. guard' = NotYet
  BY DEF IInv, Guarding
<1>6. Guarding'
  BY <1>5 DEF Guarding, Guard, GuardType, NotYet
<1> QED BY <1>2, <1>3, <1>4, <1>5, <1>6 DEF IInv, GuardTypeOK

LEMMA CommitKeeps ==
  ASSUME IInv, Commit, UNCHANGED guard
  PROVE  IInv'
<1> USE DEF Commit
<1>1. repository' \subseteq Files
  BY DEF IInv, GuardTypeOK, TypeOK
<1>2. commits' \in 0..MaxCommits /\ ~ Stable'
  BY TermsAssumption DEF IInv, GuardTypeOK, TypeOK, Stable
<1>3. TypeOK'
  BY <1>1, <1>2 DEF IInv, GuardTypeOK, TypeOK, Result
<1>4. Traced' /\ Cited'
  BY <1>2 DEF IInv, Traced, Cited
<1>5. Staged' /\ Guarding'
  BY DEF IInv, Staged, Guarding, Ran
<1> QED BY <1>3, <1>4, <1>5 DEF IInv, GuardTypeOK

LEMMA GenerateGuardKeeps ==
  ASSUME IInv, GenerateGuard
  PROVE  IInv'
<1> USE DEF GenerateGuard
<1>1. TypeOK' /\ Traced' /\ Cited' /\ Staged'
  BY DEF vars, IInv, GuardTypeOK, TypeOK, Result, Traced, Cited, Staged, Stable, Ran
<1>2. Skipped \notin Guard
  BY DEF Skipped, Guard, GuardType
<1>3. guard' \in {Skipped} \cup Guard
  <2>1. TypeFor(Protected(Specs(requirement), verdict)) \in GuardType
    BY DEF TypeFor, GuardType
  <2> QED BY <2>1 DEF Guard
<1>4. Guarding'
  BY <1>2 DEF vars, Guarding, Guard
<1> QED BY <1>1, <1>3, <1>4 DEF IInv, GuardTypeOK

LEMMA NextKeeps == IInv /\ [GuardedNext]_guardedVars => IInv'
<1> SUFFICES ASSUME IInv, [GuardedNext]_guardedVars PROVE IInv'
  OBVIOUS
<1>1. CASE Next /\ UNCHANGED guard
  BY <1>1, RetrieveKeeps, RunCheckKeeps, AssignVerdictKeeps, CommitKeeps
  DEF Next, Read, vars, IInv, GuardTypeOK, TypeOK, Result, Traced, Cited, Staged, Guarding, Stable, Ran
<1>2. CASE GenerateGuard
  BY <1>2, GenerateGuardKeeps
<1>3. CASE UNCHANGED guardedVars
  BY <1>3 DEF guardedVars, vars, IInv, GuardTypeOK, TypeOK, Result, Traced, Cited, Staged,
              Guarding, Stable, Ran
<1> QED BY <1>1, <1>2, <1>3 DEF GuardedNext

LEMMA Invariance == GuardedSpec => []IInv
BY InitHolds, NextKeeps, PTL DEF GuardedSpec, guardedVars

-----------------------------------------------------------------------------
(* What a verdict says of the results and the evidence it was decided on. *)

Failed(res) == \E x \in res : x.spec.core /\ x.outcome \in {"FAILED", "NOT_FOUND"}
Passed(res) == \E x \in res : x.outcome = "PASSED"

Open(res) == {x \in res : x.outcome \in NonAssessable}
Whole(r, res, ev) == /\ Passed(res) /\ Credible(r, ev) # {} /\ Regression(ev)
                     /\ ~ Contradicted(ev) /\ Open(res) = {}

LEMMA VerdictIs ==
  ASSUME NEW r, NEW res, NEW ev, res # {}
  PROVE  Verdict(r, res, ev) =
           IF Failed(res) THEN "MISSING"
           ELSE IF Open(res) = res THEN "UNVERIFIABLE"
           ELSE IF Whole(r, res, ev) THEN "VERIFIED"
           ELSE IF Passed(res) \/ Credible(r, ev) # {} THEN "PARTIAL"
           ELSE "MISSING"
<1>1. Verdict(r, res, ev) =
        CASE Failed(res) -> "MISSING"
          [] ~ Failed(res) /\ res # {} /\ Open(res) = res -> "UNVERIFIABLE"
          [] ~ Failed(res) /\ Open(res) # res ->
               IF Whole(r, res, ev) THEN "VERIFIED"
               ELSE IF Passed(res) \/ Credible(r, ev) # {} THEN "PARTIAL" ELSE "MISSING"
          [] OTHER -> IF Credible(r, ev) # {} THEN "PARTIAL" ELSE "MISSING"
  BY DEF Verdict, Failed, Passed, Open, Whole
<1> QED BY <1>1

LEMMA VerdictCases ==
  ASSUME NEW r, NEW res, NEW ev, res # {}, NEW v, v = Verdict(r, res, ev)
  PROVE  /\ v = "VERIFIED" => ~ Failed(res) /\ Whole(r, res, ev)
         /\ v = "MISSING" =>
              Failed(res) \/ (~ Passed(res) /\ \E x \in res : x.outcome \notin NonAssessable)
         /\ v = "PARTIAL" => ~ Failed(res) /\ ~ Whole(r, res, ev)
<1>1. Open(res) # res <=> \E x \in res : x.outcome \notin NonAssessable
  BY DEF Open
<1> QED BY <1>1, VerdictIs

(* Every result and its check, by the requirement. *)
LEMMA ResultSpec ==
  ASSUME IInv, NEW x \in results
  PROVE  /\ x.spec \in Specs(requirement) /\ x.spec \in SpecType
         /\ x.spec.core => x.spec.type = CheckType(requirement)
         /\ ~ x.spec.core => x.spec.type = "TEST_PROTECTION"
<1>1. x.spec \in Specs(requirement) /\ requirement \in RequirementKind
  BY DEF IInv, GuardTypeOK, TypeOK, Result
<1>2. x.spec.core => x.spec = [type |-> CheckType(requirement), core |-> TRUE]
  BY <1>1, SpecsType
<1> QED BY <1>1, <1>2, SpecsType

LEMMA CoreResult ==
  ASSUME IInv, stage = "done"
  PROVE  \E x \in results : x.spec.core
<1>1. PICK s \in Specs(requirement) : s.core
  BY SpecsType DEF IInv, GuardTypeOK, TypeOK
<1>2. s \in Ran
  BY <1>1 DEF IInv, Staged
<1> QED BY <1>1, <1>2 DEF Ran

(* Proof of a regression test stands on a test that asserts. *)
LEMMA RegressionIsTested ==
  ASSUME IInv, Regression(evidence), Stable
  PROVE  \E f \in repository : f.kind = "test" /\ f.readable /\ f.asserts
<1>1. PICK e \in evidence : e.role = "SUPPORTING" /\ e.kind = "TEST"
  BY DEF Regression, Supporting
<1>2. PICK x \in results : e \in Run(x.spec, repository).evidence
  BY <1>1 DEF IInv, Cited
<1>3. repository \in SUBSET Files /\ x.spec \in SpecType
  BY ResultSpec DEF IInv, GuardTypeOK, TypeOK
<1>4. CASE x.spec.type = "CONFIGURATION_VALUE"
  BY <1>1, <1>2, <1>3, <1>4, ConfigurationFacts DEF Run
<1>5. CASE x.spec.type = "STATIC_CODE"
  BY <1>1, <1>2, <1>3, <1>5, StaticFacts DEF Run
<1>6. CASE x.spec.type = "TEST_PROTECTION"
  <2>1. e \in TestProtection(repository).evidence
    BY <1>2, <1>6 DEF Run
  <2>2. e = EvidenceOf("TEST", "SUPPORTING")
    BY <1>1, <1>3, <2>1, TestFacts DEF EvidenceOf, Missing
  <2> QED BY <1>3, <2>1, <2>2, TestFacts
<1>7. CASE x.spec.type \in {"RUNTIME_CONTEXT", "UNSUPPORTED"}
  BY <1>1, <1>2, <1>7 DEF Run, Execution, EvidenceOf, Missing
<1> QED BY <1>3, <1>4, <1>5, <1>6, <1>7 DEF SpecType

LEMMA VerdictCited ==
  ASSUME IInv, verdict # "NONE"
  PROVE  stage = "done" /\ results # {} /\ verdict = Verdict(requirement, results, evidence)
BY CoreResult DEF IInv, Staged, GuardTypeOK, TypeOK

LEMMA ImpliesVerifiedIsProven ==
  ASSUME IInv, Stable
  PROVE  VerifiedIsProven
<1> SUFFICES ASSUME verdict = "VERIFIED" PROVE VerifiedIsProven
  BY DEF VerifiedIsProven
<1>1. /\ ~ Failed(results) /\ Regression(evidence)
      /\ \A x \in results : x.outcome \notin NonAssessable
  BY VerdictCited, VerdictCases DEF Whole, Open
<1>2. PICK x \in results : x.spec.core
  BY VerdictCited, CoreResult
<1>3. /\ repository \in SUBSET Files
      /\ x.outcome = Run(x.spec, repository).outcome /\ x.outcome \in Outcome
      /\ x.spec.type = CheckType(requirement)
  BY <1>2, ResultSpec DEF IInv, GuardTypeOK, TypeOK, Traced, Result
<1>4. x.outcome = "PASSED"
  BY <1>1, <1>2, <1>3 DEF Failed, Outcome
<1>5. \E f \in Readable({"test"}) : f.asserts
  BY <1>1, RegressionIsTested DEF Readable
<1>6. ASSUME requirement = "CODE_STATIC"
      PROVE  UNION {f.terms : f \in Readable({"python", "config"})} = Terms
  <2>1. StaticCode(repository).outcome = "PASSED"
    BY <1>3, <1>4, <1>6 DEF CheckType, Run
  <2> QED BY <1>3, <2>1, StaticFacts DEF Readable
<1>7. ASSUME requirement = "NUMERIC_CONFIGURATION"
      PROVE  /\ \A f \in repository : f.readable \/ f.kind = "config"
             /\ \A f \in repository : "bad" \notin f.values
  <2>1. Configuration(repository).outcome = "PASSED"
    BY <1>3, <1>4, <1>7 DEF CheckType, Run
  <2> QED BY <1>3, <2>1, ConfigurationFacts
<1> QED BY <1>5, <1>6, <1>7 DEF VerifiedIsProven

LEMMA ImpliesMissingIsFound ==
  ASSUME IInv, Stable
  PROVE  MissingIsFound
<1> SUFFICES ASSUME verdict = "MISSING", ~ Failed(results), requirement # "NUMERIC_NO_SUBJECT"
             PROVE  \E f \in repository : ~ f.readable
  BY DEF MissingIsFound, Failed
<1>1. ~ Passed(results) /\ \E x \in results : x.outcome \notin NonAssessable
  BY VerdictCited, VerdictCases
<1>2. PICK y \in results : y.outcome \notin NonAssessable
  BY <1>1
<1>3. PICK x \in results : x.spec.core
  BY VerdictCited, CoreResult
<1>4. /\ repository \in SUBSET Files
      /\ x.outcome = Run(x.spec, repository).outcome /\ x.outcome \in Outcome
      /\ x.spec.type = CheckType(requirement) /\ x.spec \in SpecType
      /\ y.outcome \in Outcome
  BY <1>3, ResultSpec DEF IInv, GuardTypeOK, TypeOK, Traced, Result
<1>5. x.outcome \in NonAssessable
  BY <1>1, <1>3, <1>4 DEF Failed, Passed, Outcome
<1>6. ~ y.spec.core
  BY <1>1, <1>2, <1>4 DEF Failed, Passed, Outcome
<1>7. requirement \in {"NUMERIC_CONFIGURATION", "NUMERIC_NO_SUBJECT", "CODE_STATIC"}
  BY <1>6, ResultSpec DEF Specs
<1>8. CASE requirement = "NUMERIC_CONFIGURATION"
  <2>1. x.outcome = Configuration(repository).outcome
    BY <1>4, <1>8 DEF CheckType, Run
  <2>2. x.outcome = "ERROR"
    BY <1>4, <1>5, <2>1, ConfigurationFacts DEF NonAssessable
  <2> QED BY <1>4, <2>1, <2>2, ConfigurationFacts
<1>9. CASE requirement = "CODE_STATIC"
  <2>1. x.outcome = StaticCode(repository).outcome
    BY <1>4, <1>9 DEF CheckType, Run
  <2>2. x.outcome = "ERROR"
    BY <1>4, <1>5, <2>1, StaticFacts DEF NonAssessable
  <2> QED BY <1>4, <2>1, <2>2, StaticFacts
<1> QED BY <1>7, <1>8, <1>9

(* A check that passed leaves evidence of its sort. *)
LEMMA PassedIsCredible ==
  ASSUME IInv, NEW x \in results, x.outcome = "PASSED"
  PROVE  /\ x.spec.type \in {"CONFIGURATION_VALUE", "STATIC_CODE"} =>
              Credible(requirement, evidence) # {}
         /\ x.spec.type = "TEST_PROTECTION" =>
              /\ Regression(evidence)
              /\ requirement = "TEST_PROTECTION" => Credible(requirement, evidence) # {}
<1>1. PICK files \in SUBSET Files : /\ x.outcome = Run(x.spec, files).outcome
                                   /\ Run(x.spec, files).evidence \subseteq evidence
  BY DEF IInv, Traced
<1>2. CASE x.spec.type \in {"CONFIGURATION_VALUE", "STATIC_CODE"}
  <2>1. \E e \in Run(x.spec, files).evidence : e.role = "SUPPORTING" /\ e.kind \in {"CODE", "CONFIGURATION"}
    BY <1>1, <1>2, ConfigurationFacts, StaticFacts DEF Run
  <2> QED BY <1>1, <1>2, <2>1 DEF Credible, Supporting
<1>3. CASE x.spec.type = "TEST_PROTECTION"
  <2>1. EvidenceOf("TEST", "SUPPORTING") \in evidence
    BY <1>1, <1>3, TestFacts DEF Run
  <2> QED BY <1>3, <2>1 DEF Regression, Credible, Supporting, EvidenceOf
<1> QED BY <1>2, <1>3

(* Only a number that a file contradicts is contradicted, and its check failed. *)
LEMMA ContradictedFailed ==
  ASSUME IInv, Contradicted(evidence)
  PROVE  Failed(results)
<1>1. PICK e \in evidence : e.role = "CONTRADICTORY"
  BY DEF Contradicted
<1>2. PICK x \in results, files \in SUBSET Files : /\ x.outcome = Run(x.spec, files).outcome
                                                 /\ e \in Run(x.spec, files).evidence
  BY <1>1 DEF IInv, Cited
<1>3. x.spec \in SpecType /\ (~ x.spec.core => x.spec.type = "TEST_PROTECTION")
  BY ResultSpec
<1>4. CASE x.spec.type = "CONFIGURATION_VALUE"
  <2>1. x.outcome = "FAILED"
    BY <1>1, <1>2, <1>4, ConfigurationFacts DEF Run
  <2> QED BY <1>3, <1>4, <2>1 DEF Failed
<1>5. CASE x.spec.type = "STATIC_CODE"
  BY <1>1, <1>2, <1>5, StaticFacts DEF Run
<1>6. CASE x.spec.type = "TEST_PROTECTION"
  BY <1>1, <1>2, <1>6, TestFacts DEF Run, EvidenceOf, Missing
<1>7. CASE x.spec.type \in {"RUNTIME_CONTEXT", "UNSUPPORTED"}
  BY <1>1, <1>2, <1>7 DEF Run, Execution, EvidenceOf, Missing
<1> QED BY <1>3, <1>4, <1>5, <1>6, <1>7 DEF SpecType

(* A check of configuration or code that could not assess could not read. *)
LEMMA UnassessedIsError ==
  ASSUME IInv, NEW x \in results, x.outcome \in NonAssessable,
         x.spec.type \in {"CONFIGURATION_VALUE", "STATIC_CODE"}
  PROVE  x.outcome = "ERROR"
<1>1. PICK files \in SUBSET Files : x.outcome = Run(x.spec, files).outcome
  BY DEF IInv, Traced
<1> QED BY <1>1, ConfigurationFacts, StaticFacts DEF Run, NonAssessable

LEMMA SameSpec ==
  ASSUME IInv, NEW x \in results, NEW y \in results
  PROVE  /\ x.spec.core /\ y.spec.core => x = y
         /\ ~ x.spec.core /\ ~ y.spec.core => x = y
<1>1. x.spec \in Specs(requirement) /\ y.spec \in Specs(requirement)
  BY ResultSpec
<1>2. x.spec.core = y.spec.core => x.spec = y.spec
  BY <1>1 DEF Specs
<1>3. x.spec.core \in BOOLEAN /\ y.spec.core \in BOOLEAN
  BY ResultSpec DEF SpecType
<1> QED BY <1>2, <1>3 DEF IInv, GuardTypeOK, TypeOK

LEMMA GapIsUnread ==
  ASSUME IInv, guard \in Guard, NEW x \in results,
         x.spec \in Protected(Specs(requirement), verdict), x.outcome = "PASSED"
  PROVE  \E y \in results : y.spec.core /\ y.outcome = "ERROR"
<1>1. /\ verdict \in {"PARTIAL", "MISSING"}
      /\ requirement \in {"NUMERIC_CONFIGURATION", "TEST_PROTECTION", "CODE_STATIC"}
      /\ verdict = Verdict(requirement, results, evidence) /\ results # {} /\ stage = "done"
  BY VerdictCited DEF IInv, Guarding, GuardTypeOK, TypeOK, RequirementKind, Unavailable
<1>2. PICK y \in results : y.spec.core
  BY <1>1, CoreResult
<1>3. y.spec.type = CheckType(requirement) /\ y.outcome \in Outcome
  BY <1>2, ResultSpec DEF IInv, GuardTypeOK, TypeOK, Result
<1>4. requirement = "TEST_PROTECTION" => x = y
  <2>1. requirement = "TEST_PROTECTION" => x.spec.core
    BY ResultSpec DEF Specs
  <2> QED BY <1>2, <2>1, SameSpec
<1>5. CASE verdict = "MISSING"
  <2>1. PICK z \in results : z.spec.core /\ z.outcome \in {"FAILED", "NOT_FOUND"}
    BY <1>1, <1>5, VerdictCases DEF Failed, Passed
  <2>2. y.outcome # "PASSED"
    BY <1>2, <2>1, SameSpec
  <2>3. x # y /\ requirement # "TEST_PROTECTION"
    BY <1>4, <2>2
  <2>4. y.spec.type # "TEST_PROTECTION"
    BY <1>1, <1>3, <2>3 DEF CheckType
  <2>5. y.spec \in Specs(requirement)
    BY ResultSpec
  <2>6. x.spec.type # "TEST_PROTECTION"
    BY <1>5, <2>4, <2>5 DEF Protected
  <2>7. x.spec.core
    BY <2>6, ResultSpec
  <2> QED BY <1>2, <2>3, <2>7, SameSpec
<1>6. CASE verdict = "PARTIAL"
  <2>1. ~ Failed(results) /\ ~ Whole(requirement, results, evidence)
    BY <1>1, <1>6, VerdictCases
  <2>2. ~ Contradicted(evidence) /\ Passed(results)
    BY <2>1, ContradictedFailed DEF Passed
  <2>3. x.spec.type = "TEST_PROTECTION"
    <3>1. \E s \in Specs(requirement) : s.type = "TEST_PROTECTION"
      <4>1. CASE requirement = "TEST_PROTECTION"
        <5>1. CheckType(requirement) = "TEST_PROTECTION"
          BY <4>1 DEF CheckType
        <5>2. Core(requirement) \in Specs(requirement)
          BY <4>1, SpecsAre DEF RequirementKind
        <5> QED BY <5>1, <5>2 DEF Core
      <4>2. CASE requirement # "TEST_PROTECTION"
        <5>1. Test \in Specs(requirement)
          BY <1>1, <4>2, SpecsAre DEF RequirementKind
        <5> QED BY <5>1 DEF Test
      <4> QED BY <4>1, <4>2
    <3> QED BY <1>6, <3>1 DEF Protected
  <2>4. Regression(evidence)
    BY <2>3, PassedIsCredible
  <2>5. CASE y.outcome \in NonAssessable
    <3>1. x # y
      BY <2>5 DEF NonAssessable
    <3>2. y.spec.type \in {"CONFIGURATION_VALUE", "STATIC_CODE"}
      BY <1>1, <1>3, <1>4, <3>1 DEF CheckType
    <3> QED BY <1>2, <2>5, <3>2, UnassessedIsError
  <2>6. CASE y.outcome \notin NonAssessable
    <3>1. y.outcome = "PASSED"
      BY <1>2, <1>3, <2>1, <2>6 DEF Failed, Outcome
    <3>2. Credible(requirement, evidence) # {}
      BY <1>1, <1>3, <3>1, PassedIsCredible DEF CheckType
    <3>3. \A z \in results : z = y \/ z = x
      <4>1. x.spec.core => x = y
        BY <1>2, SameSpec
      <4>2. ASSUME NEW z \in results PROVE z = y \/ z = x \/ (x = y /\ ~ z.spec.core)
        BY <1>2, <4>1, SameSpec
      <4>3. ASSUME x = y, NEW z \in results PROVE z.spec.core
        <5>1. requirement = "TEST_PROTECTION"
          BY <1>1, <1>3, <2>3, <4>3 DEF CheckType
        <5> QED BY <5>1, ResultSpec DEF Specs
      <4> QED BY <4>2, <4>3
    <3>4. Open(results) = {}
      BY <2>6, <3>3 DEF Open, NonAssessable
    <3> QED BY <2>1, <2>2, <2>4, <3>2, <3>4 DEF Whole
  <2> QED BY <2>5, <2>6
<1> QED BY <1>1, <1>5, <1>6

LEMMA EmptyFails ==
  ASSUME NEW g \in Guard, g.terms # {}, NEW files, LookedAt(g, files) = {}
  PROVE  ~ MayPass(g, files)
BY DEF MayPass, Guard

LEMMA ImpliesGuardAddressesGap == IInv => GuardAddressesGap
<1> SUFFICES ASSUME IInv, guard \in Guard PROVE GuardAddressesGap
  BY DEF GuardAddressesGap
<1>1. guard.terms # {}
  BY DEF IInv, Guarding
<1> QED BY <1>1, GapIsUnread, EmptyFails DEF GuardAddressesGap

-----------------------------------------------------------------------------
(* The assessment of a repository as a table of its checks' outcomes. *)

TwoChecks == {"NUMERIC_CONFIGURATION", "NUMERIC_NO_SUBJECT", "CODE_STATIC"}

Table(core, test) ==
  IF core \in {"FAILED", "NOT_FOUND"} THEN "MISSING"
  ELSE IF core = "PASSED" THEN IF test = "PASSED" THEN "VERIFIED" ELSE "PARTIAL"
  ELSE IF test = "PASSED" THEN "PARTIAL"
  ELSE IF test = "ERROR" THEN "UNVERIFIABLE" ELSE "MISSING"

LEMMA AssessTwo ==
  ASSUME requirement \in TwoChecks, NEW files \in SUBSET Files
  PROVE  Assess(files) = Table(Run(Core(requirement), files).outcome, TestProtection(files).outcome)
<1> DEFINE core == Core(requirement)
           c == Run(core, files)
           t == TestProtection(files)
           x == [spec |-> core, outcome |-> c.outcome]
           y == [spec |-> Test, outcome |-> t.outcome]
           res == {x, y}
           ev == c.evidence \cup t.evidence
<1>1. Assess(files) = Verdict(requirement, res, ev)
  <2>1. Specs(requirement) = {core, Test} /\ Run(Test, files) = t
    BY SpecsAre DEF TwoChecks, RequirementKind, Test, Run
  <2>2. {<<spec, Run(spec, files)>> : spec \in Specs(requirement)} = {<<core, c>>, <<Test, t>>}
    BY <2>1
  <2>3. {[spec |-> e[1], outcome |-> e[2].outcome] : e \in {<<core, c>>, <<Test, t>>}} = res
    OBVIOUS
  <2>4. UNION {e[2].evidence : e \in {<<core, c>>, <<Test, t>>}} = ev
    OBVIOUS
  <2> QED BY <2>2, <2>3, <2>4 DEF Assess
<1>2. /\ core.core = TRUE /\ Test.core = FALSE
      /\ core.type \in {"CONFIGURATION_VALUE", "STATIC_CODE", "UNSUPPORTED"}
  BY DEF Core, Test, CheckType, TwoChecks
<1>3. /\ c.outcome \in {"PASSED", "FAILED", "NOT_FOUND", "ERROR", "UNSUPPORTED"}
      /\ \A e \in c.evidence : e.kind # "TEST"
      /\ c.outcome # "FAILED" => \A e \in c.evidence : e.role # "CONTRADICTORY"
      /\ c.outcome = "PASSED" =>
           \E e \in c.evidence : e.role = "SUPPORTING" /\ e.kind \in {"CODE", "CONFIGURATION"}
      /\ c.outcome \in NonAssessable => \A e \in c.evidence : e.role # "SUPPORTING"
  <2>1. CASE core.type = "CONFIGURATION_VALUE"
    BY <2>1, ConfigurationFacts DEF Run, NonAssessable
  <2>2. CASE core.type = "STATIC_CODE"
    BY <2>2, StaticFacts DEF Run, NonAssessable
  <2>3. CASE core.type = "UNSUPPORTED"
    BY <2>3 DEF Run, Execution, Missing, EvidenceOf, NonAssessable
  <2> QED BY <1>2, <2>1, <2>2, <2>3
<1>4. /\ t.outcome \in {"PASSED", "NOT_FOUND", "ERROR"}
      /\ \A e \in t.evidence : /\ e.role \in {"SUPPORTING", "MISSING"}
                               /\ e.role = "SUPPORTING" => e.kind = "TEST"
      /\ t.outcome = "PASSED" => \E e \in t.evidence : e.role = "SUPPORTING" /\ e.kind = "TEST"
  BY TestFacts DEF EvidenceOf, Missing
<1>5. /\ Failed(res) <=> c.outcome \in {"FAILED", "NOT_FOUND"}
      /\ Passed(res) <=> c.outcome = "PASSED" \/ t.outcome = "PASSED"
      /\ Open(res) = res <=> c.outcome \in NonAssessable /\ t.outcome \in NonAssessable
      /\ Open(res) = {} <=> c.outcome \notin NonAssessable /\ t.outcome \notin NonAssessable
  <2>1. x.spec.core = TRUE /\ y.spec.core = FALSE /\ x.outcome = c.outcome /\ y.outcome = t.outcome
    BY <1>2
  <2> HIDE DEF x, y, c, t, core
  <2> QED BY <2>1 DEF Failed, Passed, Open
<1>6. /\ Credible(requirement, ev) # {} <=>
           \E e \in c.evidence : e.role = "SUPPORTING" /\ e.kind \in {"CODE", "CONFIGURATION", "EXECUTION"}
      /\ c.outcome # "FAILED" => ~ Contradicted(ev)
      /\ t.outcome = "PASSED" => Regression(ev)
  <2>1. requirement # "TEST_PROTECTION"
    BY DEF TwoChecks
  <2> HIDE DEF c, t, core
  <2>2. Credible(requirement, ev) = {e \in ev : e.role = "SUPPORTING" /\ e.kind \in {"CODE", "CONFIGURATION", "EXECUTION"}}
    BY <2>1 DEF Credible, Supporting
  <2>3. c.outcome # "FAILED" => ~ Contradicted(ev)
    BY <1>3, <1>4 DEF Contradicted
  <2>4. t.outcome = "PASSED" => Regression(ev)
    BY <1>4 DEF Regression, Supporting
  <2>5. \A e \in t.evidence : ~ (e.role = "SUPPORTING" /\ e.kind \in {"CODE", "CONFIGURATION", "EXECUTION"})
    BY <1>4
  <2> QED BY <2>2, <2>3, <2>4, <2>5
<1> HIDE DEF c, t, core, res, ev
<1>7. res # {}
  BY DEF res
<1>8. Verdict(requirement, res, ev) = Table(c.outcome, t.outcome)
  <2>1. CASE c.outcome \in {"FAILED", "NOT_FOUND"}
    BY <2>1, <1>5, <1>7, VerdictIs DEF Table
  <2>2. CASE c.outcome = "PASSED" /\ t.outcome = "PASSED"
    <3>1. Whole(requirement, res, ev)
      BY <2>2, <1>3, <1>5, <1>6 DEF Whole, NonAssessable
    <3> QED BY <2>2, <3>1, <1>5, <1>7, VerdictIs DEF Table, NonAssessable
  <2>3. CASE c.outcome = "PASSED" /\ t.outcome # "PASSED"
    <3>1. ~ Whole(requirement, res, ev)
      <4>1. CASE t.outcome = "ERROR"
        BY <4>1, <1>5 DEF Whole, NonAssessable
      <4>2. CASE t.outcome = "NOT_FOUND"
        <5>1. ~ Regression(ev)
          <6>1. t.evidence \subseteq {Missing}
            BY <4>2, TestNotFound DEF t
          <6> QED BY <6>1, <1>3 DEF Regression, Supporting, ev, Missing, EvidenceOf
        <5> QED BY <5>1 DEF Whole
      <4> QED BY <2>3, <1>4, <4>1, <4>2
    <3> QED BY <2>3, <3>1, <1>5, <1>7, VerdictIs DEF Table, NonAssessable
  <2>4. CASE c.outcome \in {"ERROR", "UNSUPPORTED"}
    <3>1. Credible(requirement, ev) = {} /\ ~ Whole(requirement, res, ev)
      BY <2>4, <1>3, <1>6 DEF Whole, NonAssessable
    <3> QED BY <2>4, <3>1, <1>4, <1>5, <1>7, VerdictIs DEF Table, NonAssessable
  <2> QED BY <1>3, <2>1, <2>2, <2>3, <2>4
<1> QED BY <1>1, <1>8 DEF c, t, core

LEMMA AssessOne ==
  ASSUME requirement \in RequirementKind \ TwoChecks, NEW files \in SUBSET Files
  PROVE  Assess(files) =
           IF requirement # "TEST_PROTECTION" \/ TestProtection(files).outcome = "ERROR"
           THEN "UNVERIFIABLE"
           ELSE IF TestProtection(files).outcome = "PASSED" THEN "VERIFIED" ELSE "MISSING"
<1> DEFINE core == Core(requirement)
           c == Run(core, files)
           x == [spec |-> core, outcome |-> c.outcome]
           res == {x}
<1>1. Assess(files) = Verdict(requirement, res, c.evidence)
  <2>1. Specs(requirement) = {core}
    BY SpecsAre DEF TwoChecks
  <2>2. {<<spec, Run(spec, files)>> : spec \in Specs(requirement)} = {<<core, c>>}
    BY <2>1
  <2>3. {[spec |-> e[1], outcome |-> e[2].outcome] : e \in {<<core, c>>}} = res
    OBVIOUS
  <2>4. UNION {e[2].evidence : e \in {<<core, c>>}} = c.evidence
    OBVIOUS
  <2> QED BY <2>2, <2>3, <2>4 DEF Assess
<1>2. /\ Failed(res) <=> c.outcome \in {"FAILED", "NOT_FOUND"}
      /\ Passed(res) <=> c.outcome = "PASSED"
      /\ Open(res) = res <=> c.outcome \in NonAssessable
      /\ Open(res) = {} <=> c.outcome \notin NonAssessable
      /\ res # {}
  <2>1. x.spec.core = TRUE /\ x.outcome = c.outcome
    BY DEF Core
  <2> HIDE DEF x, c, core
  <2> QED BY <2>1 DEF Failed, Passed, Open
<1> HIDE DEF res
<1>3. CASE requirement # "TEST_PROTECTION"
  <2>1. core.type \in {"RUNTIME_CONTEXT", "UNSUPPORTED"}
    BY <1>3 DEF Core, CheckType, TwoChecks, RequirementKind
  <2>2. c.outcome \in {"UNAVAILABLE", "UNSUPPORTED"}
    BY <2>1 DEF Run, Execution
  <2> HIDE DEF c, core
  <2> QED BY <1>1, <1>2, <1>3, <2>2, VerdictIs DEF NonAssessable
<1>4. CASE requirement = "TEST_PROTECTION"
  <2>1. c = TestProtection(files)
    BY <1>4 DEF Run, Core, CheckType
  <2>2. CASE c.outcome = "PASSED"
    <3>1. EvidenceOf("TEST", "SUPPORTING") \in c.evidence /\ ~ Contradicted(c.evidence)
      BY <2>1, <2>2, TestFacts DEF Contradicted, EvidenceOf, Missing
    <3> HIDE DEF c, core
    <3>2. Regression(c.evidence) /\ Credible(requirement, c.evidence) # {}
      BY <3>1, <1>4 DEF Regression, Credible, Supporting, EvidenceOf
    <3>3. Whole(requirement, res, c.evidence)
      BY <2>2, <3>1, <3>2, <1>2 DEF Whole, NonAssessable
    <3> QED BY <1>1, <1>2, <1>4, <2>1, <2>2, <3>3, VerdictIs DEF NonAssessable
  <2>3. CASE c.outcome \in {"NOT_FOUND", "ERROR"}
    <3> HIDE DEF c, core
    <3> QED BY <1>1, <1>2, <1>4, <2>1, <2>3, VerdictIs DEF NonAssessable
  <2> QED BY <2>1, <2>2, <2>3, TestFacts
<1> QED BY <1>3, <1>4

LEMMA ConfigurationIs ==
  ASSUME NEW files \in SUBSET Files
  PROVE  Configuration(files).outcome =
           IF \E f \in files : f.kind \in {"python", "test"} /\ ~ f.readable THEN "ERROR"
           ELSE IF \E f \in files : "bad" \in f.values THEN "FAILED"
           ELSE IF \E f \in files : "good" \in f.values THEN "PASSED" ELSE "NOT_FOUND"
<1> DEFINE python == {f \in files : f.kind \in {"python", "test"}}
           good == {EvidenceOf(KindOf(f), "SUPPORTING") : f \in {g \in files : "good" \in g.values}}
           bad == {EvidenceOf(KindOf(f), "CONTRADICTORY") : f \in {g \in files : "bad" \in g.values}}
           found == CASE good \cup bad = {} -> Execution("NOT_FOUND", {Missing})
                      [] bad # {}           -> Execution("FAILED", good \cup bad)
                      [] OTHER              -> Execution("PASSED", good)
<1>1. Configuration(files) =
        IF \A f \in python : f.readable THEN found ELSE Execution("ERROR", {})
  BY DEF Configuration, Decoded
<1>2. bad # {} <=> \E f \in files : "bad" \in f.values
  OBVIOUS
<1>3. good # {} <=> \E f \in files : "good" \in f.values
  OBVIOUS
<1>4. (\A f \in python : f.readable) <=>
        ~ \E f \in files : f.kind \in {"python", "test"} /\ ~ f.readable
  OBVIOUS
<1> HIDE DEF good, bad, python
<1>5. found.outcome = IF bad # {} THEN "FAILED" ELSE IF good # {} THEN "PASSED" ELSE "NOT_FOUND"
  <2>1. CASE good \cup bad = {}
    BY <2>1 DEF Execution
  <2>2. CASE bad # {}
    BY <2>2 DEF Execution
  <2>3. CASE bad = {} /\ good # {}
    BY <2>3 DEF Execution
  <2> QED BY <2>1, <2>2, <2>3
<1> QED BY <1>1, <1>2, <1>3, <1>4, <1>5 DEF Execution

LEMMA StaticIs ==
  ASSUME NEW files \in SUBSET Files
  PROVE  StaticCode(files).outcome =
           IF \E f \in files : f.kind \in {"python", "config"} /\ ~ f.readable THEN "ERROR"
           ELSE IF \A t \in Terms : \E f \in files : f.kind \in {"python", "config"} /\ t \in f.terms
           THEN "PASSED" ELSE "NOT_FOUND"
<1> DEFINE scanned == {f \in files : f.kind \in {"python", "config"}}
           missing == Terms \ UNION {f.terms : f \in scanned}
           uses == {EvidenceOf(KindOf(f), "SUPPORTING") : f \in {g \in scanned : g.terms # {}}}
<1>1. StaticCode(files) = IF \A f \in scanned : f.readable
          THEN IF missing = {} THEN Execution("PASSED", uses)
                               ELSE Execution("NOT_FOUND", uses \cup {Missing})
          ELSE Execution("ERROR", {})
  BY DEF StaticCode, Decoded
<1>2. missing = {} <=>
        \A t \in Terms : \E f \in files : f.kind \in {"python", "config"} /\ t \in f.terms
  OBVIOUS
<1>3. (\A f \in scanned : f.readable) <=>
        ~ \E f \in files : f.kind \in {"python", "config"} /\ ~ f.readable
  OBVIOUS
<1> HIDE DEF scanned, missing, uses
<1> QED BY <1>1, <1>2, <1>3 DEF Execution

LEMMA TestIs ==
  ASSUME NEW files \in SUBSET Files
  PROVE  TestProtection(files).outcome =
           IF \E f \in files : f.kind = "test" /\ ~ f.readable THEN "ERROR"
           ELSE IF \E f \in files : f.kind = "test" /\ f.asserts THEN "PASSED" ELSE "NOT_FOUND"
BY DEF TestProtection, Decoded, Execution

(* A readable test is added. *)
LEMMA TestAdded ==
  ASSUME NEW files \in SUBSET Files, NEW f \in Files, f.kind = "test", f.readable
  PROVE  /\ StaticCode(files \cup {f}).outcome = StaticCode(files).outcome
         /\ \/ TestProtection(files \cup {f}).outcome = TestProtection(files).outcome
            \/ /\ TestProtection(files).outcome = "NOT_FOUND"
               /\ TestProtection(files \cup {f}).outcome = "PASSED"
         /\ "bad" \notin f.values =>
              \/ Configuration(files \cup {f}).outcome = Configuration(files).outcome
              \/ /\ Configuration(files).outcome = "NOT_FOUND"
                 /\ Configuration(files \cup {f}).outcome = "PASSED"
<1> DEFINE more == files \cup {f}
<1>1. more \in SUBSET Files
  OBVIOUS
<1>2. StaticCode(more).outcome = StaticCode(files).outcome
  BY <1>1, StaticIs
<1>3. \/ TestProtection(more).outcome = TestProtection(files).outcome
      \/ TestProtection(files).outcome = "NOT_FOUND" /\ TestProtection(more).outcome = "PASSED"
  BY <1>1, TestIs
<1>4. ASSUME "bad" \notin f.values
      PROVE  \/ Configuration(more).outcome = Configuration(files).outcome
             \/ /\ Configuration(files).outcome = "NOT_FOUND"
                /\ Configuration(more).outcome = "PASSED"
  BY <1>1, <1>4, ConfigurationIs
<1> QED BY <1>2, <1>3, <1>4

(* A file that only contradicts is added. *)
LEMMA ContradictionAdded ==
  ASSUME NEW files \in SUBSET Files, NEW f \in Files, f.values = {"bad"}, f.terms = {}, ~ f.asserts
  PROVE  /\ StaticCode(files \cup {f}).outcome = StaticCode(files).outcome
         /\ TestProtection(files \cup {f}).outcome = TestProtection(files).outcome
         /\ \/ /\ Configuration(files).outcome = "ERROR"
               /\ Configuration(files \cup {f}).outcome = "ERROR"
            \/ /\ Configuration(files).outcome # "ERROR"
               /\ Configuration(files \cup {f}).outcome = "FAILED"
<1> DEFINE more == files \cup {f}
<1>1. more \in SUBSET Files /\ f.readable
  BY DEF Files
<1>2. StaticCode(more).outcome = StaticCode(files).outcome
  BY <1>1, StaticIs
<1>3. TestProtection(more).outcome = TestProtection(files).outcome
  BY <1>1, TestIs
<1>4. \/ Configuration(files).outcome = "ERROR" /\ Configuration(more).outcome = "ERROR"
      \/ Configuration(files).outcome # "ERROR" /\ Configuration(more).outcome = "FAILED"
  BY <1>1, ConfigurationIs
<1> QED BY <1>2, <1>3, <1>4

LEMMA CoreOutcome ==
  ASSUME requirement \in TwoChecks, NEW files
  PROVE  Run(Core(requirement), files).outcome =
           IF requirement = "NUMERIC_CONFIGURATION" THEN Configuration(files).outcome
           ELSE IF requirement = "CODE_STATIC" THEN StaticCode(files).outcome ELSE "UNSUPPORTED"
<1>1. CASE requirement = "NUMERIC_CONFIGURATION"
  BY <1>1 DEF Run, Core, CheckType
<1>2. CASE requirement = "CODE_STATIC"
  BY <1>2 DEF Run, Core, CheckType
<1>3. CASE requirement = "NUMERIC_NO_SUBJECT"
  BY <1>3 DEF Run, Core, CheckType, Execution
<1> QED BY <1>1, <1>2, <1>3 DEF TwoChecks

LEMMA RankIs ==
  Rank("UNVERIFIABLE") = 0 /\ Rank("MISSING") = 1 /\ Rank("PARTIAL") = 2 /\ Rank("VERIFIED") = 3
BY DEF Rank

LEMMA ImpliesAssessmentMonotone == IInv => AssessmentMonotone
<1> SUFFICES ASSUME IInv, NEW f \in Files
             PROVE  /\ f.kind = "test" /\ f.readable /\ "bad" \notin f.values =>
                         Rank(Assess(repository \cup {f})) >= Rank(Assess(repository))
                    /\ f.values = {"bad"} /\ f.terms = {} /\ ~ f.asserts =>
                         Rank(Assess(repository \cup {f})) <= Rank(Assess(repository))
  BY DEF AssessmentMonotone
<1> DEFINE more == repository \cup {f}
<1>1. repository \in SUBSET Files /\ more \in SUBSET Files /\ requirement \in RequirementKind
  BY DEF IInv, GuardTypeOK, TypeOK
<1> HIDE DEF more
<1>2. CASE requirement \notin TwoChecks
  <2> DEFINE t == TestProtection(repository).outcome
             u == TestProtection(more).outcome
  <2>1. /\ Assess(repository) = IF requirement # "TEST_PROTECTION" \/ t = "ERROR" THEN "UNVERIFIABLE"
                                ELSE IF t = "PASSED" THEN "VERIFIED" ELSE "MISSING"
        /\ Assess(more) = IF requirement # "TEST_PROTECTION" \/ u = "ERROR" THEN "UNVERIFIABLE"
                          ELSE IF u = "PASSED" THEN "VERIFIED" ELSE "MISSING"
    BY <1>1, <1>2, AssessOne
  <2> HIDE DEF t, u
  <2>2. ASSUME f.kind = "test", f.readable PROVE Rank(Assess(more)) >= Rank(Assess(repository))
    <3>1. u = t \/ (t = "NOT_FOUND" /\ u = "PASSED")
      BY <1>1, <2>2, TestAdded DEF more, t, u
    <3> QED BY <2>1, <3>1, RankIs
  <2>3. ASSUME f.values = {"bad"}, f.terms = {}, ~ f.asserts
        PROVE  Rank(Assess(more)) <= Rank(Assess(repository))
    <3>1. u = t
      BY <1>1, <2>3, ContradictionAdded DEF more, t, u
    <3> QED BY <2>1, <3>1, RankIs
  <2> QED BY <2>2, <2>3 DEF more
<1>3. CASE requirement \in TwoChecks
  <2> DEFINE c == Run(Core(requirement), repository).outcome
             d == Run(Core(requirement), more).outcome
             t == TestProtection(repository).outcome
             u == TestProtection(more).outcome
  <2>1. Assess(repository) = Table(c, t) /\ Assess(more) = Table(d, u)
    BY <1>1, <1>3, AssessTwo
  <2>2. /\ t \in {"PASSED", "NOT_FOUND", "ERROR"} /\ u \in {"PASSED", "NOT_FOUND", "ERROR"}
        /\ t = "ERROR" /\ requirement = "NUMERIC_CONFIGURATION" => c = "ERROR"
    BY <1>1, <1>3, TestIs, ConfigurationIs, CoreOutcome
  <2>3. ASSUME f.kind = "test", f.readable, "bad" \notin f.values
        PROVE  Rank(Assess(more)) >= Rank(Assess(repository))
    <3>1. u = t \/ (t = "NOT_FOUND" /\ u = "PASSED")
      BY <1>1, <2>3, TestAdded DEF more
    <3>2. d = c \/ (c = "NOT_FOUND" /\ d = "PASSED")
      BY <1>1, <1>3, <2>3, TestAdded, CoreOutcome DEF more
    <3> HIDE DEF c, d, t, u
    <3> QED BY <2>1, <2>2, <3>1, <3>2, RankIs DEF Table
  <2>4. ASSUME f.values = {"bad"}, f.terms = {}, ~ f.asserts
        PROVE  Rank(Assess(more)) <= Rank(Assess(repository))
    <3>1. u = t
      BY <1>1, <2>4, ContradictionAdded DEF more
    <3>2. d = c \/ (requirement = "NUMERIC_CONFIGURATION" /\ c # "ERROR" /\ d = "FAILED")
      BY <1>1, <1>3, <2>4, ContradictionAdded, CoreOutcome DEF more
    <3>3. requirement = "NUMERIC_CONFIGURATION" => c \in {"PASSED", "FAILED", "NOT_FOUND", "ERROR"}
      BY <1>1, <1>3, CoreOutcome, ConfigurationIs
    <3> HIDE DEF c, d, t, u
    <3> QED BY <2>1, <2>2, <3>1, <3>2, <3>3, RankIs DEF Table
  <2> QED BY <2>3, <2>4 DEF more
<1> QED BY <1>2, <1>3

-----------------------------------------------------------------------------
(* The theorems *)

(* Every reachable state has its type, for every set of terms, repository   *)
(* and number of changes (audit/checks.py, audit/verifier.py,               *)
(* guards/generator.py).                                                    *)
THEOREM TypeCorrect == GuardedSpec => []GuardTypeOK
<1>1. IInv => GuardTypeOK
  BY DEF IInv
<1> QED BY <1>1, Invariance, PTL

(* A verdict stands on the files of the repository, whatever was retrieved: *)
(* VERIFIED on a test that asserts and an implementation that has what was  *)
(* asked for, MISSING on a core check that found out, or on something that  *)
(* could not be read (audit/verifier.py:80-108, audit/checks.py).  The       *)
(* repository may have any number of files, but must not change during the  *)
(* audit.                                                                   *)
THEOREM VerdictStandsOnFilesCorrect == GuardedSpec => []VerdictStandsOnFiles
<1>1. IInv => VerdictStandsOnFiles
  BY ImpliesVerifiedIsProven, ImpliesMissingIsFound DEF VerdictStandsOnFiles
<1> QED BY <1>1, Invariance, PTL

(* One test more never costs a verdict and one contradiction more never     *)
(* earns one, for every repository (audit/checks.py:133-158, 313-400).      *)
THEOREM AssessmentMonotoneCorrect == GuardedSpec => []AssessmentMonotone
BY ImpliesAssessmentMonotone, Invariance, PTL

(* A guard stands for a check that fell short, also when the repository     *)
(* changed between the checks (guards/generator.py:102-111).                *)
THEOREM GuardAddressesGapCorrect == GuardedSpec => []GuardAddressesGap
BY ImpliesGuardAddressesGap, Invariance, PTL

-----------------------------------------------------------------------------
(* A constant of a test is all that makes an action VERIFIED without an       *)
(* implementation: it happens to numbers only, and some readable test file    *)
(* holds the value the action asks for (_configuration_values, checks.py:362; *)
(* the scope of the finding of run verdict_test_constant).                    *)
THEOREM OnlyTestConstantsVerify ==
  GuardedSpec => [](~ VerifiedIsImplemented =>
                      /\ requirement = "NUMERIC_CONFIGURATION"
                      /\ \E f \in Readable({"test"}) : "good" \in f.values)
<1>1. ASSUME IInv, ~ VerifiedIsImplemented
      PROVE  /\ requirement = "NUMERIC_CONFIGURATION"
             /\ \E f \in Readable({"test"}) : "good" \in f.values
  <2>1. /\ verdict = "VERIFIED" /\ Stable /\ requirement # "TEST_PROTECTION"
        /\ \A f \in Readable({"python", "config"}) : f.values = {} /\ f.terms = {}
    BY <1>1 DEF VerifiedIsImplemented
  <2>2. ~ Failed(results) /\ \A x \in results : x.outcome \notin NonAssessable
    BY <1>1, <2>1, VerdictCited, VerdictCases DEF Whole, Open
  <2>3. PICK x \in results : x.spec.core
    BY <1>1, <2>1, VerdictCited, CoreResult
  <2>4. /\ repository \in SUBSET Files /\ requirement \in RequirementKind
        /\ x.outcome = Run(x.spec, repository).outcome /\ x.outcome \in Outcome
        /\ x.spec.type = CheckType(requirement)
    BY <1>1, <2>1, <2>3, ResultSpec DEF IInv, GuardTypeOK, TypeOK, Traced, Result
  <2>5. x.outcome = "PASSED"
    BY <2>2, <2>3, <2>4 DEF Failed, Outcome
  <2>6. CASE requirement \in {"RUNTIME_CONTEXT", "NUMERIC_NO_SUBJECT", "UNSUPPORTED"}
    <3>1. x.spec.type \in {"RUNTIME_CONTEXT", "UNSUPPORTED"}
      BY <2>4, <2>6 DEF CheckType
    <3>2. x.outcome \in {"UNAVAILABLE", "UNSUPPORTED"}
      BY <2>4, <3>1 DEF Run, Execution
    <3> QED BY <2>5, <3>2
  <2>7. CASE requirement = "CODE_STATIC"
    <3>1. UNION {f.terms : f \in Readable({"python", "config"})} = Terms
      BY <1>1, <2>1, <2>7, ImpliesVerifiedIsProven DEF VerifiedIsProven
    <3>2. PICK t \in Terms : TRUE
      BY TermsAssumption
    <3>3. PICK f \in Readable({"python", "config"}) : t \in f.terms
      BY <3>1, <3>2
    <3> QED BY <2>1, <3>3
  <2>8. CASE requirement = "NUMERIC_CONFIGURATION"
    <3>1. Configuration(repository).outcome = "PASSED"
      BY <2>4, <2>5, <2>8 DEF CheckType, Run
    <3>2. PICK f \in repository : "good" \in f.values
      BY <2>4, <3>1, ConfigurationIs
    <3>3. f.readable /\ f.kind \in {"python", "config", "test"}
      BY <2>4, <3>2 DEF Files, File
    <3>4. f.kind = "test"
      BY <2>1, <3>2, <3>3 DEF Readable
    <3> QED BY <2>8, <3>2, <3>3, <3>4 DEF Readable
  <2> QED BY <2>1, <2>4, <2>6, <2>7, <2>8 DEF RequirementKind
<1> QED BY <1>1, Invariance, PTL
============================================================================
