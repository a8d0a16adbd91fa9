-------------------------- MODULE ActionAssessment --------------------------
(***************************************************************************)
(* How one corrective action gets its verdict: the invariant compiler      *)
(* (audit/compiler.py) chooses its checks, DeterministicCheckRunner        *)
(* (audit/checks.py) runs them one after the other on the repository, and  *)
(* VerdictEngine (audit/verifier.py) aggregates results and evidence.      *)
(*                                                                         *)
(* A repository is a set of files; of a file the model keeps what a check  *)
(* can find in it.  Each check walks the repository anew, and the          *)
(* repository is a working copy: it may change between two checks.         *)
(***************************************************************************)
EXTENDS Integers

CONSTANTS Terms,       \* the action's material terms
          MaxFiles,    \* bound: files of the repository at the start
          MaxCommits   \* bound: changes to the repository during the audit

ASSUME TermsAssumption == Terms # {} /\ MaxFiles \in Nat /\ MaxCommits \in Nat

(* What the compiler makes of the action's text.  A number whose subject no *)
(* key family names is measurable but unsupported.                          *)
RequirementKind == {"RUNTIME_CONTEXT", "NUMERIC_CONFIGURATION", "NUMERIC_NO_SUBJECT",
                    "TEST_PROTECTION", "CODE_STATIC", "UNSUPPORTED"}

CheckType(requirement) ==
  CASE requirement = "RUNTIME_CONTEXT"       -> "RUNTIME_CONTEXT"
    [] requirement = "NUMERIC_CONFIGURATION" -> "CONFIGURATION_VALUE"
    [] requirement = "TEST_PROTECTION"       -> "TEST_PROTECTION"
    [] requirement = "CODE_STATIC"           -> "STATIC_CODE"
    [] OTHER                                 -> "UNSUPPORTED"

(* Every requirement has one core check; numbers and code also get a check *)
(* for a regression test that is not core.                                 *)
Specs(requirement) ==
  {[type |-> CheckType(requirement), core |-> TRUE]} \cup
  (IF requirement \in {"NUMERIC_CONFIGURATION", "NUMERIC_NO_SUBJECT", "CODE_STATIC"}
   THEN {[type |-> "TEST_PROTECTION", core |-> FALSE]} ELSE {})

(* A python, configuration or test file is readable or not UTF-8.  Values   *)
(* of keys that match the action satisfy or contradict it; terms occur in    *)
(* calls, wiring or enabled configuration; a test asserts on the imported    *)
(* implementation or does not.                                               *)
File == [kind : {"python", "config", "test", "document"}, readable : BOOLEAN,
         values : SUBSET {"good", "bad"}, terms : SUBSET Terms, asserts : BOOLEAN]

Files == {f \in File : /\ f.kind # "test" => ~ f.asserts
                       /\ f.kind \in {"test", "document"} => f.terms = {}
                       /\ f.kind = "document" \/ ~ f.readable => f.values \cup f.terms = {}
                       /\ ~ f.readable => ~ f.asserts /\ f.kind # "document"}

EvidenceOf(kind, role) == [kind |-> kind, role |-> role]
Missing == EvidenceOf("ABSENT", "MISSING")
Execution(outcome, evidence) == [outcome |-> outcome, evidence |-> evidence]

(* EvidenceKind of what is found in a file: by suffix for the checks. *)
KindOf(f) == IF f.kind = "config" THEN "CONFIGURATION" ELSE "CODE"

(* An unreadable file that a check decodes ends that check as an ERROR. *)
Decoded(files, execution) ==
  IF \A f \in files : f.readable THEN execution ELSE Execution("ERROR", {})

-----------------------------------------------------------------------------
(* DeterministicCheckRunner *)

(* _configuration: constants of every python file, those of tests included, *)
(* and keys of configuration files, where an unreadable file is passed over. *)
Configuration(repository) ==
  LET python == {f \in repository : f.kind \in {"python", "test"}}
      Observations(value, role) == {EvidenceOf(KindOf(f), role) :
                                      f \in {g \in repository : value \in g.values}}
      good == Observations("good", "SUPPORTING")
      bad == Observations("bad", "CONTRADICTORY")
  IN  Decoded(python,
        CASE good \cup bad = {} -> Execution("NOT_FOUND", {Missing})
          [] bad # {}           -> Execution("FAILED", good \cup bad)
          [] OTHER              -> Execution("PASSED", good))

(* _static_code: every term occurs in executable syntax outside the tests. *)
StaticCode(repository) ==
  LET scanned == {f \in repository : f.kind \in {"python", "config"}}
      missing == Terms \ UNION {f.terms : f \in scanned}
      uses == {EvidenceOf(KindOf(f), "SUPPORTING") : f \in {g \in scanned : g.terms # {}}}
  IN  Decoded(scanned,
        IF missing = {} THEN Execution("PASSED", uses)
                        ELSE Execution("NOT_FOUND", uses \cup {Missing}))

(* Mutant of TestProtection: every test file has to match. *)
EveryTestProtects(repository) ==
  LET tests == {f \in repository : f.kind = "test"}
  IN  Decoded(tests,
        IF tests # {} /\ \A f \in tests : f.asserts
        THEN Execution("PASSED", {EvidenceOf("TEST", "SUPPORTING")})
        ELSE Execution("NOT_FOUND", {Missing}))

(* _test_protection: some test asserts on a relevant imported symbol. *)
TestProtection(repository) ==
  LET tests == {f \in repository : f.kind = "test"}
  IN  Decoded(tests,
        IF \E f \in tests : f.asserts
        THEN Execution("PASSED", {EvidenceOf("TEST", "SUPPORTING")})
        ELSE Execution("NOT_FOUND", {Missing}))

Run(spec, repository) ==
  CASE spec.type = "CONFIGURATION_VALUE" -> Configuration(repository)
    [] spec.type = "STATIC_CODE"         -> StaticCode(repository)
    [] spec.type = "TEST_PROTECTION"     -> TestProtection(repository)
    [] spec.type = "RUNTIME_CONTEXT"     ->
         Execution("UNAVAILABLE", {EvidenceOf("ABSENT", "UNAVAILABLE")})
    [] OTHER                             -> Execution("UNSUPPORTED", {Missing})

-----------------------------------------------------------------------------
(* VerdictEngine.verify_action *)

NonAssessable == {"UNAVAILABLE", "UNSUPPORTED", "ERROR"}

(* Mutant of Supporting: retrieved candidates count like checked evidence. *)
SupportingAny(evidence) == {e \in evidence : e.role \in {"SUPPORTING", "SUPPORTING_ONLY"}}

Supporting(evidence) == {e \in evidence : e.role = "SUPPORTING"}

Credible(requirement, evidence) ==
  {e \in Supporting(evidence) :
     e.kind \in {"CODE", "CONFIGURATION", "EXECUTION"} \cup
                (IF requirement = "TEST_PROTECTION" THEN {"TEST"} ELSE {})}

Regression(evidence) == \E e \in Supporting(evidence) : e.kind = "TEST"
Contradicted(evidence) == \E e \in evidence : e.role = "CONTRADICTORY"

Verdict(requirement, results, evidence) ==
  LET passed == \E x \in results : x.outcome = "PASSED"
      failed == \E x \in results : x.spec.core /\ x.outcome \in {"FAILED", "NOT_FOUND"}
      nonAssessable == {x \in results : x.outcome \in NonAssessable}
      credible == Credible(requirement, evidence) # {}
  IN  CASE failed -> "MISSING"
        [] ~ failed /\ results # {} /\ nonAssessable = results -> "UNVERIFIABLE"
        [] ~ failed /\ nonAssessable # results ->
             IF /\ passed /\ credible /\ Regression(evidence)
                /\ ~ Contradicted(evidence) /\ nonAssessable = {}
             THEN "VERIFIED"
             ELSE IF passed \/ credible THEN "PARTIAL" ELSE "MISSING"
        [] OTHER -> IF credible THEN "PARTIAL" ELSE "MISSING"

-----------------------------------------------------------------------------
VARIABLES
  requirement, \* what the action was compiled to
  repository,  \* the files now
  stage,       \* "retrieve", "check", "done"
  results,     \* deterministic_check_results of the action
  evidence,    \* evidence records of the action
  verdict,     \* "NONE" before it is assigned
  commits      \* changes of the repository since the audit began

vars == <<requirement, repository, stage, results, evidence, verdict, commits>>

Outcome == {"PASSED", "FAILED", "NOT_FOUND"} \cup NonAssessable
Result == [spec : Specs(requirement), outcome : Outcome]
Evidence == [kind : {"CODE", "CONFIGURATION", "TEST", "DOCUMENT", "ABSENT"},
             role : {"SUPPORTING", "SUPPORTING_ONLY", "CONTRADICTORY", "MISSING", "UNAVAILABLE"}]

TypeOK ==
  /\ requirement \in RequirementKind
  /\ repository \subseteq Files
  /\ stage \in {"retrieve", "check", "done"}
  /\ results \subseteq Result
  /\ \A x, y \in results : x.spec = y.spec => x = y
  /\ evidence \subseteq Evidence
  /\ verdict \in {"NONE", "VERIFIED", "PARTIAL", "MISSING", "UNVERIFIABLE"}
  /\ stage = "done" <=> verdict # "NONE"
  /\ commits \in 0..MaxCommits

Init ==
  /\ requirement \in RequirementKind
  /\ repository \in {{f[i] : i \in 1..n} : n \in 0..MaxFiles, f \in [1..MaxFiles -> Files]}
  /\ stage = "retrieve" /\ results = {} /\ evidence = {} /\ verdict = "NONE"
  /\ commits = 0

(* AuditWorkflow._retrieve_candidates: the retriever ranks any chunks of the *)
(* readable files as candidates, if some check is supported.                 *)
CandidateKind(f) == CASE f.kind = "python"   -> "CODE"
                      [] f.kind = "config"   -> "CONFIGURATION"
                      [] f.kind = "test"     -> "TEST"
                      [] f.kind = "document" -> "DOCUMENT"

RetrieveCandidates ==
  /\ stage = "retrieve"
  /\ stage' = "check"
  /\ \E candidates \in SUBSET {CandidateKind(f) : f \in {g \in repository : g.readable}} :
       /\ requirement \in {"RUNTIME_CONTEXT", "UNSUPPORTED"} => candidates = {}
       /\ evidence' = {EvidenceOf(kind, "SUPPORTING_ONLY") : kind \in candidates}
  /\ UNCHANGED <<requirement, repository, results, verdict, commits>>

Ran == {x.spec : x \in results}

(* Mutant of RunCheck: a check may run again. *)
RunCheckAgain(spec) ==
  /\ stage = "check"
  /\ LET execution == Run(spec, repository) IN
     /\ results' = results \cup {[spec |-> spec, outcome |-> execution.outcome]}
     /\ evidence' = evidence \cup execution.evidence
  /\ UNCHANGED <<requirement, repository, stage, verdict, commits>>

(* AuditWorkflow._investigate_checks: the core check first. *)
RunCheck(spec) ==
  /\ stage = "check"
  /\ spec \notin Ran
  /\ ~ spec.core => Ran # {}
  /\ LET execution == Run(spec, repository) IN
     /\ results' = results \cup {[spec |-> spec, outcome |-> execution.outcome]}
     /\ evidence' = evidence \cup execution.evidence
  /\ UNCHANGED <<requirement, repository, stage, verdict, commits>>

(* AuditWorkflow._assign_verdicts *)
AssignVerdict ==
  /\ stage = "check"
  /\ Ran = Specs(requirement)
  /\ stage' = "done"
  /\ verdict' = Verdict(requirement, results, evidence)
  /\ UNCHANGED <<requirement, repository, results, evidence, commits>>

(* Somebody adds or removes a file of the working copy. *)
Commit ==
  /\ stage # "done"
  /\ commits < MaxCommits
  /\ commits' = commits + 1
  /\ \/ \E f \in Files : repository' = repository \cup {f}
     \/ \E f \in repository : repository' = repository \ {f}
  /\ UNCHANGED <<requirement, stage, results, evidence, verdict>>

(* A finished assessment is only read. *)
Read == stage = "done" /\ UNCHANGED vars

Next == \/ RetrieveCandidates
        \/ \E spec \in Specs(requirement) : RunCheck(spec)
        \/ AssignVerdict
        \/ Commit
        \/ Read

Spec == Init /\ [][Next]_vars

-----------------------------------------------------------------------------
(* Properties *)

Stable == commits = 0
Readable(kinds) == {f \in repository : f.kind \in kinds /\ f.readable}

VerifiedIsProven ==
  verdict = "VERIFIED" =>
    /\ \E f \in Readable({"test"}) : f.asserts
    /\ requirement = "CODE_STATIC" =>
         UNION {f.terms : f \in Readable({"python", "config"})} = Terms
    /\ requirement = "NUMERIC_CONFIGURATION" =>
         /\ \A f \in repository : f.readable \/ f.kind = "config"
         /\ \A f \in repository : "bad" \notin f.values

MissingIsFound ==
  verdict = "MISSING" =>
    \/ \E x \in results : x.spec.core /\ x.outcome \in {"FAILED", "NOT_FOUND"}
    \/ requirement = "NUMERIC_NO_SUBJECT"
    \/ \E f \in repository : ~ f.readable

(* A verdict stands on the repository itself, whatever the retriever found.  *)
(* VERIFIED: a test asserts on the implementation, code has every term in    *)
(* executable syntax outside the tests, a number was looked for in every     *)
(* python file and no file contradicts it (ADR-014, ARCHITECTURE section     *)
(* 11).  MISSING: the core check found out, except for a number without a    *)
(* subject and beside a file that is not UTF-8, which DECISIONS.md:58        *)
(* ("Unknown context must not be collapsed into missing") does not exempt.   *)
(* Only for a repository that did not change during the audit.               *)
VerdictStandsOnFiles == Stable => VerifiedIsProven /\ MissingIsFound

(* The assessment of a repository as it is, without candidates. *)
Assess(files) ==
  LET executions == {<<spec, Run(spec, files)>> : spec \in Specs(requirement)}
  IN  Verdict(requirement,
              {[spec |-> x[1], outcome |-> x[2].outcome] : x \in executions},
              UNION {x[2].evidence : x \in executions})

Rank(v) == CASE v = "UNVERIFIABLE" -> 0 [] v = "MISSING" -> 1
             [] v = "PARTIAL" -> 2      [] v = "VERIFIED" -> 3

(* A test that contradicts nothing never costs a verdict, and a file that   *)
(* contradicts the action never earns one, whatever else is there.          *)
AssessmentMonotone ==
  stage = "retrieve" =>
    \A f \in Files :
      /\ f.kind = "test" /\ f.readable /\ "bad" \notin f.values =>
           Rank(Assess(repository \cup {f})) >= Rank(Assess(repository))
      /\ f.values = {"bad"} /\ f.terms = {} /\ ~ f.asserts =>
           Rank(Assess(repository \cup {f})) <= Rank(Assess(repository))

(* "Declarations ... and constant-only or unrelated test assertions cannot  *)
(* establish implementation proof" (ARCHITECTURE section 11): what is        *)
(* VERIFIED is implemented outside the tests.  A constant in a test file     *)
(* breaks it for numbers.                                                    *)
VerifiedIsImplemented ==
  verdict = "VERIFIED" /\ Stable /\ requirement # "TEST_PROTECTION" =>
    \E f \in Readable({"python", "config"}) : f.values \cup f.terms # {}
============================================================================
