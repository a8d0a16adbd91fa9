--------------------------- MODULE GeneratedGuard ---------------------------
(***************************************************************************)
(* The guard GuardGenerator (guards/generator.py) derives from an assessed *)
(* action, composed with the assessment that leaves the gap: which of the  *)
(* action's checks the guard stands for, and what the generated program    *)
(* demands of a repository.                                                *)
(*                                                                         *)
(* The generated program looks for terms and literals as substrings of one *)
(* text, the checks compare names, keys and values.  What a file that the  *)
(* program reads lends to that text is therefore open; only a repository   *)
(* without such a file lends nothing.                                      *)
(***************************************************************************)
EXTENDS ActionAssessment

VARIABLE guard   \* the GuardSpec of the action

GuardType == {"static_repository", "configuration", "test_protection"}
Guard == [type : GuardType, terms : SUBSET Terms]
NotYet == [type |-> "none", terms |-> {}]      \* before generate
Skipped == [type |-> "skipped", terms |-> {}]  \* it emits no guard

(* invariant.unavailable_reason: the compiler found nothing to check. *)
Unavailable == {"RUNTIME_CONTEXT", "NUMERIC_NO_SUBJECT", "UNSUPPORTED"}

(* Mutant of Protected: the two preferences are swapped. *)
ProtectedSwapped(specs, gap) ==
  LET tests == {s \in specs : s.type = "TEST_PROTECTION"}
      preferred == IF gap = "MISSING" THEN tests ELSE specs \ tests
  IN  IF preferred # {} THEN preferred ELSE specs

(* _strategy: an action that is MISSING wants its implementation guarded, one *)
(* that is PARTIAL its test; all checks when there is none of that sort.      *)
Protected(specs, gap) ==
  LET tests == {s \in specs : s.type = "TEST_PROTECTION"}
      preferred == IF gap = "MISSING" THEN specs \ tests ELSE tests
  IN  IF preferred # {} THEN preferred ELSE specs

TypeFor(specs) ==
  CASE \E s \in specs : s.type = "CONFIGURATION_VALUE" -> "configuration"
    [] \E s \in specs : s.type = "TEST_PROTECTION"     -> "test_protection"
    [] OTHER                                           -> "static_repository"

(* GuardGenerator.generate: only PARTIAL and MISSING actions with something   *)
(* to check get a guard.  It keeps the first six terms that are safe to quote *)
(* (any of them, here), and none is generated when no term is left.           *)
GenerateGuard ==
  /\ stage = "done" /\ guard = NotYet
  /\ IF verdict \in {"PARTIAL", "MISSING"} /\ requirement \notin Unavailable
     THEN \E terms \in SUBSET Terms :
            guard' = IF terms = {} THEN Skipped
                     ELSE [type |-> TypeFor(Protected(Specs(requirement), verdict)),
                           terms |-> terms]
     ELSE guard' = Skipped
  /\ UNCHANGED vars

(* The files whose content the generated program looks at: python of any    *)
(* sort, tests only for a test guard, configuration only for a guard of it. *)
LookedAt(g, files) ==
  {f \in files : \/ f.kind = "test"
                 \/ f.kind = "python" /\ g.type # "test_protection"
                 \/ f.kind = "config" /\ g.type = "configuration"}

(* The generated program may end with 0: any term of a configuration guard *)
(* or every term of the others is in the text, and a test guard also met   *)
(* an assertion.                                                           *)
MayPass(g, files) ==
  LET inText == IF LookedAt(g, files) = {} THEN {} ELSE g.terms
  IN  /\ IF g.type = "configuration" THEN inText # {} ELSE g.terms \subseteq inText
      /\ g.type = "test_protection" => LookedAt(g, files) # {}

GuardedInit == Init /\ guard = NotYet

GuardedNext == \/ Next /\ UNCHANGED guard
               \/ GenerateGuard

GuardedSpec == GuardedInit /\ [][GuardedNext]_<<vars, guard>>

-----------------------------------------------------------------------------
(* Properties *)

GuardTypeOK == TypeOK /\ guard \in {NotYet, Skipped} \cup Guard

(* A guard asks for what the audit found to be absent, not for what is       *)
(* already there: the branches of the verdict (verifier.py:80-108) and the   *)
(* strategy (generator.py:102-111) agree on which check fell short.  Only an *)
(* implementation that could not be read leaves a PARTIAL action whose test  *)
(* passed and is guarded all the same.  And on a repository with nothing to  *)
(* look at the guard fails: it never holds for want of terms.                *)
GuardAddressesGap ==
  guard \in Guard =>
    /\ \A x \in results :
         x.spec \in Protected(Specs(requirement), verdict) /\ x.outcome = "PASSED" =>
           \E y \in results : y.spec.core /\ y.outcome = "ERROR"
    /\ \A files \in {{}, repository} :
         LookedAt(guard, files) = {} => ~ MayPass(guard, files)
============================================================================
