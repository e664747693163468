------------------------------ MODULE PhoenixLoop ------------------------------
(***************************************************************************)
(* TestWriterWorker.run (src/src/pipeline/workers/test_writer_worker.py):  *)
(* one finding's proof of concept.  A test harness is built and the model  *)
(* asked for the exploit's body only; failing that, the model writes whole *)
(* tests, each compiled and run, until one proves the exploit, a guard     *)
(* falsifies it or the attempts are used up.                               *)
(*                                                                         *)
(* Contracts older than Solidity 0.8 are tested in bridge mode with two    *)
(* files: the program writes ExploitTest.t.sol, the scaffold, and the      *)
(* model only AttackContract.sol, which the scaffold runs.                 *)
(*                                                                         *)
(* The worker is suspended only while it awaits the model (harnessModel,   *)
(* model, variant); it can be cancelled there and nowhere else.  What a    *)
(* prompt says, and so which errors it repeats, is left out.               *)
(***************************************************************************)
EXTENDS Integers

CONSTANTS
    Modes,        \* the kinds of task a run may be given
    MaxAttempts,  \* MAX_ATTEMPTS, 6 in the code
    HarnessMax,   \* attempts of the harness loop, 4 in the code
    MockMax       \* attempts without the real source, 2 in the code

(* real: the target's source was found; bridge: it is older than 0.8;      *)
(* harness: HARNESS_MODE; template: there is one for the finding's class.  *)
Mode == [real : BOOLEAN, bridge : BOOLEAN, harness : BOOLEAN, template : BOOLEAN]

ASSUME PhoenixAssumption ==
    /\ Modes \subseteq Mode
    /\ MaxAttempts \in Nat \ {0}
    /\ HarnessMax \in Nat \ {0}
    /\ MockMax \in Nat \ {0}

VARIABLES
    mode,
    pc,
    attempts,
    harnessAttempts,
    test,      \* what ExploitTest.t.sol holds
    attack,    \* what AttackContract.sol holds
    code,      \* test_code_generated
    timelock,  \* has_timelock
    compiled,
    proven,    \* exploit_success
    proof,     \* what ExploitTest.t.sol held when proven was set
    asked,     \* calls of the model so far
    saved      \* the artifact in proven_exploits

files == <<test, attack>>
verdict == <<compiled, proven, proof>>
counters == <<attempts, harnessAttempts, asked>>
vars == <<mode, pc, counters, files, code, timelock, verdict, saved>>

(***************************************************************************)
(* A file: who wrote it and what is true of it.  Of AttackContract.sol,    *)
(* passes says that the scaffold passes when it runs it.                   *)
(***************************************************************************)
Authors == {"nobody", "scaffold", "harness", "model", "template"}

Code == [by : Authors, compiles : BOOLEAN, passes : BOOLEAN,
         authentic : BOOLEAN, asserts : BOOLEAN]

NoCode == [by |-> "nobody", compiles |-> TRUE, passes |-> FALSE,
           authentic |-> FALSE, asserts |-> FALSE]

(* What the code taken from an answer may be, once repeated interfaces and *)
(* a second exploitSucceeded are cut out of it: what passes compiles.     *)
Written(by) == {c \in Code : c.by = by /\ (c.passes => c.compiles)}

(* _generate_test_scaffold deploys the real target and asserts.            *)
Scaffold == [by |-> "scaffold", compiles |-> TRUE, passes |-> TRUE,
             authentic |-> TRUE, asserts |-> TRUE]

(* HarnessBuilder.build: a test of the real target with an empty body.     *)
Harnesses == {c \in Written("harness") : c.authentic /\ ~c.asserts}

(* A template imports the real target; it is not given to the check.       *)
Templates == {c \in Written("template") : c.authentic}

Pc == {"start", "build", "harness", "harnessModel", "loop", "model", "variant",
       "finish", "done", "cancelled", "raised"}

TypeOK ==
    /\ mode \in Modes
    /\ pc \in Pc
    /\ attempts \in 0..MaxAttempts
    /\ harnessAttempts \in 0..HarnessMax
    /\ test \in Code
    /\ attack \in Code
    /\ code \in Code
    /\ timelock \in BOOLEAN
    /\ compiled \in BOOLEAN
    /\ proven \in BOOLEAN
    /\ proof \in Code
    /\ asked \in Nat
    /\ saved \in BOOLEAN

Init ==
    /\ mode \in Modes
    /\ pc = "start"
    /\ attempts = 0
    /\ harnessAttempts = 0
    /\ test = NoCode
    /\ attack = NoCode
    /\ code = NoCode
    /\ timelock \in BOOLEAN
    /\ compiled = FALSE
    /\ proven = FALSE
    /\ proof = NoCode
    /\ asked = 0
    /\ saved = FALSE

Least(m, n) == IF m <= n THEN m ELSE n

(* effective_max: the attempts both loops share.                           *)
EffectiveMax == IF mode.real THEN MaxAttempts ELSE Least(MockMax, MaxAttempts)

(* harness_max.                                                            *)
HarnessLimit == Least(HarnessMax, EffectiveMax)

-----------------------------------------------------------------------------
(***************************************************************************)
(* What forge says of test file t and attack contract a.  A command that   *)
(* times out, or cannot start, has failed without a compiler's message.    *)
(***************************************************************************)
Outcomes(t, a) ==
    {"timeout"} \cup
    IF ~t.compiles \/ ~a.compiles
      THEN {"compile"}
      ELSE IF (IF t.by = "scaffold" THEN a.passes ELSE t.passes)
             THEN {"pass"}
             ELSE {"fail"}

(* _has_meaningful_assertions is asked of the code the model wrote.        *)
Meaningful(c) == c.asserts

(* _check_test_authenticity.                                               *)
Authentic(c) == c.authentic

Prove(t, c) ==
    /\ compiled' = TRUE
    /\ proven' = TRUE
    /\ proof' = t
    /\ code' = c
    /\ pc' = "finish"

(***************************************************************************)
(* The sandbox is set up, in bridge mode with the scaffold; this may raise.*)
(***************************************************************************)
Setup ==
    /\ pc = "start"
    /\ \/ /\ pc' = IF mode.harness /\ mode.real THEN "build" ELSE "loop"
          /\ test' = IF mode.bridge THEN Scaffold ELSE NoCode
       \/ /\ pc' = "raised"
          /\ UNCHANGED test
    /\ UNCHANGED <<mode, counters, attack, code, timelock, verdict, saved>>

(***************************************************************************)
(* Phase A: the harness is written to ExploitTest.t.sol and compiled, with *)
(* fixes, unless building it raises first.                                 *)
(***************************************************************************)
BuildHarness ==
    /\ pc = "build"
    /\ \/ pc' = "loop" /\ UNCHANGED test
       \/ pc' = "loop" /\ test' \in Harnesses
       \/ pc' = "harness" /\ test' \in {h \in Harnesses : h.compiles}
    /\ UNCHANGED <<mode, counters, attack, code, timelock, verdict, saved>>

(* Phase B: the model is asked for the body of test_exploit.               *)
HarnessAsk ==
    /\ pc = "harness"
    /\ harnessAttempts < HarnessLimit
    /\ harnessAttempts' = harnessAttempts + 1
    /\ attempts' = attempts + 1
    /\ asked' = asked + 1
    /\ pc' = "harnessModel"
    /\ UNCHANGED <<mode, files, code, timelock, verdict, saved>>

HarnessExhausted ==
    /\ pc = "harness"
    /\ harnessAttempts = HarnessLimit
    /\ pc' = "loop"
    /\ UNCHANGED <<mode, counters, files, code, timelock, verdict, saved>>

(* No answer in time, an error, or no body in the answer.                  *)
HarnessNoBody ==
    /\ pc = "harnessModel"
    /\ pc' = "harness"
    /\ UNCHANGED <<mode, counters, files, code, timelock, verdict, saved>>

(* The body goes into the harness, which is compiled and then run.  The    *)
(* build alone may succeed before the test times out.                      *)
HarnessBody ==
    /\ pc = "harnessModel"
    /\ \E c \in Written("model") : \E o \in Outcomes(c, attack) :
         /\ test' = c
         /\ IF o = "pass" /\ Authentic(c) /\ Meaningful(c)
              THEN Prove(c, c)
              ELSE /\ code' = c
                   /\ \/ compiled' = (compiled \/ o \in {"pass", "fail"})
                      \/ compiled' = TRUE /\ o = "timeout" /\ c.compiles
                   /\ pc' = "harness"
                   /\ UNCHANGED <<proven, proof>>
    /\ UNCHANGED <<mode, counters, attack, timelock, saved>>

(* Writing the file raises: the handler around both phases gives up.       *)
HarnessBreaks ==
    /\ pc = "harnessModel"
    /\ code' \in Written("model")
    /\ pc' = "loop"
    /\ UNCHANGED <<mode, counters, files, timelock, verdict, saved>>

-----------------------------------------------------------------------------
(***************************************************************************)
(* The loop of full prompts.  Its first attempt is the template's, when no *)
(* harness attempt came before.                                            *)
(***************************************************************************)
TakesTemplate == attempts = 0 /\ ~mode.bridge /\ mode.template

\* Mutant: the template does not count as an attempt.
TryTemplateUncounted ==
    /\ pc = "loop"
    /\ attempts < EffectiveMax
    /\ TakesTemplate
    /\ \E c \in Templates : \E o \in Outcomes(c, attack) :
         /\ test' = c
         /\ IF o = "pass" /\ Meaningful(c)
              THEN Prove(c, c)
              ELSE /\ code' = c
                   /\ pc' = "loop"
                   /\ UNCHANGED verdict
    /\ UNCHANGED <<mode, counters, attack, timelock, saved>>

TryTemplate ==
    /\ pc = "loop"
    /\ attempts < EffectiveMax
    /\ TakesTemplate
    /\ attempts' = attempts + 1
    /\ \E c \in Templates : \E o \in Outcomes(c, attack) :
         /\ test' = c
         /\ IF o = "pass" /\ Meaningful(c)
              THEN Prove(c, c)
              ELSE /\ code' = c
                   /\ pc' = "loop"
                   /\ UNCHANGED verdict
    /\ UNCHANGED <<mode, harnessAttempts, attack, timelock, asked, saved>>

\* Mutant: one attempt too many.
AskLate ==
    /\ pc = "loop"
    /\ attempts <= EffectiveMax
    /\ ~TakesTemplate
    /\ attempts' = attempts + 1
    /\ asked' = asked + 1
    /\ pc' = "model"
    /\ UNCHANGED <<mode, harnessAttempts, files, code, timelock, verdict, saved>>

Ask ==
    /\ pc = "loop"
    /\ attempts < EffectiveMax
    /\ ~TakesTemplate
    /\ attempts' = attempts + 1
    /\ asked' = asked + 1
    /\ pc' = "model"
    /\ UNCHANGED <<mode, harnessAttempts, files, code, timelock, verdict, saved>>

Exhausted ==
    /\ pc = "loop"
    /\ attempts >= EffectiveMax
    /\ pc' = "finish"
    /\ UNCHANGED <<mode, counters, files, code, timelock, verdict, saved>>

(* No answer, no code in it (test_code_generated is then empty), or code   *)
(* without the function or contract that is asked for.                     *)
NoTest ==
    /\ pc = "model"
    /\ code' \in {code, NoCode} \cup Written("model")
    /\ pc' = "loop"
    /\ UNCHANGED <<mode, counters, files, timelock, verdict, saved>>

(* In bridge mode the model's code is the attack contract.                 *)
WriteCode(c) ==
    IF mode.bridge
      THEN attack' = c /\ UNCHANGED test
      ELSE test' = c /\ UNCHANGED attack

(* Written and run, and forge reports a compilation error.                 *)
TestUncompiled ==
    /\ pc = "model"
    /\ \E c \in Written("model") :
         /\ WriteCode(c)
         /\ "compile" \in Outcomes(test', attack')
         /\ code' = c
    /\ compiled' = FALSE
    /\ pc' = "loop"
    /\ UNCHANGED <<mode, counters, timelock, proven, proof, saved>>

\* Mutant: in every mode a test that passes counts as authentic.
ProvesUnchecked(c, o) == o = "pass" /\ Meaningful(c)

(* Anything else counts as compiled.  In bridge mode a test that passes is *)
(* authentic "by architecture".                                            *)
Proves(c, o) == o = "pass" /\ Meaningful(c) /\ (mode.bridge \/ Authentic(c))

TestProves ==
    /\ pc = "model"
    /\ \E c \in Written("model") :
         /\ WriteCode(c)
         /\ \E o \in Outcomes(test', attack') : Proves(c, o)
         /\ Prove(test', c)
    /\ UNCHANGED <<mode, counters, timelock, saved>>

\* Mutant: exploit_success is not reset.
TestFabricatedKept ==
    /\ pc = "model"
    /\ \E c \in Written("model") :
         /\ WriteCode(c)
         /\ "pass" \in Outcomes(test', attack')
         /\ Meaningful(c)
         /\ ~mode.bridge /\ ~Authentic(c)
         /\ code' = c
    /\ compiled' = TRUE
    /\ proven' = TRUE
    /\ pc' = "loop"
    /\ UNCHANGED <<mode, counters, timelock, proof, saved>>

(* It passed, but against a mock: rejected.                                *)
TestFabricated ==
    /\ pc = "model"
    /\ \E c \in Written("model") :
         /\ WriteCode(c)
         /\ "pass" \in Outcomes(test', attack')
         /\ Meaningful(c)
         /\ ~mode.bridge /\ ~Authentic(c)
         /\ code' = c
    /\ compiled' = TRUE
    /\ proven' = FALSE
    /\ pc' = "loop"
    /\ UNCHANGED <<mode, counters, timelock, proof, saved>>

(* A lock in the trace: the scaffold is written again with a vm.warp,      *)
(* unless the source had shown the lock before.                            *)
WarpScaffold(t) ==
    IF mode.bridge /\ ~timelock THEN Scaffold ELSE t

\* Mutant: a variant is tried after the last attempt as well.
VariantAlways == ~mode.bridge

MayVary == ~mode.bridge /\ attempts < EffectiveMax

(* It failed, timed out, or passed without an assertion.  The trace shows  *)
(* a time lock, a guard that falsifies the exploit, or neither: then one   *)
(* variant is asked for if an attempt is left.                             *)
TestFails ==
    /\ pc = "model"
    /\ \E c \in Written("model") :
         LET t == IF mode.bridge THEN test ELSE c
             a == IF mode.bridge THEN c ELSE attack
         IN /\ \/ Outcomes(t, a) \cap {"fail", "timeout"} # {}
               \/ "pass" \in Outcomes(t, a) /\ ~Meaningful(c)
            /\ attack' = a
            /\ code' = c
            /\ \/ test' = WarpScaffold(t) /\ timelock' = TRUE /\ pc' = "loop"
                  /\ UNCHANGED asked
               \/ test' = t /\ pc' = "finish" /\ UNCHANGED <<timelock, asked>>
               \/ /\ test' = t
                  /\ UNCHANGED timelock
                  /\ IF MayVary
                       THEN pc' = "variant" /\ asked' = asked + 1
                       ELSE pc' = "loop" /\ UNCHANGED asked
    /\ compiled' = TRUE
    /\ proven' = FALSE
    /\ UNCHANGED <<mode, attempts, harnessAttempts, proof, saved>>

(* No variant, or one that is not accepted; it stays in the test file.     *)
VariantFails ==
    /\ pc = "variant"
    /\ \/ UNCHANGED test
       \/ \E c \in Written("model") :
            /\ \E o \in Outcomes(c, attack) :
                 ~(o = "pass" /\ Authentic(c) /\ Meaningful(c))
            /\ test' = c
    /\ pc' = "loop"
    /\ UNCHANGED <<mode, counters, attack, code, timelock, verdict, saved>>

VariantProves ==
    /\ pc = "variant"
    /\ \E c \in Written("model") :
         /\ "pass" \in Outcomes(c, attack)
         /\ Authentic(c) /\ Meaningful(c)
         /\ test' = c
         /\ proven' = TRUE
         /\ proof' = c
         /\ code' = c
    /\ pc' = "finish"
    /\ UNCHANGED <<mode, counters, attack, timelock, compiled, saved>>

-----------------------------------------------------------------------------
(* The finally block: the artifact is saved, the sandbox removed.          *)
SaveArtifact == saved' = (proven /\ code # NoCode)

Finish ==
    /\ pc = "finish"
    /\ SaveArtifact
    /\ pc' = "done"
    /\ UNCHANGED <<mode, counters, files, code, timelock, verdict>>

(* The caller's timeout, at any await.                                     *)
Cancel ==
    /\ pc \in {"harnessModel", "model", "variant"}
    /\ SaveArtifact
    /\ pc' = "cancelled"
    /\ UNCHANGED <<mode, counters, files, code, timelock, verdict>>

HarnessStep ==
    \/ BuildHarness \/ HarnessAsk \/ HarnessExhausted
    \/ HarnessNoBody \/ HarnessBody \/ HarnessBreaks

LoopStep ==
    \/ TryTemplate \/ Ask \/ Exhausted
    \/ NoTest \/ TestUncompiled \/ TestProves \/ TestFabricated \/ TestFails
    \/ VariantFails \/ VariantProves

Step == Setup \/ HarnessStep \/ LoopStep \/ Finish

Next == Step \/ Cancel

(* Calls of the model and of forge end under timeouts.                     *)
Spec == Init /\ [][Next]_vars /\ WF_vars(Step)

-----------------------------------------------------------------------------
(***************************************************************************)
(* An exploit is reported as proven only if the test that passed deploys   *)
(* the real target and asserts something, and the code that is reported    *)
(* and saved is the code that this test ran.                               *)
(***************************************************************************)
ProvenIsEarned ==
    proven =>
      /\ compiled
      /\ proof.authentic /\ proof.asserts /\ proof.passes
      /\ code = IF proof.by = "scaffold" THEN attack ELSE proof

(***************************************************************************)
(* However the two loops and the variants share the attempts, a run asks   *)
(* the model less than twice per attempt.                                  *)
(***************************************************************************)
CallsBounded == asked <= 2 * EffectiveMax - 1

(***************************************************************************)
(* An artifact is left only by a run that reports a proof.                 *)
(***************************************************************************)
SavedIsReported == saved => pc = "done" /\ compiled /\ proven

(***************************************************************************)
(* Every run ends, with the sandbox removed.                               *)
(***************************************************************************)
RunEnds == <>(pc \in {"done", "cancelled", "raised"})
=============================================================================
