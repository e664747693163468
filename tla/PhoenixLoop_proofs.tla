-------------------------- MODULE PhoenixLoop_proofs --------------------------
(***************************************************************************)
(* Proofs about PhoenixLoop: its types, the bound on the calls of the      *)
(* model, and, for every mode but the default of bridge mode, that what is *)
(* reported as proven has been.                                            *)
(***************************************************************************)
EXTENDS PhoenixLoop, TLAPS

(* What a file can hold is well typed.                                     *)
LEMMA CodeTypes ==
    /\ NoCode \in Code
    /\ Scaffold \in Code
    /\ Harnesses \subseteq Code
    /\ Templates \subseteq Code
    /\ Written("model") \subseteq Code
BY DEF NoCode, Scaffold, Harnesses, Templates, Written, Code, Authors

(* The limits of the loops are positive, and at most MAX_ATTEMPTS.         *)
LEMMA LimitTypes ==
    ASSUME mode \in Modes
    PROVE  /\ EffectiveMax \in 1..MaxAttempts
           /\ HarnessLimit \in 1..EffectiveMax
           /\ HarnessLimit <= HarnessMax
BY PhoenixAssumption DEF EffectiveMax, HarnessLimit, Least

(* The attempts of the harness loop are the first attempts, which is what  *)
(* keeps both counters within their limits.                                *)
TypeInv ==
    /\ TypeOK
    /\ pc \in {"start", "build", "harness", "harnessModel"}
         => attempts = harnessAttempts

LEMMA InitType == Init => TypeInv
<1> SUFFICES ASSUME Init PROVE TypeInv  OBVIOUS
<1>1. attempts \in 0..MaxAttempts /\ harnessAttempts \in 0..HarnessMax /\ asked \in Nat
  BY PhoenixAssumption DEF Init
<1>2. test \in Code /\ attack \in Code /\ code \in Code /\ proof \in Code
  BY CodeTypes DEF Init
<1>3. mode \in Modes /\ pc \in Pc /\ attempts = harnessAttempts
  BY DEF Init, Pc
<1>4. timelock \in BOOLEAN /\ compiled \in BOOLEAN /\ proven \in BOOLEAN /\ saved \in BOOLEAN
  BY DEF Init
<1> QED
  BY <1>1, <1>2, <1>3, <1>4 DEF TypeInv, TypeOK

LEMMA StepType == TypeInv /\ [Next]_vars => TypeInv'
<1> SUFFICES ASSUME TypeInv, [Next]_vars
             PROVE  TypeInv'
  OBVIOUS
<1> USE CodeTypes, LimitTypes, PhoenixAssumption DEF TypeInv, TypeOK, Pc
<1>1. CASE Setup
  BY <1>1 DEF Setup, counters, verdict
<1>2. CASE BuildHarness
  BY <1>2 DEF BuildHarness, counters, verdict
<1>3. CASE HarnessAsk \/ HarnessExhausted
  BY <1>3 DEF HarnessAsk, HarnessExhausted, counters, files, verdict
<1>4. CASE HarnessNoBody \/ HarnessBreaks
  BY <1>4 DEF HarnessNoBody, HarnessBreaks, counters, files, verdict
<1>5. CASE HarnessBody
  BY <1>5 DEF HarnessBody, Prove, counters
<1>6. CASE TryTemplate
  <2>1. PICK c \in Templates : \E o \in Outcomes(c, attack) :
          /\ test' = c
          /\ \/ o = "pass" /\ Meaningful(c) /\ Prove(c, c)
             \/ code' = c /\ pc' = "loop" /\ UNCHANGED verdict
    BY <1>6 DEF TryTemplate
  <2>2. test' \in Code /\ code' \in Code /\ proof' \in Code /\ attack' \in Code
    BY <1>6, <2>1 DEF TryTemplate, Prove, verdict
  <2>3. compiled' \in BOOLEAN /\ proven' \in BOOLEAN /\ timelock' \in BOOLEAN /\ saved' \in BOOLEAN
    BY <1>6, <2>1 DEF TryTemplate, Prove, verdict
  <2>4. pc' \in {"loop", "finish"}
    BY <2>1 DEF Prove
  <2> QED
    BY <1>6, <2>2, <2>3, <2>4 DEF TryTemplate
<1>7. CASE Ask \/ Exhausted
  BY <1>7 DEF Ask, Exhausted, counters, files, verdict
<1>8. CASE NoTest
  BY <1>8 DEF NoTest, counters, files, verdict
<1>9. CASE TestUncompiled
  BY <1>9 DEF TestUncompiled, WriteCode, counters
<1>10. CASE TestProves
  BY <1>10 DEF TestProves, WriteCode, Prove, counters
<1>11. CASE TestFabricated
  BY <1>11 DEF TestFabricated, WriteCode, counters
<1>12. CASE TestFails
  <2>1. /\ pc' \in {"loop", "finish", "variant"}
        /\ asked' = asked \/ asked' = asked + 1
        /\ UNCHANGED <<mode, attempts, harnessAttempts>>
    BY <1>12 DEF TestFails
  <2>2. test' \in Code /\ attack' \in Code /\ code' \in Code /\ proof' \in Code
    BY <1>12 DEF TestFails, WarpScaffold
  <2>3. compiled' \in BOOLEAN /\ proven' \in BOOLEAN /\ timelock' \in BOOLEAN /\ saved' \in BOOLEAN
    BY <1>12 DEF TestFails
  <2> QED
    BY <2>1, <2>2, <2>3
<1>13. CASE VariantFails \/ VariantProves
  BY <1>13 DEF VariantFails, VariantProves, counters, verdict
<1>14. CASE Finish \/ Cancel
  BY <1>14 DEF Finish, Cancel, SaveArtifact, counters, files, verdict
<1>15. CASE UNCHANGED vars
  BY <1>15 DEF vars, counters, files, verdict
<1> QED
  BY <1>1, <1>2, <1>3, <1>4, <1>5, <1>6, <1>7, <1>8, <1>9, <1>10, <1>11, <1>12,
     <1>13, <1>14, <1>15 DEF Next, Step, HarnessStep, LoopStep

(***************************************************************************)
(* The worker's variables keep their types, and its two counters of        *)
(* attempts never pass their limits.                                       *)
(***************************************************************************)
THEOREM TypeCorrect == Spec => []TypeOK
<1>1. TypeInv => TypeOK
  BY DEF TypeInv
<1> QED
  BY <1>1, InitType, StepType, PTL DEF Spec

-----------------------------------------------------------------------------
(***************************************************************************)
(* What bounds the calls: every attempt has asked at most once, and once   *)
(* more only if it was not the last.                                       *)
(***************************************************************************)
CallsInv ==
    /\ TypeInv
    /\ attempts <= EffectiveMax
    /\ asked <= 2 * attempts
    /\ CallsBounded
    /\ pc = "model" => asked <= 2 * attempts - 1
    /\ pc = "variant" => attempts < EffectiveMax
    /\ pc \in {"start", "build", "harness", "harnessModel"}
         => asked = attempts

LEMMA InitCalls == Init => CallsInv
<1> SUFFICES ASSUME Init PROVE CallsInv  OBVIOUS
<1>1. TypeInv
  BY InitType
<1>2. EffectiveMax \in 1..MaxAttempts
  BY LimitTypes DEF Init
<1> QED
  BY <1>1, <1>2, PhoenixAssumption DEF Init, CallsInv, CallsBounded

LEMMA StepCalls == CallsInv /\ [Next]_vars => CallsInv'
<1> SUFFICES ASSUME CallsInv, [Next]_vars
             PROVE  CallsInv'
  OBVIOUS
<1>1. TypeInv'
  BY StepType DEF CallsInv
<1>2. mode' = mode
  BY DEF vars, Next, Step, HarnessStep, LoopStep, Setup, BuildHarness, HarnessAsk,
         HarnessExhausted, HarnessNoBody, HarnessBody, HarnessBreaks, TryTemplate,
         Ask, Exhausted, NoTest, TestUncompiled, TestProves, TestFabricated, TestFails,
         VariantFails, VariantProves, Finish, Cancel
<1>3. EffectiveMax' = EffectiveMax
  BY <1>2 DEF EffectiveMax
<1>4. /\ EffectiveMax \in 1..MaxAttempts
      /\ HarnessLimit \in 1..EffectiveMax
  BY LimitTypes DEF CallsInv, TypeInv, TypeOK
<1> DEFINE E == EffectiveMax
           H == HarnessLimit
<1>5. /\ attempts \in Nat /\ harnessAttempts \in Nat /\ asked \in Nat
      /\ E \in Nat \ {0} /\ H \in Nat /\ H <= E
      /\ attempts <= E /\ asked <= 2 * attempts /\ asked <= 2 * E - 1
      /\ pc = "model" => asked <= 2 * attempts - 1
      /\ pc = "variant" => attempts < E
      /\ pc \in {"start", "build", "harness", "harnessModel"}
           => attempts = harnessAttempts /\ asked = attempts
  BY <1>4, PhoenixAssumption DEF CallsInv, CallsBounded, TypeInv, TypeOK
<1> SUFFICES /\ attempts' <= E
             /\ asked' <= 2 * attempts'
             /\ asked' <= 2 * E - 1
             /\ pc' = "model" => asked' <= 2 * attempts' - 1
             /\ pc' = "variant" => attempts' < E
             /\ pc' \in {"start", "build", "harness", "harnessModel"}
                  => asked' = attempts'
  BY <1>1, <1>3 DEF CallsInv, CallsBounded
<1> USE <1>5
<1>6. CASE Setup \/ BuildHarness \/ HarnessExhausted \/ HarnessNoBody \/ HarnessBreaks
  <2>1. UNCHANGED counters /\ pc' \notin {"model", "variant"}
    BY <1>6 DEF Setup, BuildHarness, HarnessExhausted, HarnessNoBody, HarnessBreaks
  <2>2. pc \in {"start", "build", "harness", "harnessModel"}
    BY <1>6 DEF Setup, BuildHarness, HarnessExhausted, HarnessNoBody, HarnessBreaks
  <2> HIDE DEF E, H
  <2> QED
    BY <2>1, <2>2 DEF counters
<1>7. CASE HarnessAsk
  <2>1. /\ harnessAttempts < H /\ pc = "harness" /\ pc' = "harnessModel"
        /\ harnessAttempts' = harnessAttempts + 1
        /\ attempts' = attempts + 1
        /\ asked' = asked + 1
    BY <1>7 DEF HarnessAsk
  <2> HIDE DEF E, H
  <2> QED
    BY <2>1
<1>8. CASE HarnessBody
  <2>1. UNCHANGED counters /\ pc = "harnessModel" /\ pc' \notin {"model", "variant"}
    BY <1>8 DEF HarnessBody, Prove
  <2> HIDE DEF E, H
  <2> QED
    BY <2>1 DEF counters
<1>9. CASE TryTemplate
  <2>1. /\ attempts < E /\ attempts' = attempts + 1 /\ asked' = asked
        /\ pc' \in {"loop", "finish"}
    BY <1>9 DEF TryTemplate, Prove
  <2> HIDE DEF E, H
  <2> QED
    BY <2>1
<1>10. CASE Ask
  <2>1. /\ attempts < E /\ attempts' = attempts + 1 /\ asked' = asked + 1
        /\ pc' = "model"
    BY <1>10 DEF Ask
  <2> HIDE DEF E, H
  <2> QED
    BY <2>1
<1>11. CASE TestFails
  <2>1. /\ pc = "model" /\ attempts' = attempts
        /\ \/ asked' = asked /\ pc' \in {"loop", "finish"}
           \/ asked' = asked + 1 /\ pc' = "variant" /\ attempts < E
    BY <1>11 DEF TestFails, MayVary
  <2> HIDE DEF E, H
  <2> QED
    BY <2>1
<1>12. CASE Exhausted \/ NoTest \/ TestUncompiled \/ TestProves \/ TestFabricated
            \/ VariantFails \/ VariantProves \/ Finish \/ Cancel
  <2>1. /\ UNCHANGED counters
        /\ pc' \in {"loop", "finish", "done", "cancelled"}
    BY <1>12 DEF Exhausted, NoTest, TestUncompiled, TestProves, TestFabricated, Prove,
                 VariantFails, VariantProves, Finish, Cancel
  <2> HIDE DEF E, H
  <2> QED
    BY <2>1 DEF counters
<1>13. CASE UNCHANGED vars
  <2> HIDE DEF E, H
  <2> QED
    BY <1>13 DEF vars, counters
<1> QED
  BY <1>6, <1>7, <1>8, <1>9, <1>10, <1>11, <1>12, <1>13
  DEF Next, Step, HarnessStep, LoopStep

(***************************************************************************)
(* However many attempts the loops are given and however they share them,  *)
(* a run asks the model less than twice per attempt.                       *)
(***************************************************************************)
THEOREM CallsStayBounded == Spec => []CallsBounded
<1>1. CallsInv => CallsBounded
  BY DEF CallsInv
<1> QED
  BY <1>1, InitCalls, StepCalls, PTL DEF Spec

-----------------------------------------------------------------------------
(***************************************************************************)
(* What makes proofs sound: the loop of full prompts finds the scaffold in *)
(* bridge mode, where the harness has not been; proven is set only on the  *)
(* way out; a variant is tried of what compiled.                           *)
(***************************************************************************)
ProofInv ==
    /\ ProvenIsEarned
    /\ mode \in Modes
    /\ pc \in {"build", "harness", "harnessModel"} => mode.harness
    /\ mode.bridge => test = Scaffold \/ pc \in {"start", "raised"}
    /\ pc = "variant" => ~mode.bridge /\ compiled
    /\ proven => pc \in {"finish", "done"}
    /\ saved => pc = "done" /\ proven

(* No task runs both loops in bridge mode.                                 *)
OneLoop == \A m \in Modes : ~(m.bridge /\ m.harness)

LEMMA InitProof == Init => ProofInv
BY DEF Init, ProofInv, ProvenIsEarned

(* A test that passes was written to pass; a scaffold if its attack was.   *)
LEMMA PassMeans ==
    ASSUME NEW t, NEW a, "pass" \in Outcomes(t, a)
    PROVE  IF t.by = "scaffold" THEN a.passes ELSE t.passes
BY DEF Outcomes

LEMMA StepProof ==
    ASSUME OneLoop
    PROVE  ProofInv /\ [Next]_vars => ProofInv'
<1> SUFFICES ASSUME ProofInv, [Next]_vars
             PROVE  ProofInv'
  OBVIOUS
<1> USE OneLoop DEF OneLoop, ProofInv, ProvenIsEarned
<1>1. CASE Setup
  BY <1>1 DEF Setup, counters, verdict
<1>2. CASE BuildHarness
  BY <1>2 DEF BuildHarness, counters, verdict
<1>3. CASE HarnessAsk \/ HarnessExhausted \/ HarnessNoBody \/ HarnessBreaks
  BY <1>3 DEF HarnessAsk, HarnessExhausted, HarnessNoBody, HarnessBreaks, counters, files, verdict
<1>4. CASE HarnessBody
  <2>1. PICK c \in Written("model") : \E o \in Outcomes(c, attack) :
          /\ test' = c
          /\ \/ o = "pass" /\ Authentic(c) /\ Meaningful(c) /\ Prove(c, c)
             \/ pc' = "harness" /\ UNCHANGED proven
    BY <1>4 DEF HarnessBody
  <2>2. c.by = "model"
    BY DEF Written
  <2> QED
    BY <1>4, <2>1, <2>2, PassMeans DEF HarnessBody, Prove, Authentic, Meaningful
<1>5. CASE TryTemplate
  <2>1. PICK c \in Templates : \E o \in Outcomes(c, attack) :
          /\ test' = c
          /\ \/ o = "pass" /\ Meaningful(c) /\ Prove(c, c)
             \/ pc' = "loop" /\ UNCHANGED verdict
    BY <1>5 DEF TryTemplate
  <2>2. c.by = "template" /\ c.authentic
    BY DEF Templates, Written
  <2> QED
    BY <1>5, <2>1, <2>2, PassMeans DEF TryTemplate, TakesTemplate, Prove, Meaningful, verdict
<1>6. CASE Ask \/ Exhausted \/ NoTest
  BY <1>6 DEF Ask, Exhausted, NoTest, counters, files, verdict
<1>7. CASE TestUncompiled \/ TestFabricated
  BY <1>7 DEF TestUncompiled, TestFabricated, WriteCode
<1>8. CASE TestProves
  <2>1. PICK c \in Written("model") :
          /\ WriteCode(c)
          /\ \E o \in Outcomes(test', attack') : Proves(c, o)
          /\ Prove(test', c)
    BY <1>8 DEF TestProves
  <2>2. /\ c.by = "model" /\ "pass" \in Outcomes(test', attack')
        /\ c.asserts /\ (mode.bridge \/ c.authentic)
    BY <2>1 DEF Written, Proves, Meaningful, Authentic
  <2>3. IF test'.by = "scaffold" THEN attack'.passes ELSE test'.passes
    BY <2>2, PassMeans
  <2>4. CASE mode.bridge
    BY <1>8, <2>1, <2>2, <2>3, <2>4 DEF TestProves, WriteCode, Prove, Scaffold
  <2>5. CASE ~mode.bridge
    BY <1>8, <2>1, <2>2, <2>3, <2>5 DEF TestProves, WriteCode, Prove
  <2> QED
    BY <2>4, <2>5
<1>9. CASE TestFails
  BY <1>9 DEF TestFails, WarpScaffold, MayVary
<1>10. CASE VariantFails
  BY <1>10 DEF VariantFails, counters, verdict
<1>11. CASE VariantProves
  <2>1. PICK c \in Written("model") :
          /\ "pass" \in Outcomes(c, attack)
          /\ c.authentic /\ c.asserts
          /\ proven' /\ proof' = c /\ code' = c
    BY <1>11 DEF VariantProves, Authentic, Meaningful
  <2>2. c.by = "model"
    BY DEF Written
  <2> QED
    BY <1>11, <2>1, <2>2, PassMeans DEF VariantProves
<1>12. CASE Finish \/ Cancel
  <2>1. UNCHANGED <<mode, files, code, verdict>>
    BY <1>12 DEF Finish, Cancel
  <2>2. pc' \in {"done", "cancelled"} /\ (pc' = "cancelled" => ~proven)
    BY <1>12 DEF Finish, Cancel
  <2>3. saved' => proven
    BY <1>12 DEF Finish, Cancel, SaveArtifact
  <2> QED
    BY <2>1, <2>2, <2>3, <1>12 DEF files, verdict, Finish, Cancel
<1>13. CASE UNCHANGED vars
  BY <1>13 DEF vars, counters, files, verdict
<1> QED
  BY <1>1, <1>2, <1>3, <1>4, <1>5, <1>6, <1>7, <1>8, <1>9, <1>10, <1>11, <1>12, <1>13
  DEF Next, Step, HarnessStep, LoopStep

(***************************************************************************)
(* Unless both loops run in bridge mode, what is reported as proven was    *)
(* proven by an authentic test with an assertion, and is what it ran.      *)
(***************************************************************************)
THEOREM ProofsAreEarned ==
    ASSUME OneLoop
    PROVE  Spec => []ProvenIsEarned
<1>1. ProofInv => ProvenIsEarned
  BY DEF ProofInv
<1>2. ProofInv /\ [Next]_vars => ProofInv'
  BY StepProof
<1> QED
  BY <1>1, <1>2, InitProof, PTL DEF Spec

(***************************************************************************)
(* Under the same condition no run leaves an artifact and then no report.  *)
(***************************************************************************)
THEOREM ArtifactsAreReported ==
    ASSUME OneLoop
    PROVE  Spec => []SavedIsReported
<1>1. ProofInv => SavedIsReported
  BY DEF ProofInv, ProvenIsEarned, SavedIsReported
<1>2. ProofInv /\ [Next]_vars => ProofInv'
  BY StepProof
<1> QED
  BY <1>1, <1>2, InitProof, PTL DEF Spec
=============================================================================
