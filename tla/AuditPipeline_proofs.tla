------------------------ MODULE AuditPipeline_proofs ------------------------
(***************************************************************************)
(* Proofs about AuditPipeline, for every set of findings, every            *)
(* configuration and every confidence from 0 to 100.                       *)
(***************************************************************************)
EXTENDS AuditPipeline, TLAPS

(***************************************************************************)
(* A seed reaches 30 points only with an attack worker's confidence of at  *)
(* least 90.                                                               *)
(***************************************************************************)
LEMMA SeedBounds ==
    ASSUME NEW k \in Kinds, NEW c \in 0..100
    PROVE  /\ Seed(k, c) \in Int
           /\ Seed(k, c) <= 33
           /\ Seed(k, c) >= 30 => k = "attack" /\ c >= 90
<1>1. CASE k = "semantic"  BY <1>1 DEF Seed
<1>2. CASE k = "attack" /\ c >= 50
  <2>1. Seed(k, c) = c \div 3  BY <1>2 DEF Seed
  <2>2. QED  BY <1>2, <2>1
<1>3. CASE k = "attack" /\ c < 50
  <2>1. Seed(k, c) = c \div 5  BY <1>3 DEF Seed
  <2>2. QED  BY <1>3, <2>1
<1>4. CASE k \notin {"semantic", "attack"}
  <2>1. Seed(k, c) = c \div 4  BY <1>4 DEF Seed
  <2>2. QED  BY <1>4, <2>1
<1>5. QED  BY <1>1, <1>2, <1>3, <1>4

(***************************************************************************)
(* Override changes the entries of the findings it is given, and no other. *)
(***************************************************************************)
LEMMA Overridden ==
    ASSUME NEW T, NEW old \in [Findings -> T],
           NEW D, D \subseteq Findings, NEW new \in [D -> T]
    PROVE  /\ Override(old, new) \in [Findings -> T]
           /\ \A f \in D : Override(old, new)[f] = new[f]
           /\ \A f \in Findings \ D : Override(old, new)[f] = old[f]
<1>1. DOMAIN new = D  OBVIOUS
<1>2. \A f \in D : new[f] \in T  OBVIOUS
<1>3. Override(old, new) = [f \in Findings |-> IF f \in D THEN new[f] ELSE old[f]]
  BY <1>1 DEF Override
<1>4. QED  BY <1>2, <1>3

-----------------------------------------------------------------------------
(***************************************************************************)
(* Type correctness: every stage leaves every field of a finding a value   *)
(* the next stages know.                                                   *)
(***************************************************************************)
Decisions == Upheld \cup {"REJECTED", "GATE_DEMOTED", "GATE_REFUTED", ""}

LEMMA InitType == Init => TypeOK
<1> SUFFICES ASSUME Init PROVE TypeOK  OBVIOUS
<1>1. gate \in [Findings -> GateVerdicts \cup {""}]  BY DEF Init
<1>2. decision \in [Findings -> Decisions]  BY DEF Init, Decisions
<1>3. kind \in [Findings -> Kinds] /\ verdict \in [Findings -> AllVerdicts]
  BY DEF Init, Kinds, AllVerdicts
<1>4. status \in [Findings -> {"UNCONFIRMED", "PROVEN", "REJECTED"}]  BY DEF Init
<1>5. /\ conf \in [Findings -> Int]
      /\ score \in [Findings -> Int]
      /\ config \in Configs
  <2>1. conf = [f \in Findings |-> 0] /\ score = [f \in Findings |-> 0]  BY DEF Init
  <2>2. config \in Configs  BY Zenon DEF Init
  <2>3. [f \in Findings |-> 0] \in [Findings -> Int]  OBVIOUS
  <2>4. QED  BY <2>1, <2>2, <2>3, Zenon
<1>6. pc \in Stages  BY DEF Init, Stages
<1>7. /\ pool \subseteq Findings
      /\ pinned \subseteq Findings
      /\ promoted \subseteq Findings
      /\ rejected \subseteq Findings
      /\ tested \subseteq Findings
  BY DEF Init
<1>8. QED
  BY <1>1, <1>2, <1>3, <1>4, <1>5, <1>6, <1>7, Zenon DEF TypeOK, Decisions

LEMMA BuildType ==
    ASSUME TypeOK, NEW D, D \subseteq Findings, NEW k \in [D -> Kinds],
           NEW c \in [D -> Confidences], Build(k, c), pc' \in Stages
    PROVE  TypeOK'
<1> USE PipelineAssumption DEF PipelineAssumption
<1>1. DOMAIN c = D  OBVIOUS
<1>2. kind' \in [Findings -> Kinds]  BY Overridden DEF Build, TypeOK
<1>3. c \in [D -> Int]
  <2>1. \A f \in D : c[f] \in 0..100  OBVIOUS
  <2>2. QED  BY <2>1
<1>4. conf' \in [Findings -> Int]  BY <1>3, Overridden DEF Build, TypeOK
<1>5. PICK v \in [D -> Verdicts] : verdict' = Override(verdict, v)
  BY <1>1 DEF Build
<1>6. v \in [D -> AllVerdicts]  OBVIOUS
<1>7. verdict' \in [Findings -> AllVerdicts]  BY <1>5, <1>6, Overridden DEF TypeOK
<1>8. [f \in D |-> Seed(k[f], c[f])] \in [D -> Int]
  <2>1. ASSUME NEW f \in D PROVE Seed(k[f], c[f]) \in Int
    <3>1. k[f] \in Kinds /\ c[f] \in 0..100  OBVIOUS
    <3>2. QED  BY <3>1, SeedBounds
  <2>2. QED  BY <2>1
<1>9. score' \in [Findings -> Int]  BY <1>1, <1>8, Overridden DEF Build, TypeOK
<1>10. pool' \subseteq Findings  BY <1>1 DEF Build, TypeOK
<1>11. QED  BY <1>2, <1>4, <1>7, <1>9, <1>10 DEF Build, TypeOK, result

LEMMA GateType == TypeOK /\ GateStage => TypeOK'
<1> SUFFICES ASSUME TypeOK, GateStage PROVE TypeOK'  OBVIOUS
<1> pool \subseteq Findings  BY DEF TypeOK
<1>1. CASE On("gate")
  <2>1. PICK v \in [pool -> GateVerdicts] : Gate(v)  BY <1>1 DEF GateStage
  <2> DEFINE refuted == {f \in pool : v[f] = "GATE_REFUTED"}
             demoted == {f \in pool : v[f] = "GATE_DEMOTED"}
  <2>2. gate' \in [Findings -> GateVerdicts \cup {""}]
    <3>1. v \in [pool -> GateVerdicts \cup {""}]  OBVIOUS
    <3>2. QED  BY <2>1, <3>1, Overridden DEF Gate, TypeOK
  <2>3. score' \in [Findings -> Int]
    <3>1. ASSUME NEW f \in pool PROVE score[f] + GatePoints[v[f]] \in Int
      <4>1. GatePoints[v[f]] \in Int  BY DEF GatePoints, GateVerdicts
      <4>2. score[f] \in Int  BY DEF TypeOK
      <4>3. QED  BY <4>1, <4>2
    <3>2. [f \in pool |-> score[f] + GatePoints[v[f]]] \in [pool -> Int]  BY <3>1
    <3>3. QED  BY <2>1, <3>2, Overridden DEF Gate, TypeOK
  <2>4. decision' \in [Findings -> Decisions]
    <3>1. [f \in refuted \cup demoted |-> v[f]] \in [refuted \cup demoted -> Decisions]
      BY DEF Decisions
    <3>2. refuted \cup demoted \subseteq Findings  OBVIOUS
    <3>3. decision \in [Findings -> Decisions]  BY Zenon DEF TypeOK, Decisions
    <3>4. QED  BY <2>1, <3>1, <3>2, <3>3, Overridden DEF Gate
  <2>5. status' \in [Findings -> {"UNCONFIRMED", "PROVEN", "REJECTED"}]
    <3>1. [f \in refuted |-> "REJECTED"] \in
            [refuted -> {"UNCONFIRMED", "PROVEN", "REJECTED"}]
      OBVIOUS
    <3>2. QED  BY <2>1, <3>1, Overridden DEF Gate, TypeOK
  <2>6. verdict' \in [Findings -> AllVerdicts]
    <3>1. [f \in demoted |-> "PARTIAL"] \in [demoted -> AllVerdicts]  BY DEF AllVerdicts
    <3>2. QED  BY <2>1, <3>1, Overridden DEF Gate, TypeOK
  <2>7. rejected' \subseteq Findings  BY <2>1 DEF Gate, TypeOK
  <2>8. QED
    BY <2>2, <2>3, <2>4, <2>5, <2>6, <2>7 DEF GateStage, TypeOK, Stages, Decisions
<1>2. CASE ~On("gate")
  <2>1. gate' \in [Findings -> GateVerdicts \cup {""}]
    <3>1. [f \in pool |-> "PASS"] \in [pool -> GateVerdicts \cup {""}]
      BY DEF GateVerdicts
    <3>2. gate' = Override(gate, [f \in pool |-> "PASS"])  BY <1>2 DEF GateStage
    <3>3. gate \in [Findings -> GateVerdicts \cup {""}]  BY DEF TypeOK
    <3>4. QED  BY <3>1, <3>2, <3>3, Overridden
  <2>2. UNCHANGED <<score, decision, status, verdict, rejected>>
    BY <1>2 DEF GateStage
  <2>3. QED  BY <2>1, <2>2 DEF GateStage, TypeOK, Stages
<1>3. QED  BY <1>1, <1>2

LEMMA JuryType == TypeOK /\ Jury => TypeOK'
<1> SUFFICES ASSUME TypeOK, Jury PROVE TypeOK'  OBVIOUS
<1>1. PICK r \in [Candidates -> JuryResults] :
        LET upheld == {f \in Candidates : r[f] \in Upheld}
        IN /\ pool' = Kept(r)
           /\ decision' = Override(decision, [f \in Judged(r) |-> r[f]])
           /\ score' = Override(score,
                         [f \in Judged(r) |-> score[f] + JuryPoints[r[f]]])
           /\ pinned' = pinned \cup upheld
           /\ rejected' = rejected \cup (Judged(r) \ upheld)
  BY DEF Jury
<1>2. Candidates \subseteq Findings  BY DEF Candidates, TypeOK
<1>3. Judged(r) \subseteq Candidates /\ Kept(r) \subseteq Candidates
  BY DEF Judged, Kept
<1>4. \A f \in Judged(r) : r[f] \in Upheld \cup {"REJECTED"}
  BY DEF Judged, JuryResults
<1>5. decision' \in [Findings -> Decisions]
  <2>1. [f \in Judged(r) |-> r[f]] \in [Judged(r) -> Decisions]
    BY <1>4 DEF Decisions
  <2>2. decision \in [Findings -> Decisions]  BY Zenon DEF TypeOK, Decisions
  <2>3. QED  BY <1>1, <1>2, <1>3, <2>1, <2>2, Overridden
<1>6. score' \in [Findings -> Int]
  <2>1. ASSUME NEW f \in Judged(r) PROVE score[f] + JuryPoints[r[f]] \in Int
    <3>1. JuryPoints[r[f]] \in Int  BY <1>4 DEF JuryPoints, Upheld
    <3>2. score[f] \in Int  BY <1>2, <1>3 DEF TypeOK
    <3>3. QED  BY <3>1, <3>2
  <2>2. [f \in Judged(r) |-> score[f] + JuryPoints[r[f]]] \in [Judged(r) -> Int]
    BY <2>1
  <2>3. QED  BY <1>1, <1>2, <1>3, <2>2, Overridden DEF TypeOK
<1>7. /\ pool' \subseteq Findings
      /\ pinned' \subseteq Findings
      /\ rejected' \subseteq Findings
  BY <1>1, <1>2, <1>3 DEF TypeOK
<1>8. QED
  BY <1>5, <1>6, <1>7 DEF Jury, TypeOK, Stages, Decisions

LEMMA DepthType == TypeOK /\ Depth => TypeOK'
<1> SUFFICES ASSUME TypeOK, Depth PROVE TypeOK'  OBVIOUS
<1>0. PICK analysed \in SUBSET pool :
        \E v \in [analysed -> DepthVerdicts] : verdict' = Override(verdict, v)
  BY DEF Depth, Uncertain
<1>1. PICK v \in [analysed -> DepthVerdicts] : verdict' = Override(verdict, v)
  BY <1>0
<1>2. v \in [analysed -> AllVerdicts] /\ analysed \subseteq Findings
  BY DEF DepthVerdicts, AllVerdicts, TypeOK
<1>3. verdict' \in [Findings -> AllVerdicts]  BY <1>1, <1>2, Overridden DEF TypeOK
<1>4. QED  BY <1>3 DEF Depth, TypeOK, Stages, result

LEMMA ChainType == TypeOK /\ Chain => TypeOK'
<1> SUFFICES ASSUME TypeOK, Chain PROVE TypeOK'  OBVIOUS
<1>1. verdict' \in [Findings -> AllVerdicts]  BY DEF Chain, TypeOK, AllVerdicts
<1>2. QED  BY <1>1 DEF Chain, TypeOK, Stages, result

LEMMA TestType == TypeOK /\ Test => TypeOK'
<1> SUFFICES ASSUME TypeOK, Test PROVE TypeOK'  OBVIOUS
<1>1. PICK o \in [Eligible -> {"error", "failed", "proven"}] :
        LET proven == {f \in Eligible : o[f] = "proven"}
        IN /\ status' = Override(status,
                [f \in proven \cup Failed(o) |->
                   IF f \in proven THEN "PROVEN" ELSE "REJECTED"])
           /\ verdict' = Override(verdict, [f \in proven |-> "CONFIRMED"])
  BY DEF Test
<1> DEFINE proven == {f \in Eligible : o[f] = "proven"}
<1>2. Eligible \subseteq Findings /\ Failed(o) \subseteq Findings
  BY DEF Eligible, Failed, TypeOK
<1>3. status' \in [Findings -> {"UNCONFIRMED", "PROVEN", "REJECTED"}]
  <2>1. [f \in proven \cup Failed(o) |-> IF f \in proven THEN "PROVEN" ELSE "REJECTED"]
          \in [proven \cup Failed(o) -> {"UNCONFIRMED", "PROVEN", "REJECTED"}]
    OBVIOUS
  <2>2. proven \cup Failed(o) \subseteq Findings  BY <1>2
  <2>3. QED  BY <1>1, <2>1, <2>2, Overridden DEF TypeOK
<1>4. verdict' \in [Findings -> AllVerdicts]
  <2>1. [f \in proven |-> "CONFIRMED"] \in [proven -> AllVerdicts]  BY DEF AllVerdicts
  <2>2. proven \subseteq Findings  BY <1>2
  <2>3. QED  BY <1>1, <2>1, <2>2, Overridden DEF TypeOK
<1>5. QED  BY <1>2, <1>3, <1>4 DEF Test, TypeOK, Stages

LEMMA FallbackType == TypeOK /\ Fallback => TypeOK'
<1> SUFFICES ASSUME TypeOK, Fallback PROVE TypeOK'  OBVIOUS
<1>1. PICK best \in SUBSET pool :
        /\ promoted' = best
        /\ pinned' = best
        /\ score' = [f \in Findings |-> IF f \in best THEN score[f] + 40 ELSE score[f]]
  BY DEF Fallback
<1>2. score' \in [Findings -> Int]
  <2>1. \A f \in Findings : score[f] \in Int  BY DEF TypeOK
  <2>2. \A f \in Findings : (IF f \in best THEN score[f] + 40 ELSE score[f]) \in Int
    BY <2>1
  <2>3. QED  BY <1>1, <2>2
<1>3. promoted' \subseteq Findings /\ pinned' \subseteq Findings  BY <1>1 DEF TypeOK
<1>4. QED  BY <1>2, <1>3 DEF Fallback, TypeOK, Stages, result

LEMMA DiscoverType == TypeOK /\ Discover => TypeOK'
<1> SUFFICES ASSUME TypeOK, Discover PROVE TypeOK'  OBVIOUS
<1>0. PICK new \in SUBSET Findings :
        \E c \in [new -> Confidences] : Build([f \in new |-> "semantic"], c)
  BY DEF Discover
<1>1. PICK c \in [new -> Confidences] : Build([f \in new |-> "semantic"], c)
  BY <1>0
<1>2. [f \in new |-> "semantic"] \in [new -> Kinds]  BY DEF Kinds
<1>3. pc' \in Stages  BY DEF Discover, Stages
<1>4. QED  BY <1>1, <1>2, <1>3, BuildType

LEMMA WorkType == TypeOK /\ Work => TypeOK'
<1> SUFFICES ASSUME TypeOK, Work PROVE TypeOK'  OBVIOUS
<1>0. PICK new \in SUBSET (Findings \ pool) :
        \E k \in [new -> Kinds \ {"semantic"}], c \in [new -> Confidences] : Build(k, c)
  BY DEF Work
<1>1. PICK k \in [new -> Kinds \ {"semantic"}], c \in [new -> Confidences] :
        Build(k, c)
  BY <1>0
<1>2. k \in [new -> Kinds]  OBVIOUS
<1>3. pc' \in Stages  BY DEF Work, Stages
<1>4. QED  BY <1>1, <1>2, <1>3, BuildType

LEMMA StepType == TypeOK /\ [Next]_vars => TypeOK'
<1> SUFFICES ASSUME TypeOK, [Next]_vars PROVE TypeOK'  OBVIOUS
<1>1. CASE SkipJudging \/ JuryMissing
  BY <1>1 DEF SkipJudging, JuryMissing, TypeOK, Stages, result
<1>2. CASE UNCHANGED vars  BY <1>2 DEF TypeOK, vars, result
<1>3. QED
  BY <1>1, <1>2, DiscoverType, WorkType, FallbackType, GateType, JuryType,
     DepthType, ChainType, TestType DEF Next

(***************************************************************************)
(* Every field of every finding keeps its type, in every configuration.    *)
(***************************************************************************)
THEOREM TypeCorrect == Spec => []TypeOK
BY InitType, StepType, PTL DEF Spec

-----------------------------------------------------------------------------
(***************************************************************************)
(* The score of a finding that was not promoted is bounded by its seed and *)
(* by what its gate verdict and its jury decision are worth.  The rest     *)
(* says what the stages before have not touched yet.                       *)
(***************************************************************************)
GateShare(v) == IF v = "PASS" THEN 20 ELSE IF v = "GATE_DEMOTED" THEN 5 ELSE 0

JuryShare(d) == IF d \in Upheld THEN 30 ELSE IF d = "REJECTED" THEN -25 ELSE 0

Bound(f) == Seed(kind[f], conf[f]) + GateShare(gate[f]) + JuryShare(decision[f])

Scored == \A f \in pool : f \in promoted \/ score[f] <= Bound(f)

InRange == \A f \in pool : conf[f] \in 0..100

Unpinned ==
    pc \in {"discover", "work", "fallback"} => promoted = {} /\ pinned = {}

Unjudged ==
    pc \in {"discover", "work", "fallback", "gate"} =>
      rejected = {} /\ \A f \in Findings : gate[f] = "" /\ decision[f] = ""

CandidatesUndecided == pc = "jury" => \A f \in Candidates : decision[f] = ""

PinnedForCause == \A f \in pinned : f \in promoted \/ decision[f] \in Upheld

GateDecided ==
    \A f \in Findings :
      decision[f] \in {"GATE_DEMOTED", "GATE_REFUTED"} => gate[f] = decision[f]

RejectedByDecision == \A f \in rejected : decision[f] \in {"REJECTED", "GATE_REFUTED"}

Untested ==
    pc # "done" => tested = {} /\ \A f \in Findings : status[f] # "PROVEN"

ProvenByTest == \A f \in Findings : status[f] = "PROVEN" => f \in tested

IInv ==
    /\ TypeOK
    /\ InRange
    /\ Scored
    /\ Unpinned
    /\ Unjudged
    /\ CandidatesUndecided
    /\ PinnedForCause
    /\ GateDecided
    /\ RejectedByDecision
    /\ Untested
    /\ ProvenByTest
    /\ TestedEarnsIt

LEMMA InitIInv == Init => IInv
<1> SUFFICES ASSUME Init PROVE IInv  OBVIOUS
<1>1. /\ pool = {} /\ pinned = {} /\ promoted = {} /\ rejected = {} /\ tested = {}
      /\ pc = "discover"
  BY DEF Init
<1>2. \A f \in Findings : gate[f] = "" /\ decision[f] = "" /\ status[f] = "UNCONFIRMED"
  BY DEF Init
<1>3. InRange /\ Scored /\ Unpinned /\ PinnedForCause /\ RejectedByDecision /\ TestedEarnsIt
  BY <1>1 DEF InRange, Scored, Unpinned, PinnedForCause, RejectedByDecision, TestedEarnsIt
<1>4. Unjudged /\ CandidatesUndecided /\ GateDecided /\ Untested /\ ProvenByTest
  BY <1>1, <1>2 DEF Unjudged, CandidatesUndecided, GateDecided, Untested, ProvenByTest
<1>5. QED  BY <1>3, <1>4, InitType DEF IInv

(***************************************************************************)
(* A new finding has exactly its seed; the others are left alone.          *)
(***************************************************************************)
LEMMA BuildIInv ==
    ASSUME IInv, NEW D, D \subseteq Findings, NEW k \in [D -> Kinds],
           NEW c \in [D -> Confidences], Build(k, c),
           pc \in {"discover", "work"}, pc' \in {"work", "fallback"}
    PROVE  IInv'
<1> USE PipelineAssumption DEF PipelineAssumption
<1>1. DOMAIN c = D  OBVIOUS
<1>2. TypeOK'  BY BuildType DEF IInv, Stages
<1>3. pool' = pool \cup D  BY <1>1 DEF Build
<1>4. c \in [D -> Int]
  <2>1. \A f \in D : c[f] \in 0..100  OBVIOUS
  <2>2. QED  BY <2>1
<1>5. /\ \A f \in D : conf'[f] = c[f]
      /\ \A f \in Findings \ D : conf'[f] = conf[f]
  <2>1. conf' = Override(conf, c) /\ conf \in [Findings -> Int]
    BY DEF Build, IInv, TypeOK
  <2>2. QED  BY <1>4, <2>1, Overridden
<1>6. /\ \A f \in D : kind'[f] = k[f]
      /\ \A f \in Findings \ D : kind'[f] = kind[f]
  <2>1. kind' = Override(kind, k) /\ kind \in [Findings -> Kinds]
    BY DEF Build, IInv, TypeOK
  <2>2. QED  BY <2>1, Overridden
<1>7. \A f \in D : k[f] \in Kinds /\ c[f] \in 0..100  OBVIOUS
<1>8. /\ \A f \in D : score'[f] = Seed(k[f], c[f])
      /\ \A f \in Findings \ D : score'[f] = score[f]
  <2>1. \A f \in D : Seed(k[f], c[f]) \in Int  BY <1>7, SeedBounds
  <2> DEFINE seeds == [f \in D |-> Seed(k[f], c[f])]
  <2>2. seeds \in [D -> Int] /\ \A f \in D : seeds[f] = Seed(k[f], c[f])  BY <2>1
  <2>3. score' = Override(score, seeds)  BY <1>1 DEF Build
  <2>4. score \in [Findings -> Int]  BY DEF IInv, TypeOK
  <2> HIDE DEF seeds
  <2>5. /\ \A f \in D : score'[f] = seeds[f]
        /\ \A f \in Findings \ D : score'[f] = score[f]
    BY <2>2, <2>3, <2>4, Overridden
  <2>6. QED  BY <2>2, <2>5
<1>9. UNCHANGED <<pinned, promoted, tested, gate, decision, status, rejected>>
  BY DEF Build, result
<1>10. \A f \in Findings : gate[f] = "" /\ decision[f] = ""
  BY DEF IInv, Unjudged
<1>11. InRange'  BY <1>3, <1>5, <1>6, <1>7 DEF InRange, IInv, TypeOK
<1>12. Scored'
  <2> SUFFICES ASSUME NEW f \in pool', f \notin promoted'
               PROVE  score'[f] <= Bound(f)'
    BY DEF Scored
  <2>1. CASE f \in D
    <3>1. Bound(f)' = Seed(k[f], c[f]) + 0 + 0
      BY <1>5, <1>6, <1>9, <1>10, <2>1 DEF Bound, GateShare, JuryShare, Upheld
    <3>2. Seed(k[f], c[f]) \in Int  BY <1>7, <2>1, SeedBounds
    <3>3. QED  BY <1>8, <2>1, <3>1, <3>2
  <2>2. CASE f \notin D
    <3>1. f \in pool /\ f \in Findings \ D  BY <1>3, <2>2 DEF IInv, TypeOK
    <3>2. Bound(f)' = Bound(f)  BY <1>5, <1>6, <1>9, <3>1 DEF Bound
    <3>3. QED  BY <1>8, <1>9, <3>1, <3>2 DEF IInv, Scored
  <2>3. QED  BY <2>1, <2>2
<1>13. (Unpinned /\ Unjudged /\ CandidatesUndecided /\ Untested)'
  BY <1>9 DEF IInv, Unpinned, Unjudged, CandidatesUndecided, Untested
<1>14. (PinnedForCause /\ GateDecided /\ RejectedByDecision /\ ProvenByTest)'
  BY <1>9 DEF IInv, PinnedForCause, GateDecided, RejectedByDecision, ProvenByTest
<1>15. TestedEarnsIt'
  <2>1. tested' = {}  BY <1>9 DEF IInv, Untested
  <2>2. QED  BY <2>1 DEF TestedEarnsIt
<1>16. QED  BY <1>2, <1>11, <1>12, <1>13, <1>14, <1>15 DEF IInv

LEMMA FallbackIInv == IInv /\ Fallback => IInv'
<1> SUFFICES ASSUME IInv, Fallback PROVE IInv'  OBVIOUS
<1>1. TypeOK'  BY FallbackType DEF IInv
<1>2. PICK best \in SUBSET pool :
        /\ promoted' = best
        /\ pinned' = best
        /\ score' = [f \in Findings |-> IF f \in best THEN score[f] + 40 ELSE score[f]]
  BY DEF Fallback
<1>3. /\ UNCHANGED <<pool, kind, conf, tested, gate, decision, status, rejected>>
      /\ pc = "fallback" /\ pc' = "gate"
  BY DEF Fallback, result
<1>4. promoted = {}  BY <1>3 DEF IInv, Unpinned
<1>5. Scored'
  <2> SUFFICES ASSUME NEW f \in pool', f \notin promoted'
               PROVE  score'[f] <= Bound(f)'
    BY DEF Scored
  <2>1. f \in pool /\ f \in Findings  BY <1>3 DEF IInv, TypeOK
  <2>2. Bound(f)' = Bound(f)  BY <1>3 DEF Bound
  <2>3. score'[f] = score[f]  BY <1>2, <2>1
  <2>4. QED  BY <1>4, <2>1, <2>2, <2>3 DEF IInv, Scored
<1>6. (InRange /\ Unpinned /\ Unjudged /\ CandidatesUndecided /\ Untested)'
  BY <1>3 DEF IInv, InRange, Unpinned, Unjudged, CandidatesUndecided, Untested
<1>7. (PinnedForCause /\ GateDecided /\ RejectedByDecision /\ ProvenByTest)'
  BY <1>2, <1>3 DEF IInv, PinnedForCause, GateDecided, RejectedByDecision, ProvenByTest
<1>8. TestedEarnsIt'
  <2>1. tested' = {}  BY <1>3 DEF IInv, Untested
  <2>2. QED  BY <2>1 DEF TestedEarnsIt
<1>9. QED  BY <1>1, <1>5, <1>6, <1>7, <1>8 DEF IInv

(***************************************************************************)
(* Before the gate nothing has a verdict of it or a decision, so the       *)
(* gate's points are all its share of the bound.                           *)
(***************************************************************************)
LEMMA GateIInv == IInv /\ GateStage => IInv'
<1> SUFFICES ASSUME IInv, GateStage PROVE IInv'  OBVIOUS
<1>1. TypeOK'  BY GateType DEF IInv
<1>2. /\ UNCHANGED <<pool, kind, conf, pinned, promoted, tested>>
      /\ pc = "gate" /\ pc' = "jury"
  BY DEF GateStage
<1>3. /\ rejected = {}
      /\ \A f \in Findings : gate[f] = "" /\ decision[f] = ""
  BY <1>2 DEF IInv, Unjudged
<1>4. pool \subseteq Findings  BY DEF IInv, TypeOK
<1>5. (InRange /\ Unpinned /\ Unjudged)'
  BY <1>2 DEF IInv, InRange, Unpinned, Unjudged
<1>6. \A f \in pool : f \notin promoted => score[f] <= Seed(kind[f], conf[f]) + 0 + 0
  BY <1>3, <1>4 DEF IInv, Scored, Bound, GateShare, JuryShare, Upheld
<1>7. \A f \in pool : Seed(kind[f], conf[f]) \in Int /\ score[f] \in Int
  BY <1>4, SeedBounds DEF IInv, InRange, TypeOK
<1>8. \A f \in pinned : f \in promoted
  BY <1>3 DEF IInv, PinnedForCause, Upheld, TypeOK
<1>9. PinnedForCause'  BY <1>2, <1>8 DEF PinnedForCause
<1>10. TestedEarnsIt'
  <2>1. tested' = {}  BY <1>2 DEF IInv, Untested
  <2>2. QED  BY <2>1 DEF TestedEarnsIt
<1>11. CASE On("gate")
  <2>1. PICK v \in [pool -> GateVerdicts] : Gate(v)  BY <1>11 DEF GateStage
  <2> DEFINE refuted == {f \in pool : v[f] = "GATE_REFUTED"}
             demoted == {f \in pool : v[f] = "GATE_DEMOTED"}
             points == [f \in pool |-> score[f] + GatePoints[v[f]]]
             decided == [f \in refuted \cup demoted |-> v[f]]
             failed == [f \in refuted |-> "REJECTED"]
  <2>2. \A f \in pool : gate'[f] = v[f]
    <3>1. DOMAIN v = pool  OBVIOUS
    <3>2. gate' = Override(gate, v)  BY <2>1 DEF Gate
    <3>3. QED  BY <1>4, <3>1, <3>2 DEF Override
  <2>3. \A f \in pool : score'[f] = score[f] + GatePoints[v[f]]
    <3>1. \A f \in pool : GatePoints[v[f]] \in Int  BY DEF GatePoints, GateVerdicts
    <3>2. points \in [pool -> Int]  BY <1>7, <3>1
    <3>3. \A f \in pool : points[f] = score[f] + GatePoints[v[f]]  OBVIOUS
    <3>4. score' = Override(score, points) /\ score \in [Findings -> Int]
      BY <2>1 DEF Gate, IInv, TypeOK
    <3> HIDE DEF points
    <3>5. \A f \in pool : score'[f] = points[f]  BY <1>4, <3>2, <3>4, Overridden
    <3>6. QED  BY <3>3, <3>5
  <2>4. /\ \A f \in refuted \cup demoted : decision'[f] = v[f]
        /\ \A f \in Findings \ (refuted \cup demoted) : decision'[f] = ""
    <3>1. DOMAIN decided = refuted \cup demoted  OBVIOUS
    <3>2. decision' = Override(decision, decided)  BY <2>1 DEF Gate
    <3>3. refuted \cup demoted \subseteq Findings  BY <1>4
    <3>4. \A f \in refuted \cup demoted : decided[f] = v[f]  OBVIOUS
    <3> HIDE DEF decided, refuted, demoted
    <3>5. QED  BY <1>3, <3>1, <3>2, <3>3, <3>4 DEF Override
  <2>5. \A f \in Findings : status'[f] # "PROVEN"
    <3>1. DOMAIN failed = refuted  OBVIOUS
    <3>2. status' = Override(status, failed)  BY <2>1 DEF Gate
    <3>3. \A f \in refuted : failed[f] # "PROVEN"  OBVIOUS
    <3>4. \A f \in Findings : status[f] # "PROVEN"  BY <1>2 DEF IInv, Untested
    <3> HIDE DEF failed, refuted
    <3>5. QED  BY <3>1, <3>2, <3>3, <3>4 DEF Override
  <2>6. rejected' = refuted  BY <1>3, <2>1 DEF Gate
  <2>7. Scored'
    <3> SUFFICES ASSUME NEW f \in pool', f \notin promoted'
                 PROVE  score'[f] <= Bound(f)'
      BY DEF Scored
    <3>1. f \in pool /\ f \notin promoted /\ f \in Findings  BY <1>2, <1>4
    <3>2. JuryShare(decision'[f]) = 0
      BY <2>4, <3>1 DEF JuryShare, Upheld
    <3>3. GatePoints[v[f]] <= GateShare(v[f]) /\ GatePoints[v[f]] \in Int
      BY <3>1 DEF GatePoints, GateShare, GateVerdicts
    <3>4. GateShare(v[f]) \in Int  BY DEF GateShare
    <3>5. Bound(f)' = Seed(kind[f], conf[f]) + GateShare(v[f]) + 0
      BY <1>2, <2>2, <3>1, <3>2 DEF Bound
    <3>6. QED  BY <1>6, <1>7, <2>3, <3>1, <3>3, <3>4, <3>5
  <2>8. CandidatesUndecided'
    <3> SUFFICES ASSUME NEW f \in Candidates' PROVE decision'[f] = ""
      BY DEF CandidatesUndecided
    <3>1. f \in pool /\ gate'[f] = "PASS"  BY <1>2 DEF Candidates
    <3>2. f \notin refuted \cup demoted  BY <2>2, <3>1
    <3>3. QED  BY <1>4, <2>4, <3>1, <3>2
  <2>9. GateDecided' /\ RejectedByDecision'
    BY <2>2, <2>4, <2>6 DEF GateDecided, RejectedByDecision
  <2>10. Untested' /\ ProvenByTest'
    BY <1>2, <2>5 DEF IInv, Untested, ProvenByTest
  <2>11. QED
    BY <1>1, <1>5, <1>9, <1>10, <2>7, <2>8, <2>9, <2>10 DEF IInv
<1>12. CASE ~On("gate")
  <2>1. /\ gate' = Override(gate, [f \in pool |-> "PASS"])
        /\ UNCHANGED <<score, decision, status, verdict, rejected>>
    BY <1>12 DEF GateStage
  <2>2. \A f \in pool : gate'[f] = "PASS"
    BY <1>4, <2>1 DEF Override
  <2>3. Scored'
    <3> SUFFICES ASSUME NEW f \in pool', f \notin promoted'
                 PROVE  score'[f] <= Bound(f)'
      BY DEF Scored
    <3>1. f \in pool /\ f \notin promoted /\ f \in Findings  BY <1>2, <1>4
    <3>2. Bound(f)' = Seed(kind[f], conf[f]) + 20 + 0
      BY <1>2, <1>3, <2>1, <2>2, <3>1 DEF Bound, GateShare, JuryShare, Upheld
    <3>3. QED  BY <1>6, <1>7, <2>1, <3>1, <3>2
  <2>4. CandidatesUndecided'
    BY <1>2, <1>3, <1>4, <2>1 DEF CandidatesUndecided, Candidates
  <2>5. (GateDecided /\ RejectedByDecision /\ Untested /\ ProvenByTest)'
    BY <1>2, <1>3, <2>1
    DEF IInv, GateDecided, RejectedByDecision, Untested, ProvenByTest
  <2>6. QED  BY <1>1, <1>5, <1>9, <1>10, <2>3, <2>4, <2>5 DEF IInv
<1>13. QED  BY <1>11, <1>12

(***************************************************************************)
(* A candidate has no decision yet: the jury's points are all its share,   *)
(* and what was pinned or rejected before keeps its cause.                 *)
(***************************************************************************)
LEMMA JuryIInv == IInv /\ Jury => IInv'
<1> SUFFICES ASSUME IInv, Jury PROVE IInv'  OBVIOUS
<1>1. TypeOK'  BY JuryType DEF IInv
<1>2. /\ UNCHANGED <<kind, conf, gate, status, promoted, tested>>
      /\ pc = "jury" /\ pc' = "depth"
  BY DEF Jury
<1>3. PICK r \in [Candidates -> JuryResults] :
        LET upheld == {f \in Candidates : r[f] \in Upheld}
        IN /\ pool' = Kept(r)
           /\ decision' = Override(decision, [f \in Judged(r) |-> r[f]])
           /\ score' = Override(score,
                         [f \in Judged(r) |-> score[f] + JuryPoints[r[f]]])
           /\ pinned' = pinned \cup upheld
           /\ rejected' = rejected \cup (Judged(r) \ upheld)
  BY DEF Jury
<1> DEFINE points == [f \in Judged(r) |-> score[f] + JuryPoints[r[f]]]
           decided == [f \in Judged(r) |-> r[f]]
<1>4. Candidates \subseteq pool /\ pool \subseteq Findings
  BY DEF Candidates, IInv, TypeOK
<1>5. Judged(r) \subseteq Candidates /\ Kept(r) \subseteq Candidates
  BY DEF Judged, Kept
<1>6. \A f \in Judged(r) : r[f] \in Upheld \cup {"REJECTED"}
  BY DEF Judged, JuryResults
<1>7. \A f \in Candidates : decision[f] = ""  BY <1>2 DEF IInv, CandidatesUndecided
<1>8. /\ \A f \in Judged(r) : decision'[f] = r[f]
      /\ \A f \in Findings \ Judged(r) : decision'[f] = decision[f]
  <2>1. DOMAIN decided = Judged(r) /\ \A f \in Judged(r) : decided[f] = r[f]  OBVIOUS
  <2>2. decision' = Override(decision, decided)  BY <1>3
  <2> HIDE DEF decided
  <2>3. QED  BY <1>4, <1>5, <2>1, <2>2 DEF Override
<1>9. /\ \A f \in Judged(r) : score'[f] = score[f] + JuryPoints[r[f]]
      /\ \A f \in Findings \ Judged(r) : score'[f] = score[f]
  <2>1. DOMAIN points = Judged(r)  OBVIOUS
  <2>2. \A f \in Judged(r) : points[f] = score[f] + JuryPoints[r[f]]  OBVIOUS
  <2>3. score' = Override(score, points)  BY <1>3
  <2> HIDE DEF points
  <2>4. QED  BY <1>4, <1>5, <2>1, <2>2, <2>3 DEF Override
<1>10. Scored'
  <2> SUFFICES ASSUME NEW f \in pool', f \notin promoted'
               PROVE  score'[f] <= Bound(f)'
    BY DEF Scored
  <2>1. f \in pool /\ f \in Findings /\ f \in Candidates /\ f \notin promoted
    BY <1>2, <1>3, <1>4, <1>5
  <2>2. score[f] <= Bound(f)  BY <2>1 DEF IInv, Scored
  <2>3. CASE f \notin Judged(r)
    <3>1. Bound(f)' = Bound(f) /\ score'[f] = score[f]
      BY <1>2, <1>8, <1>9, <2>1, <2>3 DEF Bound
    <3>2. QED  BY <2>2, <3>1
  <2>4. CASE f \in Judged(r)
    <3>1. /\ Seed(kind[f], conf[f]) \in Int
          /\ GateShare(gate[f]) \in Int
          /\ score[f] \in Int
      <4>1. kind[f] \in Kinds /\ score[f] \in Int  BY <2>1 DEF IInv, TypeOK
      <4>2. conf[f] \in 0..100  BY <2>1 DEF IInv, InRange
      <4>3. Seed(kind[f], conf[f]) \in Int  BY <4>1, <4>2, SeedBounds
      <4>4. GateShare(gate[f]) \in Int  BY DEF GateShare
      <4>5. QED  BY <4>1, <4>3, <4>4
    <3>2. JuryShare(decision[f]) = 0  BY <1>7, <2>1 DEF JuryShare, Upheld
    <3>3. score[f] <= Seed(kind[f], conf[f]) + GateShare(gate[f])
      BY <2>2, <3>1, <3>2 DEF Bound
    <3>4. /\ JuryPoints[r[f]] \in Int /\ JuryShare(r[f]) \in Int
          /\ JuryPoints[r[f]] <= JuryShare(r[f])
      BY <1>6, <2>4 DEF JuryPoints, JuryShare, Upheld
    <3>5. Bound(f)' = Seed(kind[f], conf[f]) + GateShare(gate[f]) + JuryShare(r[f])
      BY <1>2, <1>8, <2>4 DEF Bound
    <3>6. score'[f] = score[f] + JuryPoints[r[f]]  BY <1>9, <2>4
    <3>7. QED  BY <3>1, <3>3, <3>4, <3>5, <3>6
  <2>5. QED  BY <2>3, <2>4
<1>11. PinnedForCause'
  <2> SUFFICES ASSUME NEW f \in pinned', f \notin promoted'
               PROVE  decision'[f] \in Upheld
    BY DEF PinnedForCause
  <2>1. CASE f \in pinned
    <3>1. decision[f] \in Upheld /\ f \in Findings
      BY <1>2, <2>1 DEF IInv, PinnedForCause, TypeOK
    <3>2. f \notin Judged(r)  BY <1>5, <1>7, <3>1 DEF Upheld
    <3>3. QED  BY <1>8, <3>1, <3>2
  <2>2. CASE f \notin pinned
    <3>1. f \in Candidates /\ r[f] \in Upheld  BY <1>3, <2>2
    <3>2. f \in Judged(r)  BY <3>1 DEF Judged, Upheld
    <3>3. QED  BY <1>8, <3>1, <3>2
  <2>3. QED  BY <2>1, <2>2
<1>12. RejectedByDecision'
  <2> SUFFICES ASSUME NEW f \in rejected'
               PROVE  decision'[f] \in {"REJECTED", "GATE_REFUTED"}
    BY DEF RejectedByDecision
  <2>1. CASE f \in rejected
    <3>1. decision[f] \in {"REJECTED", "GATE_REFUTED"} /\ f \in Findings
      BY <2>1 DEF IInv, RejectedByDecision, TypeOK
    <3>2. f \notin Judged(r)  BY <1>5, <1>7, <3>1
    <3>3. QED  BY <1>8, <3>1, <3>2
  <2>2. CASE f \notin rejected
    <3>1. f \in Judged(r) /\ r[f] \notin Upheld  BY <1>3, <1>5, <2>2
    <3>2. QED  BY <1>6, <1>8, <3>1
  <2>3. QED  BY <2>1, <2>2
<1>13. InRange' /\ GateDecided'
  <2>1. InRange'  BY <1>2, <1>3, <1>4, <1>5 DEF IInv, InRange
  <2>2. GateDecided'
    BY <1>2, <1>6, <1>8 DEF IInv, GateDecided, Upheld
  <2>3. QED  BY <2>1, <2>2
<1>14. (Unpinned /\ Unjudged /\ CandidatesUndecided /\ Untested /\ ProvenByTest)'
  BY <1>2 DEF IInv, Unpinned, Unjudged, CandidatesUndecided, Untested, ProvenByTest
<1>15. TestedEarnsIt'
  <2>1. tested' = {}  BY <1>2 DEF IInv, Untested
  <2>2. QED  BY <2>1 DEF TestedEarnsIt
<1>16. QED
  BY <1>1, <1>10, <1>11, <1>12, <1>13, <1>14, <1>15 DEF IInv

(***************************************************************************)
(* Without an upholding decision the gate's 20 points are the most there   *)
(* is on top of the seed, so the threshold takes a seed of 30.             *)
(***************************************************************************)
LEMMA EligibleEarns ==
    ASSUME IInv, NEW f \in Eligible
    PROVE  \/ f \in promoted
           \/ decision[f] \in Upheld
           \/ kind[f] = "attack" /\ conf[f] >= 90 /\ gate[f] = "PASS" /\ decision[f] = ""
<1> SUFFICES ASSUME f \notin promoted, decision[f] \notin Upheld
             PROVE  /\ kind[f] = "attack" /\ conf[f] >= 90
                    /\ gate[f] = "PASS" /\ decision[f] = ""
  OBVIOUS
<1>1. f \in pool /\ f \in Findings  BY DEF Eligible, IInv, TypeOK
<1>2. f \notin pinned  BY DEF IInv, PinnedForCause
<1>3. score[f] >= 50  BY <1>2 DEF Eligible, Promote
<1>4. score[f] <= Bound(f)  BY <1>1 DEF IInv, Scored
<1>5. kind[f] \in Kinds /\ score[f] \in Int  BY <1>1 DEF IInv, TypeOK
<1>6. conf[f] \in 0..100  BY <1>1 DEF IInv, InRange
<1>7. /\ Seed(kind[f], conf[f]) \in Int
      /\ Seed(kind[f], conf[f]) >= 30 => kind[f] = "attack" /\ conf[f] >= 90
  BY <1>5, <1>6, SeedBounds
<1>8. Seed(kind[f], conf[f]) <= 33  BY <1>5, <1>6, SeedBounds
<1>9. GateShare(gate[f]) \in {0, 5, 20} /\ JuryShare(decision[f]) \in {-25, 0}
  BY DEF GateShare, JuryShare
<1>10. GateShare(gate[f]) = 20 /\ JuryShare(decision[f]) = 0
  BY <1>3, <1>4, <1>5, <1>7, <1>8, <1>9 DEF Bound
<1>11. gate[f] = "PASS"  BY <1>10 DEF GateShare
<1>12. Seed(kind[f], conf[f]) >= 30
  BY <1>3, <1>4, <1>5, <1>7, <1>10 DEF Bound
<1>13. decision[f] = ""
  <2>1. decision[f] # "REJECTED"  BY <1>10 DEF JuryShare, Upheld
  <2>2. decision[f] \notin {"GATE_DEMOTED", "GATE_REFUTED"}
    BY <1>1, <1>11 DEF IInv, GateDecided
  <2>3. decision[f] \in Decisions  BY <1>1 DEF IInv, TypeOK, Decisions
  <2>4. QED  BY <2>1, <2>2, <2>3 DEF Decisions
<1>14. QED  BY <1>7, <1>11, <1>12, <1>13

LEMMA TestIInv == IInv /\ Test => IInv'
<1> SUFFICES ASSUME IInv, Test PROVE IInv'  OBVIOUS
<1>1. TypeOK'  BY TestType DEF IInv
<1>2. /\ UNCHANGED <<pool, kind, conf, score, pinned, promoted, gate, decision, rejected>>
      /\ pc = "test" /\ pc' = "done" /\ tested' = Eligible
  BY DEF Test
<1>3. PICK o \in [Eligible -> {"error", "failed", "proven"}] :
        LET proven == {f \in Eligible : o[f] = "proven"}
        IN status' = Override(status,
             [f \in proven \cup Failed(o) |->
                IF f \in proven THEN "PROVEN" ELSE "REJECTED"])
  BY DEF Test
<1> DEFINE proven == {f \in Eligible : o[f] = "proven"}
           outcome == [f \in proven \cup Failed(o) |->
                         IF f \in proven THEN "PROVEN" ELSE "REJECTED"]
<1>4. ProvenByTest'
  <2> SUFFICES ASSUME NEW f \in Findings, status'[f] = "PROVEN" PROVE f \in Eligible
    BY <1>2 DEF ProvenByTest
  <2>1. DOMAIN outcome = proven \cup Failed(o)  OBVIOUS
  <2>2. \A g \in DOMAIN outcome : outcome[g] = "PROVEN" => g \in proven  OBVIOUS
  <2>3. status' = Override(status, outcome)  BY <1>3
  <2>4. status[f] # "PROVEN"  BY <1>2 DEF IInv, Untested
  <2>5. proven \subseteq Eligible  OBVIOUS
  <2> HIDE DEF outcome, proven
  <2>6. QED  BY <2>1, <2>2, <2>3, <2>4, <2>5 DEF Override
<1>5. TestedEarnsIt'  BY <1>2, EligibleEarns DEF TestedEarnsIt
<1>6. Scored'  BY <1>2 DEF IInv, Scored, Bound
<1>7. (InRange /\ Unpinned /\ Unjudged /\ CandidatesUndecided /\ Untested)'
  BY <1>2 DEF IInv, InRange, Unpinned, Unjudged, CandidatesUndecided, Untested
<1>8. (PinnedForCause /\ GateDecided /\ RejectedByDecision)'
  BY <1>2 DEF IInv, PinnedForCause, GateDecided, RejectedByDecision
<1>9. QED  BY <1>1, <1>4, <1>5, <1>6, <1>7, <1>8 DEF IInv

(***************************************************************************)
(* The other stages touch nothing the invariant speaks of, beside pc.      *)
(***************************************************************************)
LEMMA OtherIInv ==
    ASSUME IInv, SkipJudging \/ JuryMissing \/ Depth \/ Chain \/ UNCHANGED vars
    PROVE  IInv'
<1>1. UNCHANGED <<pool, kind, conf, score, pinned, promoted, tested, gate,
                  decision, status, rejected>>
  BY DEF SkipJudging, JuryMissing, Depth, Chain, vars, result
<1>2. \/ pc' = pc
      \/ pc # "done" /\ pc' \in {"depth", "crashed", "chain", "test"}
  BY DEF SkipJudging, JuryMissing, Depth, Chain, vars
<1>3. TypeOK'
  <2>1. CASE SkipJudging \/ JuryMissing
    BY <2>1, StepType DEF Next, IInv
  <2>2. CASE Depth  BY <2>2, DepthType DEF IInv
  <2>3. CASE Chain  BY <2>3, ChainType DEF IInv
  <2>4. CASE UNCHANGED vars  BY <2>4, StepType DEF IInv
  <2>5. QED  BY <2>1, <2>2, <2>3, <2>4
<1>4. Scored'  BY <1>1 DEF IInv, Scored, Bound
<1>5. (InRange /\ Unpinned /\ Unjudged /\ CandidatesUndecided)'
  BY <1>1, <1>2 DEF IInv, InRange, Unpinned, Unjudged, CandidatesUndecided, Candidates
<1>6. (PinnedForCause /\ GateDecided /\ RejectedByDecision)'
  BY <1>1 DEF IInv, PinnedForCause, GateDecided, RejectedByDecision
<1>7. (Untested /\ ProvenByTest /\ TestedEarnsIt)'
  BY <1>1, <1>2 DEF IInv, Untested, ProvenByTest, TestedEarnsIt
<1>8. QED  BY <1>3, <1>4, <1>5, <1>6, <1>7 DEF IInv

LEMMA StepIInv == IInv /\ [Next]_vars => IInv'
<1> SUFFICES ASSUME IInv, [Next]_vars PROVE IInv'  OBVIOUS
<1>1. CASE Discover
  <2>1. PICK new \in SUBSET Findings :
          \E c \in [new -> Confidences] : Build([f \in new |-> "semantic"], c)
    BY <1>1 DEF Discover
  <2>2. PICK c \in [new -> Confidences] : Build([f \in new |-> "semantic"], c)
    BY <2>1
  <2>3. [f \in new |-> "semantic"] \in [new -> Kinds]  BY DEF Kinds
  <2>4. pc = "discover" /\ pc' = "work"  BY <1>1 DEF Discover
  <2>5. QED  BY <2>2, <2>3, <2>4, BuildIInv
<1>2. CASE Work
  <2>1. PICK new \in SUBSET (Findings \ pool) :
          \E k \in [new -> Kinds \ {"semantic"}], c \in [new -> Confidences] : Build(k, c)
    BY <1>2 DEF Work
  <2>2. PICK k \in [new -> Kinds \ {"semantic"}], c \in [new -> Confidences] :
          Build(k, c)
    BY <2>1
  <2>3. k \in [new -> Kinds]  OBVIOUS
  <2>4. pc = "work" /\ pc' = "fallback"  BY <1>2 DEF Work
  <2>5. QED  BY <2>2, <2>3, <2>4, BuildIInv
<1>3. QED
  BY <1>1, <1>2, FallbackIInv, GateIInv, JuryIInv, TestIInv, OtherIInv DEF Next

-----------------------------------------------------------------------------
(***************************************************************************)
(* The TestWriter is spent on a finding the fallback promoted, one the     *)
(* jury upheld, or an attack worker's with a confidence of at least 90     *)
(* that passed the gate and that no jury judged, whatever the findings,    *)
(* their confidences and the configuration.                                *)
(***************************************************************************)
THEOREM OnlyEarnedTests == Spec => []TestedEarnsIt
<1>1. IInv => TestedEarnsIt  BY DEF IInv
<1>2. QED  BY <1>1, InitIInv, StepIInv, PTL DEF Spec

(***************************************************************************)
(* What the gate or the jury rejected is proven only if the fallback had   *)
(* promoted it before.                                                     *)
(***************************************************************************)
THEOREM RejectionsStand == Spec => []ProvenNotListedRejected
<1>1. IInv => ProvenNotListedRejected
  <2> SUFFICES ASSUME IInv, NEW f \in rejected, status[f] = "PROVEN"
               PROVE  f \in promoted
    BY DEF ProvenNotListedRejected
  <2>1. f \in tested  BY DEF IInv, ProvenByTest, TypeOK
  <2>2. decision[f] \in {"REJECTED", "GATE_REFUTED"}  BY DEF IInv, RejectedByDecision
  <2>3. QED  BY <2>1, <2>2 DEF IInv, TestedEarnsIt, Upheld
<1>2. QED  BY <1>1, InitIInv, StepIInv, PTL DEF Spec

-----------------------------------------------------------------------------
(***************************************************************************)
(* What the jury decided and what the gate refuted are told apart by the   *)
(* list: the first stays in it, the second leaves it with the jury, so a   *)
(* finding that is listed later was not rejected before its test.          *)
(***************************************************************************)
Before == {"discover", "work", "fallback", "gate"}

StandingInv ==
    /\ pc \in Before \cup {"jury"} => \A f \in Findings : decision[f] \notin Upheld \cup {"REJECTED"}
    /\ pc \in Before => \A f \in Findings : status[f] # "REJECTED"
    /\ pc = "jury" => \A f \in Candidates : status[f] # "REJECTED"
    /\ pc \in {"depth", "chain", "test"} => \A f \in pool : status[f] # "REJECTED"
    /\ JudgedStaysListed
    /\ ConfirmedNotRejected

LEMMA InitStanding == Init => StandingInv
BY DEF Init, StandingInv, JudgedStaysListed, ConfirmedNotRejected, Before, Upheld

LEMMA GateStanding == TypeOK /\ StandingInv /\ GateStage => StandingInv'
<1> SUFFICES ASSUME TypeOK, StandingInv, GateStage PROVE StandingInv'  OBVIOUS
<1>1. pc = "gate" /\ pc' = "jury" /\ pool' = pool /\ pool \subseteq Findings
  BY DEF GateStage, TypeOK
<1>2. /\ \A f \in Findings : decision[f] \notin Upheld \cup {"REJECTED"}
      /\ \A f \in Findings : status[f] # "REJECTED"
  BY <1>1 DEF StandingInv, Before
<1>3. /\ \A f \in Findings : decision'[f] \notin Upheld \cup {"REJECTED"}
      /\ \A f \in pool : gate'[f] = "PASS" => status'[f] # "REJECTED"
  <2>1. CASE On("gate")
    <3>1. PICK v \in [pool -> GateVerdicts] : Gate(v)  BY <2>1 DEF GateStage
    <3> DEFINE refuted == {f \in pool : v[f] = "GATE_REFUTED"}
               demoted == {f \in pool : v[f] = "GATE_DEMOTED"}
               told == [f \in refuted \cup demoted |-> v[f]]
               dropped == [f \in refuted |-> "REJECTED"]
    <3>2. decision' = Override(decision, told) /\ status' = Override(status, dropped)
          /\ gate' = Override(gate, v)
      BY <3>1 DEF Gate
    <3>3. /\ DOMAIN told = refuted \cup demoted /\ DOMAIN dropped = refuted /\ DOMAIN v = pool
          /\ \A f \in DOMAIN told : told[f] \in {"GATE_REFUTED", "GATE_DEMOTED"}
      OBVIOUS
    <3>4. \A f \in pool : v[f] = "PASS" => f \notin refuted  OBVIOUS
    <3> HIDE DEF told, dropped, refuted, demoted
    <3>5. \A f \in Findings : decision'[f] \notin Upheld \cup {"REJECTED"}
      BY <1>2, <3>2, <3>3 DEF Override, Upheld
    <3>6. \A f \in pool : gate'[f] = "PASS" => status'[f] # "REJECTED"
      BY <1>1, <1>2, <3>2, <3>3, <3>4 DEF Override
    <3>7. QED  BY <3>5, <3>6
  <2>2. CASE ~On("gate")
    BY <1>1, <1>2, <2>2 DEF GateStage
  <2>3. QED  BY <2>1, <2>2
<1>4. \A f \in Candidates' : status'[f] # "REJECTED"
  BY <1>1, <1>3 DEF Candidates
<1>5. QED
  BY <1>1, <1>3, <1>4 DEF StandingInv, JudgedStaysListed, ConfirmedNotRejected, Before

LEMMA JuryStanding == TypeOK /\ StandingInv /\ Jury => StandingInv'
<1> SUFFICES ASSUME TypeOK, StandingInv, Jury PROVE StandingInv'  OBVIOUS
<1>1. pc = "jury" /\ pc' = "depth" /\ status' = status
  BY DEF Jury
<1>2. PICK r \in [Candidates -> JuryResults] :
         pool' = Kept(r) /\ decision' = Override(decision, [f \in Judged(r) |-> r[f]])
  BY DEF Jury
<1>3. Kept(r) \subseteq Candidates /\ Judged(r) \subseteq Kept(r)
  BY DEF Kept, Judged
<1>4. \A f \in Findings \ Judged(r) : decision'[f] = decision[f]
  BY <1>2 DEF Override
<1>5. /\ \A f \in Findings : decision[f] \notin Upheld \cup {"REJECTED"}
      /\ \A f \in Candidates : status[f] # "REJECTED"
  BY <1>1 DEF StandingInv
<1>6. JudgedStaysListed'
  BY <1>2, <1>3, <1>4, <1>5 DEF JudgedStaysListed
<1>7. \A f \in pool' : status'[f] # "REJECTED"
  BY <1>1, <1>2, <1>3, <1>5
<1>8. QED
  BY <1>1, <1>6, <1>7 DEF StandingInv, ConfirmedNotRejected, Before

LEMMA TestStanding == TypeOK /\ StandingInv /\ Test => StandingInv'
<1> SUFFICES ASSUME TypeOK, StandingInv, Test PROVE StandingInv'  OBVIOUS
<1>1. pc = "test" /\ pc' = "done" /\ UNCHANGED <<pool, decision>> /\ pool \subseteq Findings
  BY DEF Test, TypeOK
<1>2. PICK o \in [Eligible -> {"error", "failed", "proven"}] :
        LET proven == {f \in Eligible : o[f] = "proven"}
        IN /\ status' = Override(status,
                [f \in proven \cup Failed(o) |->
                   IF f \in proven THEN "PROVEN" ELSE "REJECTED"])
           /\ verdict' = Override(verdict, [f \in proven |-> "CONFIRMED"])
  BY DEF Test
<1> DEFINE proven == {f \in Eligible : o[f] = "proven"}
           outcome == [f \in proven \cup Failed(o) |->
                         IF f \in proven THEN "PROVEN" ELSE "REJECTED"]
           sure == [f \in proven |-> "CONFIRMED"]
<1>3. status' = Override(status, outcome) /\ verdict' = Override(verdict, sure)
  BY <1>2
<1>4. /\ DOMAIN outcome = proven \cup Failed(o) /\ DOMAIN sure = proven
      /\ \A f \in proven : outcome[f] = "PROVEN"
  OBVIOUS
<1>5. \A f \in Failed(o) : verdict[f] # "CONFIRMED"
  BY DEF Failed
<1> HIDE DEF outcome, sure, proven
<1>6. \A f \in pool : status[f] # "REJECTED"
  BY <1>1 DEF StandingInv
<1>7. ConfirmedNotRejected'
  <2> SUFFICES ASSUME NEW f \in pool, verdict'[f] = "CONFIRMED" PROVE status'[f] # "REJECTED"
    BY <1>1 DEF ConfirmedNotRejected
  <2>1. CASE f \in proven
    <3>1. status'[f] = "PROVEN"  BY <1>1, <1>3, <1>4, <2>1 DEF Override
    <3>2. QED  BY <3>1
  <2>2. CASE f \notin proven
    <3>1. verdict[f] = "CONFIRMED"  BY <1>1, <1>3, <1>4, <2>2 DEF Override
    <3>2. f \notin DOMAIN outcome  BY <1>4, <1>5, <2>2, <3>1
    <3>3. QED  BY <1>1, <1>3, <1>6, <3>2 DEF Override
  <2>3. QED  BY <2>1, <2>2
<1>8. JudgedStaysListed'
  BY <1>1 DEF StandingInv, JudgedStaysListed
<1>9. QED
  BY <1>1, <1>7, <1>8 DEF StandingInv, Before

LEMMA StepStanding == TypeOK /\ StandingInv /\ [Next]_vars => StandingInv'
<1> SUFFICES ASSUME TypeOK, StandingInv, [Next]_vars PROVE StandingInv'  OBVIOUS
<1>1. CASE Discover \/ Work \/ Fallback
  <2>1. UNCHANGED <<decision, status, gate>> /\ pc \in Before /\ pc' \in Before
    BY <1>1 DEF Discover, Work, Fallback, Build, result, Before
  <2>2. QED
    BY <2>1 DEF StandingInv, JudgedStaysListed, ConfirmedNotRejected, Before
<1>2. CASE SkipJudging
  <2>1. pc = "gate" /\ pc' = "depth" /\ UNCHANGED <<decision, status, pool>>
    BY <1>2 DEF SkipJudging, result
  <2>2. QED
    BY <2>1 DEF StandingInv, JudgedStaysListed, ConfirmedNotRejected, Before, TypeOK
<1>3. CASE JuryMissing
  BY <1>3 DEF JuryMissing, result, StandingInv, JudgedStaysListed, ConfirmedNotRejected, Before
<1>4. CASE Depth \/ Chain
  <2>1. /\ pc \in {"depth", "chain"} /\ pc' \in {"chain", "test"}
        /\ UNCHANGED <<decision, status, pool>>
    BY <1>4 DEF Depth, Chain, result
  <2>2. QED
    BY <2>1 DEF StandingInv, JudgedStaysListed, ConfirmedNotRejected, Before
<1>5. CASE UNCHANGED vars
  BY <1>5 DEF vars, result, StandingInv, JudgedStaysListed, ConfirmedNotRejected, Before,
              Candidates
<1>6. QED
  BY <1>1, <1>2, <1>3, <1>4, <1>5, GateStanding, JuryStanding, TestStanding DEF Next

LEMMA Standing == Spec => [](TypeOK /\ StandingInv)
BY InitType, StepType, InitStanding, StepStanding, PTL DEF Spec

(***************************************************************************)
(* A finding the jury decided on stays in the list, in every               *)
(* configuration (lead_agent.py:1103).                                     *)
(***************************************************************************)
THEOREM JudgedAreListed == Spec => []JudgedStaysListed
<1>1. StandingInv => JudgedStaysListed  BY DEF StandingInv
<1>2. QED  BY <1>1, Standing, PTL

(***************************************************************************)
(* No report calls a finding confirmed by its verdict and rejected by its  *)
(* status (lead_agent.py:1648).                                            *)
(***************************************************************************)
THEOREM ReportsAgree == Spec => []ConfirmedNotRejected
<1>1. StandingInv => ConfirmedNotRejected  BY DEF StandingInv
<1>2. QED  BY <1>1, Standing, PTL
=============================================================================
