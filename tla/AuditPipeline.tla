---------------------------- MODULE AuditPipeline ----------------------------
(***************************************************************************)
(* coordinator_node (src/src/pipeline/lead_agent.py:416): the pipeline of  *)
(* one audit, from the workers' outputs to the list of findings that goes  *)
(* into the report.  Each stage gathers its calls, timeouts and failures   *)
(* included, before it applies any of them, so a stage is one step with a  *)
(* free choice of results.                                                 *)
(*                                                                         *)
(* A finding collects plausibility points on the way and is handed to the  *)
(* TestWriter when it has enough of them, or when it is pinned.  Left out: *)
(* recon, threat profile, severity, confidence after a finding is built    *)
(* (the RAG sweep changes nothing else), the leads of the synthesis, and   *)
(* the fuzzer, which only reads what the TestWriter decided.               *)
(***************************************************************************)
EXTENDS Integers, FiniteSets

CONSTANTS
    Findings,      \* outputs the workers may return
    Untestable,    \* those whose severity, target or contract is filtered out
    Confidences,   \* confidences a worker may report
    Verdicts,      \* verdicts a worker may report
    Configs,       \* configurations, each the set of stages it enables
    FallbackN      \* SEMANTIC_FALLBACK_N, 3 in the code

Promote == 50            \* PROMOTE_THRESHOLD
FallbackThreshold == 55  \* SEMANTIC_FALLBACK_THRESHOLD

AllVerdicts ==
    {"UNASSESSED", "CONFIRMED", "PARTIAL", "CONTESTED", "REFUTED", "REFINED"}

ASSUME PipelineAssumption ==
    /\ Untestable \subseteq Findings
    /\ Confidences \subseteq 0..100
    /\ Verdicts \subseteq AllVerdicts
    /\ Configs \subseteq SUBSET {"slither", "semantic", "assumption", "gate", "jury",
                              "depth", "chain"}
    /\ FallbackN \in Nat

VARIABLES
    config,    \* the stages that are enabled
    pc,        \* the stage the coordinator is at
    pool,      \* the local list "findings"
    kind,      \* which worker a finding came from
    conf,      \* the confidence it came with
    verdict,
    score,     \* plausibility_score
    gate,      \* gate_verdict
    decision,  \* jury_decision
    status,
    pinned,    \* findings with _jury_confirmed
    promoted,  \* findings with a "semantic_fallback" entry in their log
    rejected,  \* jury_rejected_findings
    tested     \* findings the TestWriter was run on

result == <<gate, decision, status, rejected>>
vars == <<config, pc, pool, kind, conf, verdict, score, pinned, promoted,
          tested, result>>

Kinds == {"attack", "assumption", "trace", "semantic"}
GateVerdicts == {"PASS", "GATE_DEMOTED", "GATE_REFUTED"}
Upheld == {"CONFIRMED", "CONFIRMED_UNPROVABLE", "ESCALATE"}
JuryResults == Upheld \cup {"REJECTED", "timeout", "error"}
Stages == {"discover", "work", "fallback", "gate", "jury", "depth", "chain",
           "test", "done", "crashed"}

TypeOK ==
    /\ config \in Configs
    /\ pc \in Stages
    /\ pool \subseteq Findings
    /\ kind \in [Findings -> Kinds]
    /\ conf \in [Findings -> Int]
    /\ verdict \in [Findings -> AllVerdicts]
    /\ score \in [Findings -> Int]
    /\ gate \in [Findings -> GateVerdicts \cup {""}]
    /\ decision \in [Findings ->
                       Upheld \cup {"REJECTED", "GATE_DEMOTED", "GATE_REFUTED", ""}]
    /\ status \in [Findings -> {"UNCONFIRMED", "PROVEN", "REJECTED"}]
    /\ pinned \subseteq Findings
    /\ promoted \subseteq Findings
    /\ rejected \subseteq Findings
    /\ tested \subseteq Findings

Init ==
    /\ config \in Configs
    /\ pc = "discover"
    /\ pool = {}
    /\ kind = [f \in Findings |-> "attack"]
    /\ conf = [f \in Findings |-> 0]
    /\ verdict = [f \in Findings |-> "UNASSESSED"]
    /\ score = [f \in Findings |-> 0]
    /\ gate = [f \in Findings |-> ""]
    /\ decision = [f \in Findings |-> ""]
    /\ status = [f \in Findings |-> "UNCONFIRMED"]
    /\ pinned = {}
    /\ promoted = {}
    /\ rejected = {}
    /\ tested = {}

On(stage) == stage \in config

(* old with the values that new has for some of the findings.              *)
Override(old, new) ==
    [f \in Findings |-> IF f \in DOMAIN new THEN new[f] ELSE old[f]]

-----------------------------------------------------------------------------
(***************************************************************************)
(* Steps 1.5 to 4: the workers' outputs become findings.  A worker that    *)
(* times out, fails or reports less than its floor gives none.             *)
(***************************************************************************)
Floor == [attack |-> 30, assumption |-> 25, trace |-> 35]

\* Mutant: the seed is the worker's confidence.
SeedUnscaled(k, c) == c

Seed(k, c) ==
    IF k = "semantic"
      THEN IF c >= 70 THEN 14 ELSE IF c >= 50 THEN 10 ELSE 5
      ELSE c \div (IF k # "attack" THEN 4 ELSE IF c >= 50 THEN 3 ELSE 5)

Build(k, c) ==
    /\ pool' = pool \cup DOMAIN c
    /\ kind' = Override(kind, k)
    /\ conf' = Override(conf, c)
    /\ \E v \in [DOMAIN c -> Verdicts] : verdict' = Override(verdict, v)
    /\ score' = Override(score, [f \in DOMAIN c |-> Seed(k[f], c[f])])
    /\ UNCHANGED <<config, pinned, promoted, tested, result>>

Discover ==
    /\ pc = "discover"
    /\ pc' = "work"
    /\ \E new \in SUBSET Findings :
         /\ On("semantic") \/ new = {}
         /\ \E c \in [new -> Confidences] : Build([f \in new |-> "semantic"], c)

(* Steps 2 and 3.  With no hotspot there are no workers; otherwise every   *)
(* hotspot is given to one worker of each kind that is enabled.            *)
Launched(k) ==
    \A f \in DOMAIN k : On("slither") /\ (k[f] = "assumption" => On("assumption"))

Work ==
    /\ pc = "work"
    /\ pc' = "fallback"
    /\ \E new \in SUBSET (Findings \ pool) :
         \E k \in [new -> Kinds \ {"semantic"}], c \in [new -> Confidences] :
           /\ Launched(k)
           /\ \A f \in new : c[f] >= Floor[k[f]]
           /\ Build(k, c)

(***************************************************************************)
(* Step 4.25.  A semantic finding with a class that the list of semantic   *)
(* classes does not name (misfiled) counts as an attack worker's.          *)
(***************************************************************************)
Fallback ==
    /\ pc = "fallback"
    /\ pc' = "gate"
    /\ \E misfiled \in SUBSET {f \in pool : kind[f] = "semantic"}, best \in SUBSET pool :
         LET derived == {f \in pool : kind[f] # "semantic"} \cup misfiled
             high == {f \in pool : conf[f] >= FallbackThreshold}
             count == IF derived # {} THEN 0
                      ELSE IF Cardinality(high) < FallbackN
                      THEN Cardinality(high) ELSE FallbackN
         IN /\ best \subseteq high
            /\ Cardinality(best) = count
            /\ \A f \in best, g \in high \ best : conf[f] >= conf[g]
            /\ promoted' = best
            /\ pinned' = best
            /\ score' = [f \in Findings |->
                           IF f \in best THEN score[f] + 40 ELSE score[f]]
    /\ UNCHANGED <<config, pool, kind, conf, verdict, tested, result>>

-----------------------------------------------------------------------------
(***************************************************************************)
(* Step 4.45, the gate; it fails open, so a failed call is a PASS.         *)
(***************************************************************************)
GatePoints == [PASS |-> 20, GATE_DEMOTED |-> 5, GATE_REFUTED |-> -40]

Gate(v) ==
    LET refuted == {f \in pool : v[f] = "GATE_REFUTED"}
        demoted == {f \in pool : v[f] = "GATE_DEMOTED"}
    IN /\ gate' = Override(gate, v)
       /\ score' = Override(score, [f \in pool |-> score[f] + GatePoints[v[f]]])
       /\ decision' = Override(decision, [f \in refuted \cup demoted |-> v[f]])
       /\ status' = Override(status, [f \in refuted |-> "REJECTED"])
       /\ verdict' = Override(verdict, [f \in demoted |-> "PARTIAL"])
       /\ rejected' = rejected \cup refuted

GateStage ==
    /\ pc = "gate"
    /\ pool # {}
    /\ pc' = "jury"
    /\ IF On("gate")
         THEN \E v \in [pool -> GateVerdicts] : Gate(v)
         ELSE /\ On("jury")
              /\ gate' = Override(gate, [f \in pool |-> "PASS"])
              /\ UNCHANGED <<score, decision, status, verdict, rejected>>
    /\ UNCHANGED <<config, pool, kind, conf, pinned, promoted, tested>>

\* Mutant: the outer condition is dropped, and the stage runs in every mode.
SkipNever ==
    /\ pc = "gate"
    /\ pool = {}
    /\ pc' = "depth"
    /\ UNCHANGED <<config, pool, kind, conf, verdict, score, pinned, promoted,
                   tested, result>>

(* Gate and jury are both off, or there is nothing to judge.               *)
SkipJudging ==
    /\ pc = "gate"
    /\ pool = {} \/ ~(On("gate") \/ On("jury"))
    /\ pc' = "depth"
    /\ UNCHANGED <<config, pool, kind, conf, verdict, score, pinned, promoted,
                   tested, result>>

-----------------------------------------------------------------------------
(***************************************************************************)
(* Step 4.5, the jury.                                                     *)
(***************************************************************************)
\* Mutant: a rejection costs nothing.
JuryPointsKept ==
    [CONFIRMED |-> 30, CONFIRMED_UNPROVABLE |-> 20, ESCALATE |-> 10, REJECTED |-> 0]

JuryPoints ==
    [CONFIRMED |-> 30, CONFIRMED_UNPROVABLE |-> 20, ESCALATE |-> 10, REJECTED |-> -25]

Judged(r) == {f \in DOMAIN r : r[f] \notin {"timeout", "error"}}

\* Mutant: what the jury rejected is dropped.
KeptUnlessRejected(r) == {f \in DOMAIN r : r[f] \notin {"error", "REJECTED"}}

(* A jury that timed out or failed leaves the finding as it was; one whose *)
(* context could not be built raises, and the finding is skipped.          *)
Kept(r) == {f \in DOMAIN r : r[f] # "error"}

Candidates == {f \in pool : gate[f] = "PASS"}

(* The list of confirmed findings is emptied before the results are added: *)
(* what was not a candidate is gone.                                       *)
Jury ==
    /\ pc = "jury"
    /\ On("jury") \/ Candidates = {}
    /\ pc' = "depth"
    /\ \E r \in [Candidates -> JuryResults] :
         LET upheld == {f \in Candidates : r[f] \in Upheld}
         IN /\ pool' = Kept(r)
            /\ decision' = Override(decision, [f \in Judged(r) |-> r[f]])
            /\ score' = Override(score,
                          [f \in Judged(r) |-> score[f] + JuryPoints[r[f]]])
            /\ pinned' = pinned \cup upheld
            /\ rejected' = rejected \cup (Judged(r) \ upheld)
    /\ UNCHANGED <<config, kind, conf, verdict, gate, status, promoted, tested>>

(* The function the list of calls is built with is defined only in the     *)
(* branch taken when the jury is on: UnboundLocalError.                    *)
JuryMissing ==
    /\ pc = "jury"
    /\ ~On("jury")
    /\ Candidates # {}
    /\ pc' = "crashed"
    /\ UNCHANGED <<config, pool, kind, conf, verdict, score, pinned, promoted,
                   tested, result>>

-----------------------------------------------------------------------------
(***************************************************************************)
(* Step 4.7.  The coordinator also picks what the gate demoted, but        *)
(* run_depth_workers looks at the verdict alone.                           *)
(***************************************************************************)
Uncertain ==
    {f \in pool : On("depth") /\ verdict[f] \in {"CONTESTED", "PARTIAL", "UNASSESSED"}}

\* Mutant: the verdict in the answer is taken as it is.
DepthVerdictsUnchecked == {"CONFIRMED", "REFINED", "CONTESTED", "REFUTED", "UNCLEAR"}

DepthVerdicts == {"CONFIRMED", "REFINED", "CONTESTED", "REFUTED"}

(* The verdict is set to the result's after the last pass.  What comes back*)
(* are pairs, in which the coordinator finds no finding to give points to. *)
Depth ==
    /\ pc = "depth"
    /\ pc' = "chain"
    /\ \E analysed \in SUBSET Uncertain :
         \E v \in [analysed -> DepthVerdicts] : verdict' = Override(verdict, v)
    /\ UNCHANGED <<config, pool, kind, conf, score, pinned, promoted, tested, result>>

(***************************************************************************)
(* Step 4.8.  A finding is blocked by a precondition that another one, not *)
(* refuted, may establish.                                                 *)
(***************************************************************************)
Chain ==
    /\ pc = "chain"
    /\ pc' = "test"
    /\ \E blocked \in SUBSET pool :
         /\ blocked # {} => On("chain")
         /\ \A f \in blocked : \E e \in pool \ {f} : verdict[e] # "REFUTED"
         /\ verdict' = [f \in Findings |->
              IF f \in blocked /\ verdict[f] = "REFUTED" THEN "PARTIAL"
              ELSE IF f \in blocked /\ verdict[f] = "UNASSESSED" THEN "CONTESTED"
              ELSE verdict[f]]
    /\ UNCHANGED <<config, pool, kind, conf, score, pinned, promoted, tested, result>>

-----------------------------------------------------------------------------
(***************************************************************************)
(* Step 6, the TestWriter; testwriter_enabled only chooses what is printed.*)
(***************************************************************************)
Eligible ==
    {f \in pool \ Untestable : f \in pinned \/ score[f] >= Promote}

\* Mutant: a failed test rejects whatever the verdict.
FailedAlways(o) == {f \in DOMAIN o : o[f] = "failed"}

(* A failed test rejects the finding, unless its verdict is CONFIRMED.     *)
Failed(o) == {f \in DOMAIN o : o[f] = "failed" /\ verdict[f] # "CONFIRMED"}

Test ==
    /\ pc = "test"
    /\ pc' = "done"
    /\ \E o \in [Eligible -> {"error", "failed", "proven"}] :
         LET proven == {f \in Eligible : o[f] = "proven"}
         IN /\ status' = Override(status,
                 [f \in proven \cup Failed(o) |->
                    IF f \in proven THEN "PROVEN" ELSE "REJECTED"])
            /\ verdict' = Override(verdict, [f \in proven |-> "CONFIRMED"])
    /\ tested' = Eligible
    /\ UNCHANGED <<config, pool, kind, conf, score, pinned, promoted, gate,
                   decision, rejected>>

Next ==
    \/ Discover \/ Work \/ Fallback
    \/ GateStage \/ SkipJudging
    \/ Jury \/ JuryMissing
    \/ Depth \/ Chain \/ Test

(* Every stage bounds its calls by timeouts, so the next one is reached.   *)
Spec == Init /\ [][Next]_vars /\ WF_vars(Next)

-----------------------------------------------------------------------------
(***************************************************************************)
(* What the TestWriter is spent on: a finding that the fallback promoted,  *)
(* one the jury upheld, or an attack worker's with a confidence of at      *)
(* least 90 that passed the gate and had no jury.  No other worker's seed  *)
(* and the gate's points together reach the threshold.                     *)
(***************************************************************************)
TestedEarnsIt ==
    \A f \in tested :
      \/ f \in promoted
      \/ decision[f] \in Upheld
      \/ kind[f] = "attack" /\ conf[f] >= 90 /\ gate[f] = "PASS" /\ decision[f] = ""

(***************************************************************************)
(* No finding is reported both as proven and among those the gate or the   *)
(* jury rejected, unless the fallback promoted it before.                  *)
(***************************************************************************)
ProvenNotListedRejected ==
    \A f \in rejected : status[f] = "PROVEN" => f \in promoted

(***************************************************************************)
(* A finding the jury decided on, a rejection included, stays in the list  *)
(* that goes to the depth workers and into the report.                     *)
(***************************************************************************)
JudgedStaysListed ==
    \A f \in Findings : decision[f] \in Upheld \cup {"REJECTED"} => f \in pool

(***************************************************************************)
(* A report never calls a finding confirmed by its verdict and rejected by *)
(* its status.                                                             *)
(***************************************************************************)
ConfirmedNotRejected ==
    pc = "done" =>
      \A f \in pool : ~(verdict[f] = "CONFIRMED" /\ status[f] = "REJECTED")

(***************************************************************************)
(* With the jury enabled, or the gate disabled, every audit ends with a    *)
(* report.                                                                 *)
(***************************************************************************)
Finishes == (On("jury") \/ ~On("gate")) ~> pc = "done"

(***************************************************************************)
(* Judging keeps the findings: without a jury those the gate passed go on, *)
(* and so do the ones the gate demoted or refuted ("keep in pool for depth *)
(* resurrection", lead_agent.py:990).                                      *)
(***************************************************************************)
JudgingKeepsFindings ==
    /\ pc # "crashed"
    /\ pc \in {"depth", "chain", "test", "done"} =>
         \A f \in Findings : gate[f] # "" => f \in pool
=============================================================================
