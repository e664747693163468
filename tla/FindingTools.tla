---------------------------- MODULE FindingTools ----------------------------
(***************************************************************************)
(* The stages of an audit as tools (src/src/agent/tools): the agents of a  *)
(* session call them in any order, as often as they like and on the same   *)
(* list of findings, ctx.findings.                                         *)
(*                                                                         *)
(* A tool that asks a model picks its targets at the start of the call;    *)
(* each is then judged by a coroutine of its own, and other agents' calls  *)
(* come between.  What a reply changes in a finding it changes at once.    *)
(* The findings are numbered from 1 here and from 0 in the code.           *)
(***************************************************************************)
EXTENDS JuryPanel, ChainAnalyzer

CONSTANTS
    Agents,        \* who may call tools
    Seeds,         \* what a worker may report
    Promote,       \* PROMOTE_THRESHOLD, 50 by default
    Asked,         \* the lists of indices a model may send with a call
    MaxFindings,   \* bound: findings of the session
    MaxCalls       \* bound: tool calls on findings there are

Verdicts == {"CONFIRMED", "PARTIAL", "CONTESTED", "REFUTED", "UNASSESSED"}

Conditions == [words : SUBSET STRING, text : SUBSET STRING, kind : Kinds]

Reporters == {"attack", "assumption", "execution_trace", "semantic"}

(* What of a worker's report reaches a finding and is never changed.       *)
Seed == [worker : Reporters,
         confidence : 0..100, contract : STRING, severity : Severities,
         verdict : Verdicts, posts : Seq(Conditions), missing : Seq(Conditions)]

ASSUME ToolAssumption ==
    /\ Seeds \subseteq Seed
    /\ Promote \in Nat
    /\ Asked \subseteq Seq(Int)
    /\ MaxFindings \in Nat \ {0}
    /\ MaxCalls \in Nat

VARIABLES
    findings,   \* ctx.findings
    call,       \* the tool call each agent is in
    calls,      \* tool calls so far
    named       \* auxiliary: findings that some call asked for by index

toolVars == <<findings, call, calls, named>>

(* The stages that leave an entry, the worker's first.                     *)
Stages == Reporters \cup {"gate_pass", "gate_refuted", "gate_demoted", "jury_confirmed",
                          "jury_contested", "jury_refuted", "depth_worker", "poc_pass", "rag_match"}

Entry == [stage : Stages, points : Int]

Finding == [seed : Seed, verdict : Verdicts, gate : GateVerdicts \cup {""},
            jury : Decisions \cup {""}, proven : BOOLEAN, passes : Nat, precedent : 0..100,
            score : Int, log : Seq(Entry),
            chains : SUBSET Nat, role : {"", "enabler", "blocked"}, upgrade : 0..4]

Tools == {"gate", "jury", "depth", "tests"}

(* todo: the targets still to be judged, each with its place among the     *)
(* call's targets: an index sent twice is judged twice.                    *)
Idle == [tool |-> "none", todo |-> {}]

(* Finding.contribute_score.                                               *)
Contributed(f, stage, points) ==
    [f EXCEPT !.score = @ + points,
              !.log = Append(@, [stage |-> stage, points |-> points])]

Change(i, f) == findings' = [findings EXCEPT ![i] = f]

-----------------------------------------------------------------------------
(* run_attack_analysis and run_semantic_analysis: the reports of all       *)
(* workers are turned into findings after the last one has answered.       *)
Floor(worker) == IF worker = "assumption" THEN 25 ELSE 50

SpeculativeFloor(worker) == IF worker = "assumption" THEN 15 ELSE 30

Reported(s) == s.worker = "semantic" \/ s.confidence >= SpeculativeFloor(s.worker)

OpeningPoints(s) ==
    IF s.worker = "semantic"
    THEN IF s.confidence >= 70 THEN 14 ELSE IF s.confidence >= 50 THEN 10 ELSE 5
    ELSE IF s.confidence >= Floor(s.worker) THEN s.confidence \div 3
    ELSE s.confidence \div 5

NewFinding(s) ==
    [seed |-> s, verdict |-> s.verdict, gate |-> "", jury |-> "", proven |-> FALSE,
     passes |-> 0, precedent |-> 0, score |-> OpeningPoints(s),
     log |-> <<[stage |-> s.worker, points |-> OpeningPoints(s)]>>,
     chains |-> {}, role |-> "", upgrade |-> 0]

Analyse(a) ==
    /\ call[a] = Idle
    /\ \E n \in 1..(MaxFindings - Len(findings)) :
         \E reports \in [1..n -> {s \in Seeds : Reported(s)}] :
            findings' = findings \o [k \in 1..n |-> NewFinding(reports[k])]
    /\ UNCHANGED <<call, calls, named>>

-----------------------------------------------------------------------------
\* Mutant: the jury takes what the gate has not seen.
UnseenByDefault(tool, f) ==
    IF tool = "gate" THEN TRUE
    ELSE IF tool = "jury" THEN f.gate # "GATE_REFUTED"
    ELSE IF tool = "depth" THEN f.jury \in {"CONTESTED", "PARTIAL"} /\ f.gate # "GATE_REFUTED"
    ELSE f.score >= Promote /\ ~f.proven /\ f.gate # "GATE_REFUTED"

(* The targets of a call without indices.  jury_decision starts as the     *)
(* empty string and gate_verdict too, where the tools look for None: the   *)
(* jury takes none the gate has not seen, the depth tool takes none.       *)
ByDefault(tool, f) ==
    IF tool = "gate" THEN TRUE
    ELSE IF tool = "jury" THEN f.gate = "PASS"
    ELSE IF tool = "depth" THEN f.jury \in {"CONTESTED", "PARTIAL"} /\ f.gate # "GATE_REFUTED"
    ELSE f.score >= Promote /\ ~f.proven /\ f.gate # "GATE_REFUTED"

DefaultTargets(tool) ==
    {<<i, i>> : i \in {j \in 1..Len(findings) : ByDefault(tool, findings[j])}}

Resolve(index) == IF index >= 0 THEN index + 1 ELSE Len(findings) + index + 1

(* An index past the end is left out; a negative one counts from the end.  *)
AskedTargets(indices) ==
    {<<Resolve(indices[k]), k>> : k \in {j \in 1..Len(indices) : indices[j] < Len(findings)}}

(* The first statements of run_gate_filter, run_jury_debate,               *)
(* run_depth_analysis and write_tests.  An empty list of indices is no     *)
(* list; an index before the first finding makes the call fail.            *)
Begin(a) ==
    /\ call[a] = Idle
    /\ calls < MaxCalls
    /\ findings # <<>>
    /\ \E tool \in Tools, indices \in Asked :
         LET targets == IF indices = <<>> THEN DefaultTargets(tool) ELSE AskedTargets(indices)
         IN /\ targets # {}
            /\ \A t \in targets : t[1] >= 1
            /\ call' = [call EXCEPT ![a] = [tool |-> tool, todo |-> targets]]
            /\ named' = IF indices = <<>> THEN named ELSE named \cup {t[1] : t \in targets}
    /\ calls' = calls + 1
    /\ UNCHANGED findings

(* The coroutine of the target t ends with the finding f.                  *)
Judged(a, tool, t, f) ==
    /\ call[a].tool = tool
    /\ t \in call[a].todo
    /\ Change(t[1], f)
    /\ call' = [call EXCEPT ![a].todo = @ \ {t}]
    /\ UNCHANGED <<calls, named>>

(* _gate_one.                                                              *)
GatePoints(verdict) == IF verdict = "PASS" THEN 20 ELSE IF verdict = "GATE_REFUTED" THEN -30 ELSE -15

GateStage(verdict) ==
    IF verdict = "PASS" THEN "gate_pass"
    ELSE IF verdict = "GATE_REFUTED" THEN "gate_refuted"
    ELSE "gate_demoted"

\* Mutant: the gate changes the score and leaves no entry.
SilentlyGated(f, verdict) ==
    [f EXCEPT !.gate = verdict, !.score = @ + GatePoints(verdict)]

Gated(f, verdict) ==
    Contributed([f EXCEPT !.gate = verdict], GateStage(verdict), GatePoints(verdict))

Gate(a) ==
    \E t \in call[a].todo, verdict \in GateResults :
        Judged(a, "gate", t, Gated(findings[t[1]], verdict))

(* _debate.  The 300 seconds the tool waits are longer than the 120 of the *)
(* jurors and the 120 of the judge together.                               *)
JuryPoints(decision) ==
    IF decision = "CONFIRMED" THEN 25 ELSE IF decision = "REJECTED" THEN -20 ELSE 5

JuryStage(decision) ==
    IF decision = "CONFIRMED" THEN "jury_confirmed"
    ELSE IF decision = "REJECTED" THEN "jury_refuted"
    ELSE "jury_contested"

Debated(f, decision) ==
    Contributed([f EXCEPT !.jury = decision], JuryStage(decision), JuryPoints(decision))

JuryDebate(a) ==
    \E t \in call[a].todo, decision \in Debates :
        Judged(a, "jury", t, Debated(findings[t[1]], decision))

(* _depth: the confidence is compared and never set, so the ten points can *)
(* be had again.                                                           *)
Deepened(f, raised) ==
    LET g == [f EXCEPT !.passes = @ + 1]
    IN IF raised THEN Contributed(g, "depth_worker", 10) ELSE g

Depth(a) ==
    \E t \in call[a].todo, raised \in BOOLEAN :
        Judged(a, "depth", t, Deepened(findings[t[1]], raised))

(* _write_test, when the proof of concept passes.                          *)
Proven(f) == Contributed([f EXCEPT !.proven = TRUE], "poc_pass", 30)

Test(a) == \E t \in call[a].todo : Judged(a, "tests", t, Proven(findings[t[1]]))

(* A timeout or an exception of any of them, and a test that proves        *)
(* nothing: the finding keeps what it has.                                 *)
GiveUp(a) ==
    /\ call[a].tool = "gate" => ~FailsOpen
    /\ \E t \in call[a].todo :
          call' = [call EXCEPT ![a].todo = @ \ {t}]
    /\ UNCHANGED <<findings, calls, named>>

Answer(a) == Gate(a) \/ JuryDebate(a) \/ Depth(a) \/ Test(a) \/ GiveUp(a)

(* The gather over the targets returns.                                    *)
Finish(a) ==
    /\ call[a] # Idle
    /\ call[a].todo = {}
    /\ call' = [call EXCEPT ![a] = Idle]
    /\ UNCHANGED <<findings, calls, named>>

-----------------------------------------------------------------------------
(* rag_lookup over all findings; hits are those with a precedent.          *)
Swept(f) ==
    Contributed([f EXCEPT !.precedent = IF @ + 15 <= 100 THEN @ + 15 ELSE 100], "rag_match", 10)

Sweep(a) ==
    /\ call[a] = Idle
    /\ calls < MaxCalls
    /\ \E hits \in (SUBSET (1..Len(findings))) \ {{}} :
          findings' = [i \in 1..Len(findings) |->
                          IF i \in hits THEN Swept(findings[i]) ELSE findings[i]]
    /\ calls' = calls + 1
    /\ UNCHANGED <<call, named>>

(* run_chain_analysis: chains are recorded, severities stay.               *)
Chain(a) ==
    /\ call[a] = Idle
    /\ calls < MaxCalls
    /\ Len(findings) >= 2
    /\ findings' = [i \in 1..Len(findings) |-> Chained(findings, i)]
    /\ calls' = calls + 1
    /\ UNCHANGED <<call, named>>

UseTool(a) == Analyse(a) \/ Begin(a) \/ Answer(a) \/ Finish(a) \/ Sweep(a) \/ Chain(a)

(* The agent times out or is interrupted in a call: its coroutines are     *)
(* cancelled where they wait and change nothing any more.                  *)
Cancel(a) ==
    /\ call[a] # Idle
    /\ call' = [call EXCEPT ![a] = Idle]
    /\ UNCHANGED <<findings, calls, named>>

ToolInit ==
    /\ findings = <<>>
    /\ call = [a \in Agents |-> Idle]
    /\ calls = 0
    /\ named = {}

ToolNext == \E a \in Agents : UseTool(a) \/ Cancel(a)

ToolSpec == ToolInit /\ [][ToolNext]_toolVars

-----------------------------------------------------------------------------
(* A call in progress works on findings that exist, those other agents add *)
(* included: indices are resolved once, at its start.                      *)
TargetsExist ==
    \A a \in Agents : \A t \in call[a].todo : t[1] \in 1..Len(findings)

ToolTypeOK ==
    /\ findings \in Seq(Finding)
    /\ call \in [Agents -> [tool : Tools \cup {"none"}, todo : SUBSET (Nat \X Nat)]]
    /\ calls \in Nat
    /\ named \subseteq Nat
    /\ TargetsExist

(* A finding in a chain is not one that was refuted: the analyzer takes    *)
(* only enablers that stand, raises blocked ones to PARTIAL, and nothing   *)
(* an agent can call afterwards refutes one of them                        *)
(* (chain_analyzer.py:260, :375).                                          *)
ChainedStand == \A i \in 1..Len(findings) : findings[i].role # "" => findings[i].verdict # "REFUTED"

JuryStages == {"jury_confirmed", "jury_contested", "jury_refuted"}

(* Stages keep their order for findings nobody asked for by index: the     *)
(* jury debates such a finding only after the gate passed it, whatever     *)
(* other agents did in between (jury_tool.py:70).                          *)
DebatedWerePassed ==
    \A i \in (1..Len(findings)) \ named : \A k \in 1..Len(findings[i].log) :
        findings[i].log[k].stage \in JuryStages =>
            \E j \in 1..(k - 1) : findings[i].log[j].stage = "gate_pass"

(* What the findings say is what their logs say: a step adds at most one   *)
(* entry to a finding, and score, gate, jury and proof follow it           *)
(* (finding.py:132 and every tool that calls contribute_score).            *)
Ledger == INSTANCE EvidenceLedger WITH
    ledger <- [i \in 1..Len(findings) |-> findings[i].log],
    standing <- [i \in 1..Len(findings) |->
                    [score |-> findings[i].score, gate |-> findings[i].gate,
                     jury |-> findings[i].jury, proven |-> findings[i].proven]]

ImplementsLedger == Ledger!Spec
=============================================================================
