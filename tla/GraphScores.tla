------------------------------ MODULE GraphScores ------------------------------
(***************************************************************************)
(* src/src/graph/scoring.py and src/src/economic_analyzer.py: the scores   *)
(* that decide which functions the workers look at, and whether a function *)
(* is handed to the exploit writer.                                        *)
(***************************************************************************)
EXTENDS GraphVulnerabilities

\* Python's round: to the nearest, ties to the even number.
Rounded(n, d) ==
    LET q == n \div d
        r == 2 * (n % d)
    IN IF r < d \/ (r = d /\ q % 2 = 0) THEN q ELSE q + 1

Tainted(f) == fn[f].sources # {} \/ HasTaintRisk(f)

\* _classify_external_call: a target expression has no bracket, so that a
\* low-level call counts as untrusted like any other.
CallClass(f, e) ==
    LET g == e[3].to
    IN IF \/ e[3].about = "this"
          \/ g # 0 /\ rel[f][g] = "EXTERNAL_CALL" /\ Src(g).contract = Src(f).contract
       THEN "SELF_CALL"
       ELSE IF e[3].kind = "delegatecall" THEN "DELEGATECALL"
       ELSE IF e[3].kind = "transfer" \/ e[3].about = "token" THEN "TOKEN_TRANSFER"
       ELSE IF e[3].about = "oracle" THEN "ORACLE" ELSE "UNTRUSTED_CONTRACT"
RiskyCall(f, e) == CallClass(f, e) \in {"DELEGATECALL", "UNTRUSTED_CONTRACT"} \/ Tainted(f)
UncheckedCall(f, e) == e[1] = 1 /\ ~ReturnChecked(f, e[2])

ExternalTags(f) ==
    LET risky == {e \in ExtEdges(f) : RiskyCall(f, e)}
    IN (IF fn[f].reentrancy THEN {"REENTRANCY_RISK"} ELSE {})
       \cup (IF fn[f].unchecked \/ \E e \in risky : UncheckedCall(f, e) THEN {"UNCHECKED_RETURN"} ELSE {})
       \cup (IF risky # {} THEN {"EXTERNAL_DEPENDENCY_RISK"} ELSE {})
ExternalScore(f) ==
    LET bad == "EXTERNAL_DEPENDENCY_RISK" \in ExternalTags(f)
    IN (IF "REENTRANCY_RISK" \notin ExternalTags(f) THEN 0 ELSE IF bad THEN 45 ELSE 10)
       + (IF "UNCHECKED_RETURN" \notin ExternalTags(f) THEN 0 ELSE IF bad THEN 25 ELSE 5)
       + (IF bad THEN 30 ELSE 0)

ExternalCallRisks ==
    FnPass("external_risk",
           [f \in Fns |-> [fn[f] EXCEPT !.extTags = ExternalTags(f), !.extScore = ExternalScore(f)]])

\* _compute_negative_safety_signals.
SensitiveStore(f) ==
    \/ \E v \in fn[f].propagated : sv[v].tags # {}
    \/ \E v \in fn[f].taintedWrites : sv[v].tags # {}
Untainted(f) == ~HasTaintRisk(f) /\ fn[f].sources = {} /\ fn[f].crossPaths = {}
SafetySigns(f) ==
    (IF fn[f].acType \in StrictTypes THEN {"role"} ELSE {})
      \cup (IF ~MakesCall(f) THEN {"no_call"} ELSE {})
      \cup (IF ~Mutates(f) THEN {"no_mutation"} ELSE {})
      \cup (IF Untainted(f) THEN {"no_taint"} ELSE {})
      \cup (IF ~SensitiveStore(f) THEN {"no_critical"} ELSE {})
SafetyWeights == [role |-> 12, no_call |-> 12, no_mutation |-> 14, no_taint |-> 14, no_critical |-> 18]
Safety(f) ==
    Total(SafetyWeights, SafetySigns(f)) + IF Cardinality(SafetySigns(f)) = 5 THEN 30 ELSE 0

NegativeSafety ==
    FnPass("safety",
           [f \in Fns |-> [fn[f] EXCEPT !.sensitiveStore = SensitiveStore(f),
                                        !.strict = fn[f].acType \in StrictTypes,
                                        !.safety = Safety(f)]])

-----------------------------------------------------------------------------
(* _compute_global_risk_scores.                                            *)
If(c, n) == IF c THEN n ELSE 0
\* int(n * (1 - confidence))
Weighed(n, f) == (n * (1000 - fn[f].conf)) \div 1000

StructuralOf(f) ==
    LET a == fn[f]
        strict == a.acType \in StrictTypes
    IN If(a.reentrancy, IF a.reGuard THEN 10 ELSE 50)
       + If(a.escalate, IF a.safeInit \/ strict THEN 10 ELSE 50)
       + If(a.unprotected, IF a.acType \in {"require-based", "both"} \/ a.conf >= 800
                           THEN 10 ELSE Weighed(40, f))
       + If(a.ceiOnly \/ (a.cei /\ ~a.reentrancy), 15)
       + If(a.lengthMutation, 40) + If(a.delegateRisk, 50)
       + Min({a.taintScore, 60}) + Min({a.seqScore, 50}) + Min({a.accounting, 100})
       + Min({a.extScore, 45}) + If(a.readOnly, 35) + Min({a.flash, 70})
Structural(f) == Max({0, StructuralOf(f) - If(fn[f].design, 30)})

Exploitability(f) ==
    If(Reachable(f), 30) + If(HasReentrantEdge(f), 30) + If(Entry(f), 10)
      + (IF ~fn[f].protected /\ ~Src(f).view THEN Weighed(15, f)
         ELSE If(fn[f].acType = "require-based" \/ fn[f].conf >= 800, 5))
      + If(fn[f].chainEntry /\ fn[f].longest >= 3, 15)
      + If(AttackerInput(f), 15)

\* The first sequence with one of the two dangers decides.
SequenceBoost(f) ==
    LET either == {s \in fn[f].sequences :
                      s.dangers \cap {"PRIVILEGE_CHAIN", "ACCOUNTING_MANIPULATION"} # {}}
        first  == FirstEdge(f, {s.reader : s \in either})
    IN IF either = {} THEN 0
       ELSE IF \E s \in either : s.reader = first /\ "PRIVILEGE_CHAIN" \in s.dangers THEN 20 ELSE 15

Impact(f) ==
    LET tags == IF HasTaintRisk(f) THEN TagsOf(fn[f].taintedWrites) ELSE {}
        tier == ct[Src(f).contract].tier
    IN Max({0, Min({30, 5 * Cardinality(fn[f].propagated)}) + If(Src(f).payable, 20)
               + If(fn[f].escalate, 30)
               + If(fn[f].unprotected, Weighed(IF fn[f].level = "HIGH" THEN 20 ELSE 10, f))
               + SequenceBoost(f)
               + If("ACCOUNTING" \in tags, 25) + If("CAP" \in tags, 20) + If("ACCESS" \in tags, 30)
               + If(tier = "CORE", 20) - If(tier = "FACTORY", 25)})

Evidence(f) ==
    \/ Tainted(f) \/ fn[f].crossPaths # {} \/ fn[f].taintedWrites # {}
    \/ Mutates(f) \/ fn[f].sensitiveStore

\* A shape without evidence is capped at 55 before the safety score is taken.
Base(f) ==
    LET sum == 40 * Structural(f) + 35 * Exploitability(f) + 25 * Impact(f)
    IN Rounded(IF Evidence(f) THEN sum ELSE Min({sum, 5500}), 100)

\* Mutant: the safety score is added.
FinalAdded(f) == Base(f) + fn[f].safety

Final(f) == Max({0, Base(f) - fn[f].safety})

RiskCategories(f) ==
    LET a == fn[f]
        strict == a.acType \in StrictTypes
        Named(c, name) == IF c THEN {name} ELSE {}
    IN Named(a.reentrancy, IF a.reGuard THEN "reentrancy_guarded" ELSE "reentrancy")
       \cup Named(a.escalate, IF a.safeInit \/ strict THEN "escalation_guarded" ELSE "escalation")
       \cup Named(a.unprotected, IF a.acType \in {"require-based", "both"} \/ a.conf >= 800
                                 THEN "mutator_guarded" ELSE "mutator")
       \cup Named(a.ceiOnly \/ (a.cei /\ ~a.reentrancy), "cei_violation")
       \cup Named(a.lengthMutation, "length_mutation") \cup Named(a.delegateRisk, "delegatecall")
       \cup Named(a.readOnly, "read_only_reentrancy") \cup Named(a.flash > 0, "flash_loan")
       \cup Named(a.violations # {}, "invariant_violation") \cup Named(a.design, "governance")
       \cup a.taintRisks \cup a.issues \cup a.extTags
       \cup UNION {s.dangers : s \in a.sequences}

\* The score replaces what the pattern passes have added up.
RiskScores ==
    FnPass("scores",
           [f \in Fns |->
              [fn[f] EXCEPT !.structural = Structural(f), !.exploitability = Exploitability(f),
                            !.impact = Impact(f), !.final = Final(f), !.risk = Final(f),
                            !.categories = RiskCategories(f)]])

-----------------------------------------------------------------------------
(* _compute_exploit_target_scores.                                         *)
Threshold == 75

\* EconomicAnalyzer.evaluate_chain_economic_impact, in tenths.
Distortion(f) ==
    IF ~(Tainted(f) \/ fn[f].crossPaths # {} \/ fn[f].taintedWrites # {}) THEN 0
    ELSE If(Says(f, "division") /\ Says(f, "multiplication"), 2)
         + If(Says(f, "reward_index") /\ Says(f, "division"), 1)
         + If(/\ Says(f, "total_supply") \/ Says(f, "proportional")
              /\ "MISSING_CAP_ENFORCEMENT" \in fn[f].issues \/ ~fn[f].protected, 5)
EconomicImpact(chain) ==
    Min({15, 10 + Total([i \in DOMAIN chain |-> Distortion(chain[i])], DOMAIN chain)})

SensitiveAction(f) ==
    \/ Mutates(f) \/ fn[f].escalate \/ fn[f].unprotected \/ fn[f].sequences # {}
    \/ SensitiveStore(f)

\* The states <<function, sensitive action seen>> a search from e visits.
Walk(e) ==
    LET Seen[d \in Nat] ==
            IF d = 0 THEN {<<e, SensitiveAction(e)>>}
            ELSE LET S == Seen[d - 1]
                 IN S \cup UNION {{<<g, s[2] \/ SensitiveAction(g)>> : g \in Callees(s[1])} : s \in S}
    IN Seen[2 * Len(prog.fun)]

\* _has_viable_attacker_path, over the CALLS edges that are left.
ViablePath(f) ==
    \E e \in (IF fn[f].entries = {} /\ Entry(f) THEN {f} ELSE fn[f].entries) :
        <<f, TRUE>> \in Walk(e)

RawTarget(f) ==
    LET a == fn[f]
        taint == Tainted(f) \/ a.crossPaths # {} \/ a.taintedWrites # {}
        sensitive == a.sensitiveStore \/ TagsOf(a.taintedWrites) # {}
    IN 10 * Min({3, Cardinality(a.sources) \div 2 + Cardinality(a.crossPaths)})
       + Min({25, 8 * Cardinality(TagsOf(a.taintedWrites))})
       + If(MakesCall(f), 10) + Min({20, a.extScore \div 2})
       + (IF a.unprotected THEN 15 ELSE If(~a.protected /\ ~Src(f).view, 10))
       + If(a.longest >= 2, 10 * a.longest)
       + If(taint, 20) + If(sensitive, 20)
       + If("MISSING_CAP_ENFORCEMENT" \in a.issues, 15) + If(a.escalate, 20)
       - If(a.protected, 20) - If(Src(f).view, 50) - If(~Entry(f), 30) - If(~taint, 20)

Valid(f) == {c \in fn[f].chains : c.feasibility > 0}
Impossible(f) == fn[f].chainEntry /\ fn[f].chains # {} /\ Valid(f) = {}

TargetScore(f) ==
    LET blend == Rounded(7 * RawTarget(f) + 3 * Min({100, fn[f].final}), 10)
        best  == Max({c.feasibility : c \in Valid(f)})
        econ  == Max({EconomicImpact(c.steps) : c \in Valid(f)})
        score == IF Impossible(f) THEN 0
                 ELSE IF Valid(f) = {} THEN blend
                 ELSE Rounded(blend * (4000 + 60 * best) * econ, 100000)
    IN Max({0, Min({100, IF Evidence(f) THEN score ELSE Min({score, Threshold - 1})})})

Viable(f) == ~Impossible(f) /\ ViablePath(f)

ExploitTargets ==
    FnPass("targets",
           [f \in Fns |->
              [fn[f] EXCEPT !.target = TargetScore(f), !.viable = Viable(f),
                            !.send = TargetScore(f) >= Threshold /\ Viable(f)]])
=============================================================================
