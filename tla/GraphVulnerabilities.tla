------------------------- MODULE GraphVulnerabilities -------------------------
(***************************************************************************)
(* src/src/graph/vulnerability_detection.py: dependencies of functions     *)
(* through state, dangerous sequences, exploit chains, accounting rules    *)
(* and the patterns of a function's text.                                  *)
(***************************************************************************)
EXTENDS GraphTaint

StateReads(f)  == ReadEdges(f)
StateWrites(f) == WriteEdges(f) \cup fn[f].propagated

\* _build_state_dependency_graph: the writer's variables that the reader
\* reads or writes.  The edge takes the place of the one the pair has.
Shared(f, g) == StateWrites(f) \cap (StateReads(g) \cup StateWrites(g))
Depends(f, g) ==
    f # g /\ Src(f).contract = Src(g).contract /\ Shared(f, g) # {}
DepType(f, g) ==
    LET wr == StateWrites(f) \cap StateReads(g) # {}
        ww == StateWrites(f) \cap StateWrites(g) # {}
    IN IF wr /\ ww THEN "write_read_write" ELSE IF wr THEN "write_read" ELSE "write_write"

Dependencies ==
    /\ Turn("dependencies")
    /\ rel' = [f \in Fns |-> [g \in Fns |->
                 IF Depends(f, g) THEN "STATE_DEPENDENCY" ELSE rel[f][g]]]
    /\ fn' = [f \in Fns |-> [fn[f] EXCEPT !.deps = {g \in Fns : Depends(f, g)}]]
    /\ UNCHANGED <<prog, sv, ct>>

\* _detect_dangerous_sequences.
Dangers(f, g) ==
    LET tags == TagsOf(Shared(f, g))
        bare == ~fn[f].protected
        named ==
          {"ACCOUNTING_MANIPULATION" : t \in {x \in tags : x = "ACCOUNTING" /\
              (bare \/ (DepType(f, g) = "write_read" /\ ~fn[g].protected))}}
          \cup {"PRIVILEGE_CHAIN" : t \in tags \cap {"ACCESS"}}
          \cup {"REWARD_INFLATION" : t \in tags \cap {"REWARD"}}
          \cup {"CAP_BYPASS_SEQUENCE" : t \in tags \cap {"CAP"}}
          \cup (IF /\ DepType(f, g) # "write_read" /\ Entry(f) /\ Entry(g)
                   /\ ~(fn[f].protected /\ fn[g].protected)
                THEN {"INVARIANT_BREAK"} ELSE {})
    IN IF named = {} /\ bare /\ tags # {} THEN {"UNGUARDED_STATE_INFLUENCE"} ELSE named

DangerWeights ==
    [ACCOUNTING_MANIPULATION |-> 45, PRIVILEGE_CHAIN |-> 50, REWARD_INFLATION |-> 40,
     CAP_BYPASS_SEQUENCE |-> 40, INVARIANT_BREAK |-> 35, UNGUARDED_STATE_INFLUENCE |-> 20]

DangerScore(f, g) == Total(DangerWeights, Dangers(f, g))

SequencesFrom(f) ==
    {[reader |-> g, shared |-> Shared(f, g), tags |-> TagsOf(Shared(f, g)),
      dangers |-> Dangers(f, g), score |-> DangerScore(f, g)]
       : g \in {h \in Out(f, "STATE_DEPENDENCY") :
                  Reachable(f) /\ Reachable(h) /\ Dangers(f, h) # {}}}

\* The order of a function's edges, in which its sequences are and its chains
\* are extended.  A dependency that took the place of a call's edge has its
\* place, ahead of the others.  (The calls among themselves, a set of Slither,
\* are in node order here.)
CallTargets(f) == (Internal(f) \cup {Body(f)[i].to : i \in Externals(f)}) \ {0}
EdgeAhead(f, g, h) == IF g \in CallTargets(f) <=> h \in CallTargets(f) THEN g < h ELSE g \in CallTargets(f)
FirstEdge(f, S) == Min(IF S \cap CallTargets(f) # {} THEN S \cap CallTargets(f) ELSE S)

DangerousSequences ==
    FnPass("sequences",
           [f \in Fns |-> [fn[f] EXCEPT !.sequences = SequencesFrom(f),
                                        !.seqScore = Max({0} \cup {s.score : s \in SequencesFrom(f)})]])

-----------------------------------------------------------------------------
(* _generate_exploit_chains.                                               *)

\* The writer puts tainted data where the reader, open or a writer, looks.
Temporal(f, s) ==
    /\ HasTaintRisk(f)
    /\ fn[f].taintedWrites \cap s.shared # {}
    /\ fn[s.reader].direct # {} \/ ~fn[s.reader].protected

Interesting(g) ==
    HasTaintRisk(g) \/ fn[g].sensitiveStore \/ fn[g].impact >= 20 \/ fn[g].direct # {}

MaxDepth == 4

\* The sequence keeps what its chain adds to it.
Tempted(f, s) ==
    IF Reachable(f) /\ Temporal(f, s)
    THEN [s EXCEPT !.dangers = @ \cup {"TEMPORAL_TAINT_EXPLOIT"}, !.score = @ + 50]
    ELSE s

\* Where an attacker may go on from g.
Follows(g) ==
    {h \in Out(g, "STATE_DEPENDENCY") :
        Reachable(h) /\ Interesting(h) /\ TagsOf(Shared(g, h)) # {}}

\* Mutant: a step may return to a function of the chain.
ExtendRound(f, g) ==
    LET next == Follows(g)
        far  == {h \in next : Follows(h) # {}}
    IN IF next = {} THEN <<f, g>>
       ELSE IF far = {} THEN <<f, g, FirstEdge(g, next)>>
       ELSE LET h == FirstEdge(g, far) IN <<f, g, h, FirstEdge(h, Follows(h))>>

\* _extend_chain, from f and g: the first of the longest extensions, with two
\* more steps (MaxDepth) at most.
Extend(f, g) ==
    LET next    == Follows(g) \ {f, g}
        Then(h) == Follows(h) \ {f, g, h}
        far     == {h \in next : Then(h) # {}}
    IN IF next = {} THEN <<f, g>>
       ELSE IF far = {} THEN <<f, g, FirstEdge(g, next)>>
       ELSE LET h == FirstEdge(g, far) IN <<f, g, h, FirstEdge(h, Then(h))>>

\* _evaluate_chain_feasibility, in hundredths.
CanAttack(g) == (Reachable(g) \/ Entry(g)) /\ HasTaintRisk(g)
Mutated(g)   == fn[g].escalate \/ fn[g].sensitiveStore
Guarded(g)   == fn[g].protected \/ fn[g].strict
Barred(chain) ==
    {i \in DOMAIN chain : Guarded(chain[i]) /\ \A j \in 1..(i - 1) : ~Mutated(chain[j])}
\* Variables that the modifiers guarding a step compare.
Targets(g) ==
    {prog.mod[m].against : m \in {n \in Nodes : prog.mod[n].name \in fn[g].acMods}} \cap Svs
Untouched(chain) ==
    {i \in DOMAIN chain :
        /\ fn[chain[i]].conf >= 800 /\ Targets(chain[i]) # {}
        /\ \A j \in 1..(i - 1) : WriteEdges(chain[j]) \cap Targets(chain[i]) = {}}

Feasibility(chain) ==
    IF \/ \A i \in DOMAIN chain : ~CanAttack(chain[i])
       \/ /\ \E i \in Barred(chain) : fn[chain[i]].acType \in StrictTypes
          /\ \A i \in DOMAIN chain : ~Mutated(chain[i])
    THEN 0
    ELSE Max({0, 100 - 50 * Cardinality(Barred(chain))
                     - 20 * Cardinality({i \in 2..Len(chain) : Says(chain[i], "constant_require")})
                     - 30 * Cardinality(Untouched(chain))
                     - IF \E i \in DOMAIN chain : Says(chain[i], "block_time") THEN 15 ELSE 0})

\* The template that the pass can match: it asks for uses_tainted_math in the
\* others, and no pass sets that.
SetRole(chain) ==
    (\E i \in DOMAIN chain : Says(chain[i], "grant")) /\ \E i \in DOMAIN chain : fn[chain[i]].escalate

ChainOf(f, s) ==
    LET steps == Extend(f, s.reader)
    IN [steps |-> steps,
        score |-> Tempted(f, s).score
                    + (IF Len(steps) >= 3 THEN 15 ELSE 0) + (IF Len(steps) >= 4 THEN 10 ELSE 0)
                    + (IF SetRole(steps) THEN 25 ELSE 0),
        feasibility |-> Feasibility(steps)]

ChainsFrom(f) == IF Reachable(f) THEN {ChainOf(f, s) : s \in fn[f].sequences} ELSE {}
Kept == 5
\* The best five by score, and the first of those with the same.
Better(f, d, c) ==
    d.score > c.score \/ (d.score = c.score /\ EdgeAhead(f, d.steps[2], c.steps[2]))
Best(f, S) == {c \in S : Cardinality({d \in S : Better(f, d, c)}) < Kept}

ExploitChains ==
    FnPass("chains",
           [f \in Fns |->
              [fn[f] EXCEPT !.chains = Best(f, ChainsFrom(f)),
                            !.chainEntry = ChainsFrom(f) # {},
                            !.longest = Max({0} \cup {Len(c.steps) : c \in ChainsFrom(f)}),
                            !.sequences = {Tempted(f, s) : s \in @},
                            !.temporal = \/ \E s \in fn[f].sequences : Reachable(f) /\ Temporal(f, s)
                                         \/ \E g \in Fns : \E s \in fn[g].sequences :
                                               Reachable(g) /\ s.reader = f /\ Temporal(g, s)]])

-----------------------------------------------------------------------------
(* _run_accounting_invariant_heuristics.                                   *)
VarOrder == SetToSortSeq(Svs, LAMBDA a, b : prog.var[a].rank < prog.var[b].rank)
Writers(v) == {f \in Fns : v \in WriteEdges(f)}
Sender(f)  == InlineCheck(f) \/ Says(f, "sender") \/ \E i \in At(f, "assign") : Body(f)[i].from = "sender"

\* _infer_roles_from_usage_patterns: variables the name says nothing about,
\* in node order, each with the roles given so far.
Usage(roles, v) ==
    IF roles[v] # "UNKNOWN" THEN roles
    ELSE [roles EXCEPT ![v] =
            IF \E f \in Writers(v) : Says(f, "mint") \/ Says(f, "burn") THEN "SUPPLY"
            ELSE IF \E f \in Writers(v) : Sender(f) THEN "BALANCE"
            ELSE IF \E f \in Writers(v) : Says(f, "division") /\
                      \E w \in StateWrites(f) : roles[w] = "BALANCE" THEN "INDEX"
            ELSE "UNKNOWN"]
Roles == FoldLeft(Usage, [v \in Svs |-> prog.var[v].role], VarOrder)

\* The four detectors, as the flags of a function under the roles r.
Of(r, V, role) == \E v \in V : r[v] = role
SupplyFlags(r, f) ==
    LET w == StateWrites(f)
    IN IF ~(Entry(f) /\ Says(f, "mutator")) THEN {}
       ELSE IF Of(r, w, "SUPPLY") /\ ~Of(r, w, "BALANCE") THEN {"SUPPLY_BALANCE_MISMATCH"}
       ELSE IF /\ Of(r, w, "BALANCE") /\ ~Of(r, w, "SUPPLY")
               /\ Of(r, StateReads(f), "SUPPLY") \/ Of(r, StateReads(f), "BALANCE")
            THEN {"BALANCE_SUPPLY_MISMATCH"} ELSE {}

CapFlags(r, f) ==
    LET touched == StateReads(f) \cup StateWrites(f)
        supply  == Says(f, "mint_name") \/ Of(r, touched, "SUPPLY")
        borrow  == Says(f, "borrow_name") \/ (Of(r, touched, "BALANCE") /\ supply)
        caps    == {v \in Svs : prog.var[v].contract = Src(f).contract /\ r[v] = "CAP"}
        open    == caps # {} /\ Entry(f) /\ ~Says(f, "cap_check")
    IN IF open /\ supply THEN {"MISSING_CAP_ENFORCEMENT"}
       ELSE IF open /\ borrow THEN {"BORROW_CAP_BYPASS"} ELSE {}

RewardFlags(r, f) ==
    IF \A v \in StateWrites(f) : r[v] # "INDEX" /\ "REWARD" \notin sv[v].tags THEN {}
    ELSE (IF Says(f, "reset") THEN {"REWARD_INDEX_RESET"} ELSE {})
         \cup (IF Says(f, "increase") THEN {"REWARD_INDEX_INFLATION"} ELSE {})
         \cup (IF ~fn[f].protected /\ (Says(f, "increase") \/ Says(f, "decrease"))
               THEN {"REWARD_EDGECASE_MANIPULATION"} ELSE {})

MonotonicFlags(r, f) ==
    IF ~Of(r, StateWrites(f), "INDEX") THEN {}
    ELSE (IF Says(f, "decrease") THEN {"NON_MONOTONIC_INDEX"} ELSE {})
         \cup (IF Says(f, "reset") /\ ~fn[f].protected THEN {"UNGUARDED_INDEX_MUTATION"} ELSE {})

FlagWeights ==
    [SUPPLY_BALANCE_MISMATCH |-> 35, BALANCE_SUPPLY_MISMATCH |-> 30,
     MISSING_CAP_ENFORCEMENT |-> 50, BORROW_CAP_BYPASS |-> 40,
     REWARD_INDEX_RESET |-> 40, REWARD_INDEX_INFLATION |-> 35,
     REWARD_EDGECASE_MANIPULATION |-> 25, NON_MONOTONIC_INDEX |-> 50,
     UNGUARDED_INDEX_MUTATION |-> 50]
Flags(r, f) == SupplyFlags(r, f) \cup CapFlags(r, f) \cup RewardFlags(r, f) \cup MonotonicFlags(r, f)
FlagScore(r, f) ==
    Total(FlagWeights, Flags(r, f))
      + (IF ~fn[f].protected /\ SupplyFlags(r, f) # {} THEN 10 ELSE 0)
      + (IF ~fn[f].protected /\ CapFlags(r, f) # {} THEN 15 ELSE 0)

\* _detect_invariant_violations.
InContract(r, f, role) == {v \in Svs : prog.var[v].contract = Src(f).contract /\ r[v] = role}
SomeSays(f, h) == \E g \in Fns : Src(g).contract = Src(f).contract /\ Says(g, h)
Violations(r, f) ==
    LET supply  == InContract(r, f, "SUPPLY")
        balance == InContract(r, f, "BALANCE")
        index   == InContract(r, f, "INDEX")
        w       == StateWrites(f)
        pays    == w \cap balance # {} /\ Entry(f)
    IN IF Src(f).view THEN {}
       ELSE (IF supply # {} /\ pays /\ ~Of(r, w, "SUPPLY") THEN {"SUPPLY_BALANCE_DESYNC"} ELSE {})
            \cup (IF /\ Says(f, "mint") /\ ~SomeSays(f, "burn") /\ Entry(f) /\ ~fn[f].protected
                  THEN {"MINT_BURN_ASYMMETRY"} ELSE {})
            \cup (IF /\ \E a, b \in supply : prog.var[a].assets /\ ~prog.var[b].assets
                     /\ w \cap supply # {} /\ Entry(f) /\ Says(f, "donation") /\ ~Says(f, "loss")
                  THEN {"SHARE_PRICE_MANIPULATION"} ELSE {})
            \cup (IF index # {} /\ pays /\ StateReads(f) \cap index = {}
                  THEN {"INDEX_UPDATE_MISSING"} ELSE {})
Severity ==
    [SUPPLY_BALANCE_DESYNC |-> 40, MINT_BURN_ASYMMETRY |-> 25,
     SHARE_PRICE_MANIPULATION |-> 40, INDEX_UPDATE_MISSING |-> 40]

Accounting ==
    LET r == Roles
    IN /\ Turn("accounting")
       /\ sv' = [v \in Svs |-> [sv[v] EXCEPT !.role = r[v]]]
       /\ fn' = [f \in Fns |->
                   [fn[f] EXCEPT !.issues = Flags(r, f), !.violations = Violations(r, f),
                      !.accounting = Min({60, FlagScore(r, f)})
                                       + Min({80, Total(Severity, Violations(r, f))})]]
       /\ UNCHANGED <<prog, rel, ct>>

-----------------------------------------------------------------------------
(* Patterns of the text.  The three passes add to risk_score and to        *)
(* risk_categories.                                                        *)
Raise(a, points, cats) == [a EXCEPT !.risk = @ + points, !.categories = @ \cup cats]

SpotRisk(f) == Says(f, "spot") /\ Entry(f) /\ ~Says(f, "safe_oracle")

OraclePatterns ==
    FnPass("oracle",
           [f \in Fns |-> IF SpotRisk(f)
                          THEN Raise([fn[f] EXCEPT !.oracle = TRUE], 120, {"oracle_manipulation"})
                          ELSE fn[f]])

\* _detect_flash_loan_attack_surface: two of four factors at least.  The
\* taint it asks for is computed later.
FlashFactors(f) ==
    (IF Says(f, "spot") /\ ~Says(f, "safe_oracle") THEN {"spot"} ELSE {})
      \cup (IF Says(f, "division") /\ HasTaintRisk(f) THEN {"division"} ELSE {})
      \cup (IF Says(f, "collateral") THEN {"collateral"} ELSE {})
      \cup (IF Says(f, "price") /\ MakesCall(f) THEN {"price"} ELSE {})
FlashWeights == [spot |-> 40, division |-> 30, collateral |-> 20, price |-> 20]
FlashScore(f) ==
    IF Cardinality(FlashFactors(f)) < 2 THEN 0
    ELSE Total(FlashWeights, FlashFactors(f))

FlashLoan == FnPass("flash_loan", [f \in Fns |-> [fn[f] EXCEPT !.flash = FlashScore(f)]])

ArithmeticRisks(f) ==
    (IF Says(f, "unchecked_block") /\ fn[f].direct # {} THEN {"unchecked"} ELSE {})
      \cup (IF Says(f, "divide_first") THEN {"division"} ELSE {})
      \cup (IF Says(f, "unsafe_cast") THEN {"cast"} ELSE {})
ArithmeticWeights == [unchecked |-> 50, division |-> 40, cast |-> 35]

ArithmeticPatterns ==
    FnPass("arithmetic",
           [f \in Fns |->
              LET s == Total(ArithmeticWeights, ArithmeticRisks(f))
              IN Raise([fn[f] EXCEPT !.arith = s], s, {"arithmetic" : k \in ArithmeticRisks(f)})])

MarksUsed(f) == \E v \in fn[f].direct : prog.var[v].marks
Replayable(f) == Says(f, "signature") /\ ~(Says(f, "chainid") /\ Says(f, "nonce") /\ MarksUsed(f))

SignaturePatterns ==
    FnPass("signature",
           [f \in Fns |-> IF Replayable(f)
                          THEN Raise([fn[f] EXCEPT !.replay = TRUE], 100, {"signature_replay"})
                          ELSE fn[f]])
=============================================================================
