------------------------------ MODULE GraphTaint ------------------------------
(***************************************************************************)
(* src/src/graph/state_transitions.py: state transitions, delegatecall and *)
(* contract tiers, and the propagation of taint.                           *)
(*                                                                         *)
(* A value of a function is its parameter, the result of an external call, *)
(* a local, msg.sender or a constant: "param", "ret", "local", "sender",   *)
(* "const".                                                                *)
(***************************************************************************)
EXTENDS GraphCalls

\* _build_state_transitions: one for each write, with who controls it.
AttackerInput(f) ==
    Public(f) /\ \E i \in At(f, "write") : Body(f)[i].from = "param"

\* _detect_array_length_mutations.
PopsArray(f) ==
    \E i \in At(f, "write") : Body(f)[i].how = "pop" /\ prog.var[Body(f)[i].var].array

StateTransitions ==
    FnPass("state_transitions", [f \in Fns |-> [fn[f] EXCEPT !.lengthMutation = PopsArray(f)]])

\* A delegatecall whose target is no state variable of the contract.
Delegates(f) == {e \in ExtEdges(f) : e[3].kind = "delegatecall"}
DelegateRisk(f) ==
    /\ Delegates(f) # {}
    /\ \/ \E e \in Delegates(f) : e[3].about = "arg"
       \/ fn[f].cei /\ Mutates(f)
       \/ prog.con[Src(f).contract].upgradeable

DelegatecallRisk ==
    FnPass("delegatecall", [f \in Fns |-> [fn[f] EXCEPT !.delegateRisk = DelegateRisk(f)]])

Tier(c) ==
    LET own == {f \in Fns : Src(f).contract = c}
    IN IF prog.con[c].creates THEN "FACTORY"
       ELSE IF prog.con[c].lib \/ \A f \in own : ~Entry(f) THEN "LIBRARY"
       ELSE IF \E f \in own : MakesCall(f) THEN "CORE" ELSE "INFRA"

ContractTiers == CtPass("tiers", [c \in Contracts |-> [ct[c] EXCEPT !.tier = Tier(c)]])

Sensitivity == SvPass("sensitivity", [v \in Svs |-> [sv[v] EXCEPT !.tags = prog.var[v].tags]])

-----------------------------------------------------------------------------
(* Taint within one function.                                              *)
Seed(f) == IF Public(f) THEN {"param"} ELSE {}

Carries(e, t) == e.from = "sender" \/ e.from \in t

\* _analyze_function_taint walks the CFG nodes in order; an external call
\* taints its result, an assignment from a tainted value its local.
Step(t, e) ==
    CASE e.op = "external" -> IF e.kind \in {"transfer", "send"} THEN t ELSE t \cup {"ret"}
      [] e.op = "assign"   -> IF Carries(e, t) THEN t \cup {"local"} ELSE t
      [] e.op \notin {"external", "assign"} -> t
LocalUpTo(f, i) ==
    LET Walked[k \in 0..i] == IF k = 0 THEN Seed(f) ELSE Step(Walked[k - 1], Body(f)[k])
    IN Walked[i]
LocalTaint(f)   == LocalUpTo(f, Len(Body(f)))

LocalWrites(f) ==
    {Body(f)[i].var : i \in {j \in At(f, "write") : Carries(Body(f)[j], LocalUpTo(f, j))}}

LocalMaths(f) ==
    \E i \in At(f, "assign") : Body(f)[i].math /\ Carries(Body(f)[i], LocalUpTo(f, i - 1))

\* An external result that no later check tests.
Unchecked(f) ==
    \E i \in Externals(f) : /\ Body(f)[i].kind \notin {"transfer", "send"}
                            /\ \A j \in Checks(f, "ret") : j < i

LocalSources(f) ==
    Seed(f) \cup {"ext_return" : i \in {j \in Externals(f) : Body(f)[j].kind \notin {"transfer", "send"}}}
            \cup {"msg.sender" : i \in {j \in At(f, "assign") : Body(f)[j].from = "sender"}}

-----------------------------------------------------------------------------
(* Taint between functions, along CALLS edges.  T gives each function its  *)
(* tainted values, its tainted writes and the paths taint came by.         *)
MaxIterations == 4

LocalResult(f) ==
    [tainted |-> LocalTaint(f), writes |-> LocalWrites(f), paths |-> {<<f>>}, cross |-> FALSE]

\* _inject_caller_taint: a tainted argument taints the callee's parameter,
\* once; the callee's writes that use the parameter itself become tainted.
\* What the callee computed from its parameter before does not.
Injects(T, f, g) ==
    /\ \E i \in At(f, "internal") : Body(f)[i].to = g /\ Body(f)[i].arg \in T[f].tainted
    /\ "param" \notin T[g].tainted

Injected(T, f, g) ==
    [T EXCEPT ![g] =
        [tainted |-> @.tainted \cup {"param"},
         writes  |-> @.writes \cup {Body(g)[i].var : i \in {j \in At(g, "write") :
                         Body(g)[j].from \in T[g].tainted \cup {"param"}}},
         paths   |-> @.paths \cup {Append(p, g) : p \in T[f].paths},
         cross   |-> TRUE]]

Passed(T, f, g) == IF Injects(T, f, g) THEN Injected(T, f, g) ELSE T
FromCaller(T, f) ==
    LET callees == Ascending(Callees(f))
        Given[k \in 0..Len(callees)] == IF k = 0 THEN T ELSE Passed(Given[k - 1], f, callees[k])
    IN Given[Len(callees)]

\* One iteration visits the functions in node order.
Round(T) ==
    LET nodes == Ascending(Fns)
        Seen[k \in 0..Len(nodes)] == IF k = 0 THEN T ELSE FromCaller(Seen[k - 1], nodes[k])
    IN Seen[Len(nodes)]

Locals == [f \in Fns |-> LocalResult(f)]

\* Mutant: one iteration less.
RoundsShort ==
    LET After[k \in 0..(MaxIterations - 1)] == IF k = 0 THEN Locals ELSE Round(After[k - 1])
    IN After[MaxIterations - 1]

Rounds ==
    LET After[k \in 0..MaxIterations] == IF k = 0 THEN Locals ELSE Round(After[k - 1])
    IN After[MaxIterations]

\* _apply_taint_vulnerability_heuristics: paths of more than one function
\* count for the function they start at as well.
TagsOf(V) == UNION {sv[v].tags : v \in V}
PathsFrom(T, f) ==
    UNION {{<<p, g>> : p \in {q \in T[g].paths : Len(q) > 1 /\ Head(q) = f}}
             : g \in {h \in Fns : T[h].writes # {}}}

RiskOf(T, f) ==
    LET tags == TagsOf(T[f].writes) \cup UNION {TagsOf(T[x[2]].writes) : x \in PathsFrom(T, f)}
    IN tags \cup {"CRITICAL_PATH" : t \in tags} \cup {"CRITICAL_PATH" : x \in PathsFrom(T, f)}
            \cup (IF LocalMaths(f) THEN {"MATH"} ELSE {})
            \cup (IF Unchecked(f) THEN {"UNCHECKED"} ELSE {})

TaintWeights ==
    [ACCOUNTING |-> 45, CAP |-> 40, REWARD |-> 35, ACCESS |-> 50, LIQUIDITY |-> 35,
     MATH |-> 50, UNCHECKED |-> 25]
TaintScore(R) ==
    Total(TaintWeights, R \cap DOMAIN TaintWeights)
      + IF "MATH" \in R /\ R \cap {"ACCOUNTING", "REWARD"} # {} THEN 30 ELSE 0

Taint ==
    LET T == Rounds
    IN /\ Turn("taint")
       /\ fn' = [f \in Fns |->
                   [fn[f] EXCEPT
                      !.sources = LocalSources(f) \cup (IF T[f].cross THEN {"cross"} ELSE {}),
                      !.tainted = T[f].tainted,
                      !.taintedWrites = T[f].writes,
                      !.taintMath = LocalMaths(f),
                      !.unchecked = Unchecked(f),
                      !.taintRisks = RiskOf(T, f),
                      !.taintScore = TaintScore(RiskOf(T, f)),
                      !.crossPaths = {x[1] : x \in PathsFrom(T, f)}]]
       /\ sv' = [v \in Svs |->
                   [sv[v] EXCEPT !.tainted = \E f \in Fns : v \in T[f].writes,
                                 !.taintedBy = {f \in Fns : v \in T[f].writes}]]
       /\ UNCHANGED <<prog, rel, ct>>

HasTaintRisk(f) == fn[f].taintRisks # {}
=============================================================================
