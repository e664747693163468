----------------------------- MODULE GraphQueries -----------------------------
(***************************************************************************)
(* src/src/utils/graph_queries.py and agent/tools/hotspot_tool.py: what    *)
(* the workers ask of the finished graph, and the list of hotspots.        *)
(*                                                                         *)
(* Every query is a filter over the nodes of one type, for one contract or *)
(* for all of them (AnyContract).  The thresholds of a hotspot are         *)
(* environment variables; the arguments of the same name are not used.     *)
(***************************************************************************)
EXTENDS GraphScores

CONSTANTS
    MinScore,        \* HOTSPOT_MIN_SCORE
    MinStructural,   \* HOTSPOT_MIN_STRUCTURAL
    MinExploit,      \* HOTSPOT_MIN_EXPLOIT
    Budget           \* HOTSPOT_BUDGET

ASSUME ThresholdAssumption ==
    /\ MinScore \in Nat /\ MinStructural \in Nat /\ MinExploit \in Nat
    /\ Budget \in Nat \ {0}

VARIABLE hotspots   \* the list the hotspot tool last gave

AnyContract == "any contract"
In(c)    == {f \in Fns : c = AnyContract \/ Src(f).contract = c}
VarsOf(c) == {v \in Svs : c = AnyContract \/ prog.var[v].contract = c}

EntryPoints(c)       == {f \in In(c) : Entry(f)}
StateMutators(c)     == {f \in In(c) : fn[f].direct # {}}
ExternalCallers(c)   == {f \in In(c) : MakesCall(f)}
Unprotected(c)       == {f \in In(c) : fn[f].unprotected}
ReentrancyAt(c)      == {f \in In(c) : fn[f].reentrancy}
CeiOnly(c)           == {f \in In(c) : fn[f].ceiOnly}
LengthMutations(c)   == {f \in In(c) : fn[f].lengthMutation}
DelegateRisks(c)     == {f \in In(c) : fn[f].delegateRisk}
Initializers(c)      == {f \in In(c) : fn[f].initGuard}
AccessTyped(c)       == {f \in In(c) : fn[f].acType # "none"}
SafeFunctions(c)     == {f \in In(c) : fn[f].safeInit \/ fn[f].reGuard \/ fn[f].acType \in StrictTypes}
TaintRisks(c)        == {f \in In(c) : HasTaintRisk(f)}
SensitiveVars(c)     == {v \in VarsOf(c) : sv[v].tags # {}}
TaintedVars(c)       == {v \in VarsOf(c) : sv[v].tainted}
Dependent(c)         == {e \in In(c) \X Fns : rel[e[1]][e[2]] = "STATE_DEPENDENCY"}
Sequenced(c)         == {f \in In(c) : fn[f].sequences # {}}
ChainsAt(c, least)   == UNION {{x \in fn[f].chains : Len(x.steps) >= least} : f \in In(c)}
CallRisks(c, tag)    == {f \in In(c) : tag \in fn[f].extTags}
ExploitTargetsAt(c)  == {f \in In(c) : fn[f].send}
Escalating(c)        == {f \in In(c) : fn[f].escalate}
EscalatedVars(c)     == {v \in VarsOf(c) : sv[v].escalation}
RisksOfType(c, type) == {f \in TaintRisks(c) : type \in fn[f].taintRisks}
AccountingRisks(c)   == {f \in In(c) : fn[f].issues # {}}
TiersAt(tier)        == {k \in Contracts : ct[k].tier = tier}

\* Around a function, and within a contract: calls that kept their label.
FunctionContext(f) == [callers |-> {g \in Fns : f \in Callees(g)}, callees |-> Callees(f)]
CallGraph(c)       == {e \in In(c) \X In(c) : e[2] \in Callees(e[1])}

\* A call that lost its edge to another label is not among the answers.
ExternalCallEdges(f) == ExtEdges(f)

\* The nodes of state transitions: every write of a function of c.
Transitions(c) == UNION {{f} \X At(f, "write") : f \in In(c)}

\* With a contract there is one modifier of a name at most; without one the
\* answer is about the first of these.
ModifiersOf(c) == {m \in Nodes : c = AnyContract \/ prog.mod[m].contract = c}
ModifierDetails(c, name) ==
    {[of |-> m, pattern |-> Pattern(m), compares |-> {prog.mod[m].against} \cap Svs]
       : m \in {n \in ModifiersOf(c) : prog.mod[n].name = name}}
ModifierEquivalences(c) == [m \in ModifiersOf(c) |-> Category(m)]

AccessControlSummary(c) ==
    [f \in In(c) |->
        [mods |-> Src(f).mods, guards |-> fn[f].acMods, inline |-> fn[f].inline,
         protected |-> fn[f].protected, writes |-> fn[f].direct # {}, entry |-> Entry(f)]]

\* get_high_risk_hotspots: con.test is what the names and paths of test
\* contracts and of dependencies match.
Hot(f, needsTarget) ==
    /\ fn[f].final >= MinScore
    /\ needsTarget => fn[f].send
    /\ fn[f].structural >= MinStructural /\ fn[f].exploitability >= MinExploit
    /\ ~Src(f).view /\ ~Src(f).ctor
    /\ ~fn[f].initGuard /\ ~fn[f].safeInit
    /\ ~prog.con[Src(f).contract].test
    /\ ct[Src(f).contract].tier # "LIBRARY"

\* Highest risk first, in node order where it is the same.
Riskier(f, g) == fn[f].final > fn[g].final \/ (fn[f].final = fn[g].final /\ f < g)
ByRisk(S)     == InOrder(S, {p \in S \X S : Riskier(p[1], p[2])})

Capped(q) == SubSeq(q, 1, Min({Budget, Len(q)}))

\* Mutant: the budget is spent in node order, the list sorted afterwards.
HotspotsUnsorted(needsTarget) ==
    ByRisk(ToSet(Capped(Ascending({f \in Fns : Hot(f, needsTarget)}))))

Hotspots(needsTarget) == Capped(ByRisk({f \in Fns : Hot(f, needsTarget)}))

\* The tool asks again, for any function, when a small graph has no target.
AskHotspots ==
    /\ Turn("hotspots")
    /\ \E small \in BOOLEAN :
          hotspots' = IF Hotspots(TRUE) = <<>> /\ small THEN Hotspots(FALSE) ELSE Hotspots(TRUE)
    /\ UNCHANGED <<prog, rel, fn, sv, ct>>
=============================================================================
