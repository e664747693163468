------------------------------ MODULE GraphModel ------------------------------
(***************************************************************************)
(* The knowledge graph of src/src/graph: the program Slither hands over,   *)
(* the nodes and edges nodes_edges.py makes of it, the order in which      *)
(* builder.py runs the passes, and the attributes the passes set.          *)
(*                                                                         *)
(* A program is data.  Its functions are numbered in node order; a body is *)
(* the sequence of what the IR of its CFG nodes does, in the order Slither *)
(* lists the nodes: both branches of a condition, a loop's body once.  An  *)
(* event with a field `joined` is of the CFG node of the event before it.  *)
(*   write    var := from            internal  call of `to` with `arg`     *)
(*   read     of var                 external  call of kind and target     *)
(*   assign   local := from [maths]  require   a check, by what it tests   *)
(* Where a pass searches the source text, the function's `says` is the set *)
(* of the things the search can find there.                                *)
(*                                                                         *)
(* The graph is a DiGraph: a pair of nodes has one edge, and adding a      *)
(* second one replaces the label of the first.  `rel` is that label for    *)
(* each pair of functions, "none" when there is no edge.                   *)
(***************************************************************************)
EXTENDS Integers, Sequences, FiniteSets, SequencesExt, FiniteSetsExt

VARIABLES
    prog,   \* the program: its fun, var, con and mod; never changes
    rel,    \* the label of the edge between two functions
    fn,     \* attributes of the function nodes
    sv,     \* attributes of the state variable nodes
    ct,     \* attributes of the contract nodes
    pass    \* the pass of build_graph that is next

vars == <<prog, rel, fn, sv, ct, pass>>

Fns  == DOMAIN prog.fun
Svs == DOMAIN prog.var
Contracts == DOMAIN prog.con
Mods == DOMAIN prog.mod

Src(f)    == prog.fun[f]
Body(f)   == Src(f).body
At(f, op) == {i \in DOMAIN Body(f) : Body(f)[i].op = op}
Says(f, h) == h \in Src(f).says
Joined(e) == "joined" \in DOMAIN e
Public(f) == Src(f).vis = "external"
\* What anybody may call once the contract is deployed.
Entry(f)  == Public(f) /\ ~Src(f).ctor

\* The require, assert and if-revert checks of a body, by what they test.
Checks(f, what) == {i \in At(f, "require") : Body(f)[i].what = what}

\* The edges to state variables.  A variable that is read and written keeps
\* the label of the last edge added, WRITES.
WriteEdges(f) == {Body(f)[i].var : i \in At(f, "write")}
ReadEdges(f)  == {Body(f)[i].var : i \in At(f, "read")} \ WriteEdges(f)

Internal(f) == {Body(f)[i].to : i \in At(f, "internal")}

\* Functions whose node exists while f is processed: the ones before it, f,
\* and the bare nodes that CALLS edges have made.
KnownAt(f) == UNION {{g} \cup Internal(g) : g \in 1..f}

\* A call whose target has no node yet leaves no edge.
CrossCalls(f) ==
    {Body(f)[i].to : i \in {j \in At(f, "external") : Body(f)[j].to # 0}}
        \cap KnownAt(f)

\* The calls that leave a CALLS edge: the label of a call of the same function
\* through its contract's interface replaces theirs.
CallEdges(f) == Internal(f) \ CrossCalls(f)

FirstLabel(f, g) ==
    IF g \in CrossCalls(f) THEN "CROSS_CONTRACT_CALL"
    ELSE IF g \in CallEdges(f) THEN "CALLS" ELSE "none"

Out(f, label) == {g \in Fns : rel[f][g] = label}
Callees(f)    == Out(f, "CALLS")

\* The elements of S in the order of `ahead`, a set of pairs: each at the
\* place after those that are ahead of it.
InOrder(S, ahead) ==
    [i \in 1..Cardinality(S) |->
        CHOOSE x \in S : Cardinality({y \in S : <<y, x>> \in ahead}) = i - 1]
Ascending(S) == InOrder(S, {p \in S \X S : p[1] < p[2]})

\* The sum of the weights of the elements of S.
Total(weights, S) == MapThenSumSet(LAMBDA k : weights[k], S)

\* What is reached from the functions of S by d steps of `next` at most.
Within(S, next) ==
    LET Layers[d \in Nat] ==
            IF d = 0 THEN S ELSE LET W == Layers[d - 1] IN W \cup UNION {next[g] : g \in W}
    IN Layers

\* External calls keep a node of their own for each call, unless the target
\* is resolved to a function that f has no edge to yet.
Externals(f) == At(f, "external")
FirstTo(f, i) == \A j \in Externals(f) : j < i => Body(f)[j].to # Body(f)[i].to

\* The attributes before any pass: what reading an absent one returns.
NewFn(f) ==
    [reachableCross |-> \E g \in Fns : f \in CrossCalls(g),
     direct |-> {}, propagated |-> {}, indirect |-> FALSE, depth |-> 0, entries |-> {},
     hasAC |-> FALSE, acMods |-> {}, inline |-> FALSE, protected |-> FALSE,
     conf |-> 0, acType |-> "none", guardCall |-> FALSE, roleGuard |-> FALSE,
     unprotected |-> FALSE, level |-> "NONE", escalate |-> FALSE,
     initGuard |-> FALSE, initMod |-> FALSE, safeInit |-> FALSE, reGuard |-> FALSE,
     design |-> FALSE, extEdges |-> {}, cei |-> FALSE, ceiReentrant |-> FALSE,
     reentrancy |-> FALSE, ceiOnly |-> FALSE, readOnly |-> FALSE,
     lengthMutation |-> FALSE, delegateRisk |-> FALSE,
     sources |-> {}, tainted |-> {}, taintedWrites |-> {}, taintMath |-> FALSE,
     unchecked |-> FALSE, taintRisks |-> {}, taintScore |-> 0, crossPaths |-> {},
     deps |-> {}, sequences |-> {}, seqScore |-> 0, temporal |-> FALSE,
     chains |-> {}, chainEntry |-> FALSE, longest |-> 0,
     oracle |-> FALSE, flash |-> 0, arith |-> 0, replay |-> FALSE,
     issues |-> {}, accounting |-> 0, violations |-> {},
     extTags |-> {}, extScore |-> 0, sensitiveStore |-> FALSE, strict |-> FALSE,
     safety |-> 0, structural |-> 0, exploitability |-> 0, impact |-> 0,
     final |-> 0, risk |-> 0, categories |-> {},
     target |-> 0, viable |-> FALSE, send |-> FALSE]

NewSv == [roles |-> {}, writers |-> {}, escalation |-> FALSE, risky |-> {},
          tags |-> {}, tainted |-> FALSE, taintedBy |-> {}, role |-> "UNKNOWN"]

NewCt == [roles |-> {}, tier |-> "INFRA", governance |-> FALSE, ssa |-> TRUE]

-----------------------------------------------------------------------------
(* build_graph runs one pass after the other, each over all nodes; the     *)
(* hotspot tool asks when they are through.                                *)
Passes ==
    <<"nodes", "storage_mutations", "propagate_writes", "reachability",
      "access_control", "external_calls", "oracle", "flash_loan", "arithmetic",
      "signature", "reentrancy", "read_only", "roles", "unprotected",
      "reverse_mapping", "escalation", "state_transitions", "delegatecall",
      "tiers", "modifier_equivalence", "initializer", "require_ac",
      "guard_calls", "role_registry", "ssa", "governance", "recompute",
      "sensitivity", "taint", "dependencies", "sequences", "chains",
      "accounting", "external_risk", "safety", "scores", "targets",
      "hotspots">>

Turn(p) == pass \in DOMAIN Passes /\ Passes[pass] = p /\ pass' = pass + 1
Done    == pass > Len(Passes)

\* A pass over the function nodes, given the attributes it leaves.
FnPass(p, new) == Turn(p) /\ fn' = new /\ UNCHANGED <<prog, rel, sv, ct>>
SvPass(p, new) == Turn(p) /\ sv' = new /\ UNCHANGED <<prog, rel, fn, ct>>
CtPass(p, new) == Turn(p) /\ ct' = new /\ UNCHANGED <<prog, rel, fn, sv>>

\* The first loop of build_graph: contracts, functions and their edges.
AddNodes ==
    /\ Turn("nodes")
    /\ rel' = [f \in Fns |-> [g \in Fns |-> FirstLabel(f, g)]]
    /\ fn' = [f \in Fns |-> NewFn(f)]
    /\ sv' = [v \in Svs |-> NewSv]
    /\ ct' = [c \in Contracts |-> NewCt]
    /\ UNCHANGED prog
=============================================================================
