------------------------------ MODULE GraphPasses ------------------------------
(***************************************************************************)
(* build_graph of src/src/graph/builder.py: the passes of GraphModel to    *)
(* GraphScores, one after the other, over every program of a set; and what *)
(* the graph must say of the program when they are through.                *)
(***************************************************************************)
EXTENDS GraphQueries

CONSTANT Programs

\* A list of events that begins a CFG node, whose internal calls are of
\* functions that p has, whose writes are of variables that have a node, and
\* whose external calls are of no known function, or of one of p that its
\* contract lets others call.
IsList(q) == q \in Seq(ToSet(q))
WellPlaced(p, events) ==
    /\ IsList(events)
    /\ 1 \in DOMAIN events => ~Joined(events[1])
    /\ \A i \in DOMAIN events :
          /\ events[i].op = "internal" => events[i].to \in DOMAIN p.fun
          /\ events[i].op = "write" => events[i].var \in DOMAIN p.var
          /\ events[i].op = "external" => events[i].to \in {0} \cup DOMAIN p.fun
          /\ events[i].op = "external" /\ events[i].to \in DOMAIN p.fun =>
                p.fun[events[i].to].vis = "external"

\* Finitely many variables of finitely many tags, a list of functions, and
\* modifiers that check one thing; all bodies, preludes and postludes placed.
WellFormed(p) ==
    /\ IsList(p.fun) /\ IsFiniteSet(DOMAIN p.var)
    /\ \A v \in DOMAIN p.var : IsFiniteSet(p.var[v].tags)
    /\ \A f \in DOMAIN p.fun : IsList(p.fun[f].mods) /\ WellPlaced(p, p.fun[f].body)
    /\ \A m \in DOMAIN p.mod : p.mod[m].check \in {"none", "sender", "origin", "flag"}
    /\ \A m \in DOMAIN p.mod : WellPlaced(p, p.mod[m].pre) /\ WellPlaced(p, p.mod[m].post)

ASSUME ProgramAssumption == \A p \in Programs : WellFormed(p)

Init ==
    /\ prog \in Programs
    /\ rel = [f \in Fns |-> [g \in Fns |-> "none"]]
    /\ fn = [f \in Fns |-> NewFn(f)]
    /\ sv = [v \in Svs |-> NewSv]
    /\ ct = [c \in Contracts |-> NewCt]
    /\ pass = 1
    /\ hotspots = <<>>

BuildGraph ==
    \/ AddNodes \/ StorageMutations \/ PropagateWrites \/ Reachability
    \/ AccessControl \/ ExternalCalls \/ OraclePatterns \/ FlashLoan
    \/ ArithmeticPatterns \/ SignaturePatterns \/ ReentrancyRisks
    \/ ReadOnlyReentrancy \/ PrivilegedRoles \/ UnprotectedMutators
    \/ ReverseMapping \/ Escalation \/ StateTransitions \/ DelegatecallRisk
    \/ ContractTiers \/ ModifierEquivalence \/ Initializer \/ RequireAccess
    \/ GuardCalls \/ RoleRegistry \/ SsaDampening \/ Governance
    \/ RecomputeUnprotected \/ Sensitivity \/ Taint \/ Dependencies
    \/ DangerousSequences \/ ExploitChains \/ Accounting \/ ExternalCallRisks
    \/ NegativeSafety \/ RiskScores \/ ExploitTargets

Next == (BuildGraph /\ UNCHANGED hotspots) \/ AskHotspots

Spec == Init /\ [][Next]_<<vars, hotspots>>

\* Pass p is through.
After(p) == Done \/ \E i \in 1..(pass - 1) : Passes[i] = p

-----------------------------------------------------------------------------
(* The program itself, for comparison.                                     *)

\* Functions that f calls, through any number of calls.
CalledFrom(f) == Within(CallEdges(f), [g \in Fns |-> CallEdges(g)])[Len(prog.fun)]
Acyclic(f) == \A g \in {f} \cup CalledFrom(f) : g \notin CalledFrom(g)

\* What f does, in the order of its text with the modifiers' put around it:
\* preludes inwards, body, postludes outwards.
Unfolded(f) ==
    LET ms == ModSeq(f)
        Wrapped[k \in 0..Len(ms)] ==
            IF k = 0 THEN Body(f)
            ELSE LET m == ms[Len(ms) + 1 - k] IN prog.mod[m].pre \o Wrapped[k - 1] \o prog.mod[m].post
    IN Wrapped[Len(ms)]

\* No prelude or postlude is so long that it takes the coordinates of the next.
Fits(f) ==
    \A k \in DOMAIN ModSeq(f) :
        LET m == prog.mod[ModSeq(f)[k]] IN Len(m.pre) <= Width /\ Len(m.post) <= Width

WritesInside(e) ==
    \/ e.op = "write"
    \/ e.op = "internal" /\ \E g \in {e.to} \cup CalledFrom(e.to) : WriteEdges(g) # {}

\* The functions f hands an argument of T on to.
Handed(f, T) == {Body(f)[i].to : i \in {j \in At(f, "internal") : Body(f)[j].arg \in T}}

\* The values of f that are tainted when it returns, if its parameter is
\* `given` tainted or not: results of calls that return, and locals assigned
\* from msg.sender, from such a parameter or from a result there was before.
Tainting(f, given) ==
    LET Returned(i) == \E j \in Externals(f) : j < i /\ Body(f)[j].kind \notin {"transfer", "send"}
        Computed(i) == \/ Body(f)[i].from = "sender"
                       \/ Body(f)[i].from = "param" /\ given
                       \/ Body(f)[i].from = "ret" /\ Returned(i)
    IN {v \in {"param", "ret", "local"} :
          \/ v = "param" /\ given
          \/ v = "ret" /\ Returned(Len(Body(f)) + 1)
          \/ v = "local" /\ \E i \in At(f, "assign") : Computed(i)}

\* Functions whose parameter is tainted after at most k calls: where each hands
\* on its parameter and what it taints by itself, ...
TaintedIn[k \in Nat] ==
    IF k = 0 THEN {f \in Fns : Public(f)}
    ELSE LET S == TaintedIn[k - 1]
         IN S \cup UNION {Handed(f, Tainting(f, Public(f)) \cup {"param" : g \in S \cap {f}}) : f \in Fns}

\* ... and where each hands on whatever its tainted parameter or msg.sender
\* ends up in.
FlowsIn[k \in Nat] ==
    IF k = 0 THEN {f \in Fns : Public(f)}
    ELSE LET S == FlowsIn[k - 1]
         IN S \cup UNION {Handed(f, {"sender"} \cup Tainting(f, f \in S)) : f \in Fns}

\* f looks at who calls it: in its text, in a modifier, or in a function that
\* it calls and that nobody outside can call.
ChecksCaller(f) ==
    \/ InlineCheck(f)
    \/ \E name \in ToSet(Src(f).mods) : \E m \in Resolved(f, name) :
          prog.mod[m].check \in {"sender", "origin"}
    \/ \E g \in CallEdges(f) : ~Public(g) /\ InlineCheck(g)

\* What the passes take for a guard although it may ask nothing of the caller:
\* a modifier on a flag, as nonReentrant and whenNotPaused, an initialiser's
\* check of its own or of a callee, a function that is named like a guard or
\* mentions msg.sender and checks something, and a check beside a call of
\* something named like a role registry.
TakenForGuard(f) ==
    \/ \E name \in ToSet(Src(f).mods) : \E m \in Resolved(f, name) : prog.mod[m].check = "flag"
    \/ \E g \in {f} \cup CallEdges(f) : Checks(g, "init") # {}
    \/ Says(f, "lib_guard_call")
    \/ \E g \in CallEdges(f) :
          ~Public(g) /\ (Says(g, "guard_name") \/ (Says(g, "sender") /\ At(g, "require") # {}))
    \/ At(f, "require") # {} /\ \E e \in Calls(f) : e[3].about = "role"

-----------------------------------------------------------------------------
(* What the graph must say.                                                *)

\* The writes propagated to a function are those of the functions it calls,
\* however the calls lead there and whichever function was searched first:
\* no one's write is added, and without recursion none is lost
\* (enrichment.py:80, the cache shared by all the searches).
PropagatedExact ==
    After("propagate_writes") =>
        \A f \in Fns :
            LET all == UNION {WriteEdges(g) : g \in {f} \cup CalledFrom(f)}
            IN /\ fn[f].propagated \subseteq all
               /\ Acyclic(f) => fn[f].propagated = all

\* The coordinates of phases and modifiers tell a re-entrant call before a
\* write exactly when the CFG nodes, unfolded with their modifiers, have the
\* call in one node and the write in a later one, where the coordinates are
\* enough and no function that is called is recursive (reentrancy.py:264).
\* This is not the order of every execution: a node that stores the result of
\* its own call is no call before a write (:297), of two branches one seems to
\* follow the other, and a loop's next round is not seen.
CallsBeforeWrites ==
    After("external_calls") =>
        \A f \in Fns :
            LET run == Unfolded(f)
            IN Fits(f) /\ (\A i \in DOMAIN run : run[i].op = "internal" => Acyclic(run[i].to)) =>
                 (fn[f].ceiReentrant <=>
                     \E i, j \in DOMAIN run :
                        /\ \E k \in (i + 1)..j : ~Joined(run[k])
                        /\ run[i].op = "external" /\ Reentrant(run[i].kind)
                        /\ WritesInside(run[j]))

\* After five passes that set and clear the flag, is_unprotected_mutator
\* stands for the entries that write state, look at nothing of their caller
\* and have nothing else that is taken for a guard, and only for them
\* (access_control.py:641, :1036, in the order of builder.py:68).  So whatever
\* is flagged checks no caller; what is taken for guarded and checks none
\* either (:692, :1146) is all that the flag misses.
UnprotectedExact ==
    After("recompute") =>
        \A f \in Fns :
            fn[f].unprotected <=>
                /\ Entry(f) /\ WriteEdges(f) # {}
                /\ ~ChecksCaller(f) /\ ~TakenForGuard(f)

\* The escalation pass reads the flag before it is final; still no function
\* that stays unprotected and writes, itself or by a call, a variable that a
\* guard compares is missing (reentrancy.py:510).
EscalationComplete ==
    Done => \A f \in Fns, v \in Svs :
                /\ fn[f].unprotected
                /\ v \in fn[f].propagated
                /\ \E c \in Contracts : v \in ct[c].roles
                => fn[f].escalate /\ f \in sv[v].risky

\* Four rounds in any node order taint only the parameters that a flow from an
\* input, a result or msg.sender reaches, and miss none within four calls that
\* hand a tainted value on as it came or as the function alone taints it
\* (state_transitions.py:743).  The docstring promises more (:734): a callee
\* analysed again with what was handed to it, and returned values handed back.
\* The rounds add the parameter only: what a callee computes from it is tainted
\* in FlowsIn and missed by the pass.
TaintFollowsCalls ==
    After("taint") =>
        LET tainted == {f \in Fns : "param" \in fn[f].tainted}
        IN TaintedIn[MaxIterations] \subseteq tainted /\ tainted \subseteq FlowsIn[Len(prog.fun)]

\* A chain of exploit steps is one an attacker could follow: reachable
\* functions of one contract, none twice, each writing a sensitive variable
\* that the next one uses (vulnerability_detection.py:419).
ChainsAreSteps ==
    \A f \in Fns : \A c \in fn[f].chains :
        /\ Len(c.steps) \in 2..MaxDepth /\ IsInjective(c.steps) /\ c.feasibility \in 0..100
        /\ \A i \in 1..(Len(c.steps) - 1) :
              LET a == c.steps[i]
                  b == c.steps[i + 1]
              IN /\ Src(a).contract = Src(b).contract
                 /\ fn[b].entries # {}
                 /\ fn[a].propagated \cap (ReadEdges(b) \cup fn[b].propagated) # {}

\* Of two functions that differ in a check of the caller alone, the one with
\* the check has neither the higher risk nor the higher target score, through
\* all the terms that ask for a guard (scoring.py:287, :568): where no call
\* and no state leads from the two to other functions.  (Otherwise a path of
\* taint or a chain that only one of them has can outweigh the check.)
Twin(f, g) ==
    /\ \A a \in {"contract", "vis", "ctor", "payable", "view", "mods", "says"} :
          Src(g)[a] = Src(f)[a]
    /\ Body(g) = <<[op |-> "require", what |-> "sender"]>> \o Body(f)
    /\ CallTargets(f) = {} /\ \A h \in Fns : {f, g} \cap CallTargets(h) = {}
    /\ \A h \in Fns \ {f, g} : ~Depends(f, h)
GuardNeverRaisesScore ==
    Done => \A f, g \in Fns :
                Twin(f, g) => fn[g].final <= fn[f].final /\ fn[g].target <= fn[f].target

\* Whatever the budget, the list keeps the highest risks, each once and the
\* highest first: what is dropped has no more risk than anything kept, also
\* where the tool asked again because no function is a target
\* (graph_queries.py:1034, hotspot_tool.py:54).
HotspotsAreWorst ==
    LET kept    == ToSet(hotspots)
        targets == {f \in Fns : Hot(f, TRUE)}
        pool    == IF targets # {} THEN targets ELSE {f \in Fns : Hot(f, FALSE)}
    IN /\ Len(hotspots) <= Budget /\ IsInjective(hotspots)
       /\ Done /\ targets # {} => hotspots # <<>>
       /\ hotspots # <<>> =>
             /\ kept \subseteq pool
             /\ \A f \in pool \ kept, g \in kept : fn[f].final <= fn[g].final
             /\ \A i \in 1..(Len(hotspots) - 1) :
                   fn[hotspots[i]].final >= fn[hotspots[i + 1]].final

\* What the workers are told of a function by different queries agrees, though
\* each reads what another pass left: no function is open and guarded at once,
\* the two lists of reentrancy are one, and the pairs of a sequence are still
\* dependencies when the later passes are done (graph_queries.py:292).
AnswersAgree ==
    pass > Len(Passes) => \A c \in Contracts \cup {AnyContract} :
        /\ Unprotected(c) \subseteq StateMutators(c) \cap EntryPoints(c)
        /\ Unprotected(c) \cap (AccessTyped(c) \cup Initializers(c)) = {}
        /\ \A f \in Unprotected(c) : ~AccessControlSummary(c)[f].protected
        /\ StateMutators(c) = {t[1] : t \in Transitions(c)}
        /\ ReentrancyAt(c) \subseteq ExternalCallers(c) \ CeiOnly(c)
        /\ CallRisks(c, "REENTRANCY_RISK") = ReentrancyAt(c)
        /\ DelegateRisks(c) \subseteq ExternalCallers(c)
        /\ LengthMutations(c) \subseteq StateMutators(c)
        /\ \A f \in ExploitTargetsAt(c) : Reachable(f)
        /\ \A f \in Sequenced(c) : \A s \in fn[f].sequences : <<f, s.reader>> \in Dependent(c)
        /\ \A x \in ChainsAt(c, 2) : \A i \in 1..(Len(x.steps) - 1) :
              <<x.steps[i], x.steps[i + 1]>> \in Dependent(AnyContract)
        /\ Escalating(AnyContract) = UNION {sv[v].risky : v \in EscalatedVars(AnyContract)}
        /\ \A v \in SensitiveVars(c) \cap TaintedVars(c) : sv[v].taintedBy \subseteq TaintRisks(AnyContract)
=============================================================================
