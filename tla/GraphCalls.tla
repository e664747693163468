------------------------------ MODULE GraphCalls ------------------------------
(***************************************************************************)
(* src/src/graph/reentrancy.py: the external calls of a function, the      *)
(* order of calls and writes, and the rules for reentrancy.                *)
(***************************************************************************)
EXTENDS GraphAccess

\* forwards_gas of a call of each kind.
Gas(kind) == IF kind \in {"transfer", "send"} THEN "2300" ELSE "full"
Reentrant(kind) == kind \in {"call", "delegatecall"} /\ Gas(kind) # "2300"

\* Whether a return value is checked: only low-level calls and sends can go
\* unchecked, and a later require on the value checks it.
ReturnChecked(f, i) ==
    \/ Body(f)[i].kind \notin {"call", "delegatecall", "staticcall", "send"}
    \/ \E j \in Checks(f, "ret") : j > i

\* The phases of an execution: modifiers' preludes in order, the body, the
\* postludes in reverse order.  Coordinates are <<phase, index>>.
Width == 1000
Local(f, name) == Defined(Src(f).contract, name) \cap Nodes
Chosen(names, local) ==
    LET own == Ascending({i \in DOMAIN names : local[names[i]] # {}})
    IN [k \in DOMAIN own |-> CHOOSE m \in local[names[own[k]]] : TRUE]
ModSeq(f) == Chosen(Src(f).mods, [name \in ToSet(Src(f).mods) |-> Local(f, name)])
Placed(events, phase, k) == {<<phase, (k - 1) * Width + i, events[i]>> : i \in DOMAIN events}
Preludes(ms)  == UNION {Placed(prog.mod[ms[k]].pre, 0, k) : k \in DOMAIN ms}
Postludes(ms) == UNION {Placed(prog.mod[ms[k]].post, 2, k) : k \in DOMAIN ms}

\* Mutant: the postludes run in the order of the preludes.
EventsForward(f) ==
    Preludes(ModSeq(f)) \cup Placed(Body(f), 1, 1) \cup Postludes(ModSeq(f))

Events(f) ==
    Preludes(ModSeq(f)) \cup Placed(Body(f), 1, 1) \cup Postludes(Reverse(ModSeq(f)))

Calls(f) == {e \in Events(f) : e[3].op = "external"}
WritesIn(f) ==
    {e \in Events(f) : \/ e[3].op = "write"
                       \/ e[3].op = "internal" /\ Mutates(e[3].to)}

Before(a, b) == a[1] < b[1] \/ (a[1] = b[1] /\ a[2] < b[2])

\* The pass numbers the CFG nodes of a segment and not what they do: of two
\* events of one node neither is after the other.
OneNode(f, c, w) == \A e \in Events(f) : Before(c, e) /\ ~Before(w, e) => Joined(e[3])

\* A write in a later node than the first of the calls in S.
SomeWriteAfter(f, S) == \E c \in S, w \in WritesIn(f) : Before(c, w) /\ ~OneNode(f, c, w)

\* _classify_external_calls: a resolved target without an edge from f gets
\* the call's edge, every other call a node of its own.
Resolves(f, i) ==
    LET g == Body(f)[i].to IN g # 0 /\ rel[f][g] = "none" /\ FirstTo(f, i)

ExternalCalls ==
    /\ Turn("external_calls")
    /\ rel' = [f \in Fns |-> [g \in Fns |->
                 IF \E i \in Externals(f) : Body(f)[i].to = g /\ Resolves(f, i)
                 THEN "EXTERNAL_CALL" ELSE rel[f][g]]]
    /\ fn' = [f \in Fns |->
                [fn[f] EXCEPT
                   !.extEdges = Calls(f),
                   !.cei = SomeWriteAfter(f, Calls(f)),
                   !.ceiReentrant = SomeWriteAfter(f, {c \in Calls(f) : Reentrant(c[3].kind)})]]
    /\ UNCHANGED <<prog, sv, ct>>

MakesCall(f) == Calls(f) # {}

\* An external edge to a resolved function is gone once a later pass has
\* given the pair another label.
ExtEdges(f) ==
    {e \in fn[f].extEdges :
        LET g == e[3].to
        IN (e[1] = 1 /\ g # 0 /\ FirstLabel(f, g) = "none" /\ FirstTo(f, e[2]))
              => rel[f][g] = "EXTERNAL_CALL"}

HasReentrantEdge(f) == \E e \in ExtEdges(f) : Reentrant(e[3].kind)

ReentrancyRisk(f) ==
    Reachable(f) /\ HasReentrantEdge(f) /\ fn[f].propagated # {} /\ fn[f].ceiReentrant

ReentrancyRisks ==
    FnPass("reentrancy",
           [f \in Fns |->
              [fn[f] EXCEPT !.reentrancy = ReentrancyRisk(f),
                            !.ceiOnly = /\ fn[f].cei /\ fn[f].propagated # {} /\ MakesCall(f)
                                        /\ ~ReentrancyRisk(f)]])

\* _detect_read_only_reentrancy_risk.  The tags and the tainted writes it
\* asks for are set by later passes.
ReadsOutside(f) ==
    \E e \in ExtEdges(f) : \/ e[3].kind = "staticcall"
                           \/ e[3].kind = "interface" /\ e[3].about = "oracle"
WritesSensitive(f) ==
    \/ \E h \in {"total_supply", "total_assets", "proportional", "reward_index"} : Says(f, h)
    \/ \E v \in fn[f].taintedWrites : sv[v].tags \cap {"ACCOUNTING", "CAP"} # {}
    \/ \E v \in WriteEdges(f) : Primary(v) \in {"ACCOUNTING", "CAP"}

ReadOnlyReentrancy ==
    FnPass("read_only",
           [f \in Fns |-> [fn[f] EXCEPT !.readOnly = ReadsOutside(f) /\ WritesSensitive(f)]])
=============================================================================
