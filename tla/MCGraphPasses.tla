----------------------------- MODULE MCGraphPasses -----------------------------
(***************************************************************************)
(* Programs for GraphPasses, in families: each varies what one part of the *)
(* passes looks at, over all its combinations.                             *)
(***************************************************************************)
EXTENDS GraphPasses

Write(v, from)     == [op |-> "write", var |-> v, from |-> from, how |-> "assign"]
Pop(v)             == [op |-> "write", var |-> v, from |-> "const", how |-> "pop"]
Read(v)            == [op |-> "read", var |-> v]
Assign(from, math) == [op |-> "assign", from |-> from, math |-> math]
Call(g, arg)       == [op |-> "internal", to |-> g, arg |-> arg]
Ext(kind, about)   == [op |-> "external", kind |-> kind, to |-> 0, about |-> about]
Cross(g)           == [op |-> "external", kind |-> "interface", to |-> g, about |-> "plain"]
Require(what)      == [op |-> "require", what |-> what]
\* In the CFG node of the event before it.
Also(e)            == e @@ [joined |-> TRUE]

Fun(vis, body) ==
    [contract |-> "C", vis |-> vis, ctor |-> FALSE, payable |-> FALSE, view |-> FALSE,
     body |-> body, mods |-> <<>>, says |-> {}]
Var(tags, role, rank) ==
    [contract |-> "C", tags |-> tags, role |-> role, array |-> FALSE,
     assets |-> FALSE, marks |-> FALSE, rank |-> rank]
Con(parents) ==
    [lib |-> FALSE, upgradeable |-> FALSE, creates |-> FALSE, gov |-> FALSE, test |-> FALSE,
     parents |-> parents]
Mod(name, contract, check, against, cat) ==
    [name |-> name, contract |-> contract, check |-> check, against |-> against,
     cat |-> cat, pre |-> <<>>, post |-> <<>>]

Alone  == [C |-> Con(<<>>)]
NoMods == [m \in {} |-> m]
Program(fun, var, con, mod) == [fun |-> fun, var |-> var, con |-> con, mod |-> mod]

\* Any three functions that call each other: who writes, who is an entry.
CallGraphs ==
    LET One   == [x |-> Var({}, "UNKNOWN", 1)]
        Pair  == One @@ [y |-> Var({"ACCESS"}, "UNKNOWN", 2)]
        Calls_(S) == LET q == Ascending(S) IN [i \in DOMAIN q |-> Call(q[i], "const")]
        Body_(S, w) == Calls_(S) \o w
    IN {Program(<<Fun(vis[1], Body_(c[1], w[1])), Fun(vis[2], Body_(c[2], w[2])),
                  Fun(vis[3], Body_(c[3], w[3]))>>, Pair, Alone, NoMods)
          : c \in [1..3 -> SUBSET (1..3)],
            w \in {<< <<>>, <<>>, <<Write("y", "const")>> >>,
                   << <<Write("y", "const")>>, <<Write("x", "const")>>, <<>> >>},
            vis \in {<<"external", "internal", "internal">>,
                     <<"internal", "internal", "external">>}}

\* The same, where a function is also called through its contract's interface.
BothWays ==
    LET Body_(S) == LET q == Ascending(S) IN [i \in DOMAIN q |-> Call(q[i], "param")]
    IN {Program(<<Fun("external", Body_(S) \o <<Cross(2)>>),
                  Fun("external", Body_(T) \o w),
                  Fun("external", help \o <<Write("y", "param")>>)>>,
                [x |-> Var({"CAP"}, "UNKNOWN", 1), y |-> Var({"ACCESS"}, "UNKNOWN", 2)],
                Alone, [m |-> Mod("only", "C", "sender", "y", "custom")])
          : S \in SUBSET (1..3), T \in SUBSET (1..3),
            w \in {<<>>, <<Write("x", "param"), Cross(3)>>, <<Require("init"), Write("x", "param")>>},
            help \in {<<>>, <<Require("sender")>>}}

\* An entry, its twin with one more check, an entry that only calls, and a
\* helper: every kind of guard in every place, and modifiers own or inherited.
Guards ==
    LET Entries(mods, check, call, about, last, help, hsays) ==
            LET tail == check \o call \o about \o last
            IN <<[Fun("external", tail) EXCEPT !.mods = mods],
                 [Fun("external", <<Require("sender")>> \o tail) EXCEPT !.mods = mods],
                 Fun("external", <<Write("count", "param"), Call(4, "param")>>),
                 [Fun("internal", help \o <<Write("owner", "param")>>) EXCEPT !.says = hsays]>>
        Mods_(where, check, cat) ==
            [m1 |-> Mod("m", where, check, "owner", cat),
             m2 |-> Mod("other", "C", "none", "", "custom")]
    IN {Program(Entries(mods, check, call, about, last, help, hsays),
                [owner |-> Var({"ACCESS"}, "UNKNOWN", 1), count |-> Var({}, "UNKNOWN", 2)],
                [C |-> [Con(<<"P">>) EXCEPT !.gov = gov], P |-> Con(<<>>)], Mods_(m[1], m[2], m[3]))
          : mods \in {<<>>, <<"m">>}, call \in {<<>>, <<Call(4, "const")>>},
            check \in {<<>>} \cup {<<Require(w)>> : w \in {"sender_if", "sender_map", "init", "other"}},
            about \in {<<>>, <<Ext("interface", "role")>>},
            last \in {<<>>, <<Write("owner", "param")>>},
            help \in {<<>>, <<Require("other")>>, <<Require("init")>>},
            hsays \in {{}, {"guard_name"}},
            m \in {<<"C", "origin", "custom">>, <<"P", "sender", "custom">>, <<"P", "none", "custom">>,
                   <<"C", "flag", "reentrancy_guard">>, <<"C", "none", "initializer">>,
                   <<"C", "none", "reentrancy_guard">>},
            gov \in {FALSE}}

\* Two modifiers around a body: calls and writes in every phase, and in one
\* CFG node.
Phases ==
    LET Bits == {<<>>, <<Ext("call", "plain")>>, <<Write("x", "const")>>}
        Bodies == Bits \cup {<<Ext("call", "plain"), Call(2, "const")>>,
                             <<Call(2, "const"), Ext("call", "arg")>>,
                             <<Ext("transfer", "plain"), Write("x", "param")>>,
                             <<Ext("delegatecall", "arg"), Require("ret")>>,
                             <<Ext("call", "plain"), Also(Write("x", "ret"))>>,
                             <<Call(2, "const"), Also(Ext("call", "arg")), Also(Write("x", "ret")),
                               Also(Ext("send", "plain"))>>}
        Around(name, pre, post) ==
            [Mod(name, "C", "none", "", "custom") EXCEPT !.pre = pre, !.post = post]
    IN {Program(<<[Fun("external", body) EXCEPT !.mods = <<"m1", "m2">>],
                  Fun("internal", <<Write("y", "const")>>)>>,
                [x |-> Var({}, "BALANCE", 1), y |-> Var({"ACCOUNTING"}, "SUPPLY", 2)], Alone,
                [m1 |-> Around("m1", a, b), m2 |-> Around("m2", c, d)])
          : a \in Bits \cup {<<Ext("call", "plain"), Also(Write("x", "ret"))>>}, b \in Bits, c \in Bits, d \in Bits, body \in Bodies}

\* A chain of six calls, its functions in several orders of the nodes.
TaintChains ==
    LET Orders == {<<1, 2, 3, 4, 5, 6>>, <<6, 5, 4, 3, 2, 1>>, <<3, 1, 4, 6, 2, 5>>,
                   <<2, 1, 4, 3, 6, 5>>, <<5, 6, 1, 2, 3, 4>>}
        Link(k, o, arg) ==
            IF k = 6 THEN <<Write("x", arg)>>
            ELSE IF arg = "local" THEN <<Assign("param", TRUE), Call(o[k + 1], "local")>>
            ELSE IF arg = "ret" THEN <<Ext("interface", "oracle"), Call(o[k + 1], "ret")>>
            ELSE <<Call(o[k + 1], arg)>>
        Place(o, f) == CHOOSE k \in 1..6 : o[k] = f
    IN {Program([f \in 1..6 |-> Fun(IF Place(o, f) = 1 THEN "external" ELSE "internal",
                                    Link(Place(o, f), o, IF Place(o, f) = 6 THEN "param"
                                                         ELSE args[Place(o, f)]))],
                [x |-> Var({"REWARD"}, "INDEX", 1)], Alone, NoMods)
          : o \in Orders,
            args \in [1..5 -> {"param"}] \cup {[a EXCEPT ![k] = b] :
                        a \in [1..5 -> {"param"}], k \in 1..5, b \in {"local", "const", "ret", "sender"}}}

\* Three entries of a contract that share sensitive state.
Markets ==
    LET Bodies == {<<Write("debt", "param")>>, <<Read("debt"), Write("owner", "param")>>,
                   <<Read("owner"), Ext("call", "token"), Write("debt", "sender")>>,
                   <<Write("owner", "param")>>, <<Require("sender"), Write("owner", "param")>>,
                   <<Ext("staticcall", "oracle"), Read("debt")>>,
                   <<Call(4, "param")>>, <<Cross(5), Pop("debt")>>}
        Words == {{}, {"spot", "division", "price", "collateral", "borrow_name"},
                  {"mint", "total_supply", "proportional", "mutator", "mint_name", "donation"},
                  {"unchecked_block", "divide_first", "signature", "reset", "decrease"}}
        Entry_(body, words) == [Fun("external", body) EXCEPT !.says = words]
        Debt == [Var({"ACCOUNTING", "CAP"}, "UNKNOWN", 1) EXCEPT !.array = TRUE]
    IN {Program(<<Entry_(a, words), Entry_(b, {}), Entry_(c, {"constant_require", "grant"}),
                  Fun("internal", <<Write("debt", "param")>>),
                  [Fun("external", <<Write("total", "param")>>) EXCEPT !.contract = "D"]>>,
                [debt |-> Debt, owner |-> Var({"ACCESS"}, "CAP", 2),
                 total |-> [Var({"LIQUIDITY"}, "SUPPLY", 3) EXCEPT !.contract = "D"]],
                [C |-> [Con(<<>>) EXCEPT !.gov = TRUE], D |-> [Con(<<>>) EXCEPT !.creates = TRUE]],
                [m |-> Mod("only", "D", "sender", "owner", "owner")])
          : a \in Bodies, b \in Bodies, c \in Bodies, words \in Words}

\* Two entries that differ in a check of the caller, with nobody else: every
\* shape of call, write and guard, and what the text may say.
Twins ==
    LET Views  == {<<>>, <<Read("owner"), Ext("staticcall", "oracle")>>}
        Bodies == {<<Write("debt", "param")>>, <<Read("owner"), Write("owner", "sender")>>,
                   <<Ext("call", "arg"), Write("debt", "const")>>,
                   <<Ext("send", "token"), Ext("interface", "oracle")>>,
                   <<Ext("delegatecall", "arg"), Write("owner", "param"), Pop("debt")>>}
        Entries == {[Fun("external", b) EXCEPT !.payable = p] : b \in Bodies, p \in BOOLEAN}
                     \cup {[Fun("external", b) EXCEPT !.view = TRUE] : b \in Views}
        Checked == {<<>>} \cup {<<Require(w)>> : w \in {"sender_if", "sender_map", "init", "ret"}}
        Words == {{}, {"spot", "division", "price", "collateral", "borrow_name"},
                  {"mint", "total_supply", "proportional", "mutator", "mint_name", "donation"},
                  {"unchecked_block", "divide_first", "signature", "reset", "constant_require"}}
        First(e, check, mods, words) ==
            [e EXCEPT !.body = @ \o check, !.mods = mods, !.says = words]
        Second(f) == [f EXCEPT !.body = <<Require("sender")>> \o @]
    IN {Program(<<First(e, check, mods, words), Second(First(e, check, mods, words))>>,
                [debt |-> [Var({"ACCOUNTING", "CAP"}, "BALANCE", 1) EXCEPT !.array = TRUE],
                 owner |-> Var({"ACCESS"}, "CAP", 2)],
                Alone, [m |-> Mod("only", "C", kind, "owner", "custom"),
                        r |-> Mod("role", "C", "sender", "owner", "owner")])
          : e \in Entries, check \in Checked, words \in Words,
            mods \in {<<>>, <<"only">>}, kind \in {"sender", "none"}}

Families == CallGraphs \cup BothWays \cup Guards \cup Phases \cup TaintChains \cup Markets \cup Twins
=============================================================================
