----------------------------- MODULE GraphAccess -----------------------------
(***************************************************************************)
(* src/src/graph/access_control.py: what guards a function.  Modifiers,    *)
(* inline checks, guard functions, role registries and initialiser guards  *)
(* are found by one pass each; is_unprotected_mutator is set early, is     *)
(* cleared by later passes, and is read in between.                        *)
(*                                                                         *)
(* A modifier has a name, the contract whose modifiers Slither lists it    *)
(* among, the check its conditions make and the variable it compares, the  *)
(* category its name stands for, and the events before and after the       *)
(* placeholder.  One that is inherited may be listed for each heir.        *)
(* Confidences are in thousandths.                                         *)
(***************************************************************************)
EXTENDS GraphEnrichment

ProtectedTypes == {"modifier", "require-based", "both", "internal-guard", "external-role"}
StrictTypes    == {"modifier", "require-based", "both"}

\* _classify_modifier_pattern, with the order of its tests.
Pattern(m) ==
    CASE prog.mod[m].check = "origin" -> "tx_origin"
      [] prog.mod[m].check = "sender" -> "owner_check"
      [] prog.mod[m].check = "flag"   -> "boolean_flag"
      [] prog.mod[m].check = "none"   -> "none"

Defined(c, name) == {m \in Mods : prog.mod[m].contract = c /\ prog.mod[m].name = name}

\* A contract and those it inherits from, breadth first over INHERITS edges.
Lineage(con, c) ==
    LET Queue[k \in Nat] ==
            IF k = 0 THEN <<c>>
            ELSE LET q == Queue[k - 1]
                 IN IF k > Len(q) THEN q
                    ELSE q \o SelectSeq(con[q[k]].parents, LAMBDA p : p \notin ToSet(q))
    IN Queue[Cardinality(DOMAIN con)]

\* _resolve_modifiers_with_inheritance: the nearest contract's definition.
Resolved(f, name) ==
    LET line == Lineage(prog.con, Src(f).contract)
        own  == {k \in DOMAIN line : Defined(line[k], name) # {}}
    IN IF own = {} THEN {} ELSE Defined(line[Min(own)], name)

Guarding(f) ==
    {name \in ToSet(Src(f).mods) : \E m \in Resolved(f, name) : Pattern(m) # "none"}
IsLocal(f, name) == Defined(Src(f).contract, name) # {}

\* _detect_inline_access_check: a check of msg.sender in the function's IR,
\* or one of the if-revert forms in its source.
InlineCheck(f) == \E what \in {"sender", "sender_if", "sender_map"} : Checks(f, what) # {}

\* _update_access_control: protection and confidence only grow, and a second
\* kind of guard makes the type "both".
Update(a, conf, type) ==
    [a EXCEPT !.protected = TRUE, !.conf = Max({@, conf}),
              !.acType = IF @ = "none" THEN type ELSE IF @ = type THEN @ ELSE "both"]

AccessControl ==
    LET Conf(f) == IF Guarding(f) = {} THEN 0
                   ELSE IF \E n \in Guarding(f) : IsLocal(f, n) THEN 1000 ELSE 900
        Inline(f) == IF InlineCheck(f) THEN 950 ELSE 0
    IN FnPass("access_control",
              [f \in Fns |->
                 [fn[f] EXCEPT !.hasAC = Guarding(f) # {}, !.acMods = Guarding(f),
                               !.inline = InlineCheck(f),
                               !.protected = @ \/ Guarding(f) # {} \/ InlineCheck(f),
                               !.conf = Max({@, Conf(f), Inline(f)})]])

\* Modifiers that have a node: those of the contracts that are no library's.
Nodes == {m \in Mods : ~prog.con[prog.mod[m].contract].lib}

\* _detect_privileged_roles: the variable behind each guarding modifier.  A
\* role of an inline check names its variable, which is no node's identifier.
RoleVars(c) ==
    {prog.mod[m].against : m \in {n \in Nodes : prog.mod[n].contract = c /\ Pattern(n) # "none"}}

PrivilegedRoles ==
    CtPass("roles", [c \in Contracts |-> [ct[c] EXCEPT !.roles = RoleVars(c) \cap Svs]])

Exposed(f) ==
    Public(f) /\ fn[f].direct # {} /\ ~fn[f].protected /\ ~Src(f).ctor

UnprotectedMutators ==
    FnPass("unprotected",
           [f \in Fns |->
              [fn[f] EXCEPT !.unprotected = Exposed(f),
                            !.level = IF ~Exposed(f) THEN "NONE"
                                      ELSE IF Src(f).payable THEN "HIGH" ELSE "MEDIUM"]])

Clear(a) == [a EXCEPT !.unprotected = FALSE, !.level = "NONE"]

\* _classify_modifier_equivalence.  The category a name stands for is looked
\* up among all modifier nodes, and a check of msg.sender makes it "owner".
Category(m) ==
    IF prog.mod[m].cat # "custom" THEN prog.mod[m].cat
    ELSE IF m \in Nodes /\ prog.mod[m].check = "sender" THEN "owner" ELSE "custom"
Categories(f) == {Category(m) : m \in {n \in Mods : prog.mod[n].name \in ToSet(Src(f).mods)}}

ModifierEquivalence ==
    FnPass("modifier_equivalence",
           [f \in Fns |-> [fn[f] EXCEPT !.reGuard = "reentrancy_guard" \in Categories(f),
                                        !.initMod = "initializer" \in Categories(f)]])

\* _detect_initializer_guards looks at the function and one level of callees.
InitGuard(f) == \E g \in {f} \cup Callees(f) : Checks(g, "init") # {}

Initializer ==
    FnPass("initializer",
           [f \in Fns |->
              LET a == [fn[f] EXCEPT !.initGuard = InitGuard(f),
                                     !.safeInit = InitGuard(f) /\ (fn[f].protected \/ fn[f].initMod)]
              IN IF InitGuard(f) THEN Clear([a EXCEPT !.protected = TRUE]) ELSE a])

\* The revert form on a mapping is an inline check but no require-based one.
RequireAC(f) == \E what \in {"sender", "sender_if"} : Checks(f, what) # {}

RequireAccess ==
    FnPass("require_ac",
           [f \in Fns |->
              [fn[f] EXCEPT !.protected = @ \/ RequireAC(f),
                            !.inline = @ \/ (RequireAC(f) /\ ~fn[f].protected),
                            !.acType = CASE fn[f].hasAC /\ RequireAC(f) -> "both"
                                         [] fn[f].hasAC /\ ~RequireAC(f) -> "modifier"
                                         [] ~fn[f].hasAC /\ RequireAC(f) -> "require-based"
                                         [] ~fn[f].hasAC /\ ~RequireAC(f) -> "none"]])

\* _detect_internal_guard_calls: a guard is internal and named like one, or
\* mentions msg.sender and checks something.  A guard of a library has no
\* node and is known by its name.
IsGuard(g) ==
    /\ ~Public(g)
    /\ \/ Says(g, "guard_name")
       \/ (InlineCheck(g) \/ Says(g, "sender")) /\ At(g, "require") # {}
CallsGuard(f) == (\E g \in Callees(f) : IsGuard(g)) \/ Says(f, "lib_guard_call")

GuardCalls ==
    FnPass("guard_calls",
           [f \in Fns |-> IF CallsGuard(f)
                          THEN [Update(fn[f], 850, "internal-guard") EXCEPT !.guardCall = TRUE]
                          ELSE fn[f]])

\* _detect_external_role_registry_guards: by the expression of the target.
AsksRegistry(f) ==
    /\ \E e \in fn[f].extEdges : e[3].about = "role"
    /\ At(f, "require") # {}

RoleRegistry ==
    FnPass("role_registry",
           [f \in Fns |-> IF AsksRegistry(f)
                          THEN [Update(fn[f], 800, "external-role") EXCEPT !.roleGuard = TRUE]
                          ELSE fn[f]])

\* _apply_ssa_confidence_dampening: no modifier of the contract has a parsed
\* condition, and none of its own or of a contract derived from it is known.
SsaFailed(c) ==
    /\ \E m \in Nodes : prog.mod[m].contract = c
    /\ \A m \in Nodes : prog.mod[m].contract = c => prog.mod[m].check = "none"
    /\ \A m \in Mods : c \in ToSet(Lineage(prog.con, prog.mod[m].contract))
                          => prog.mod[m].cat = "custom"

SsaDampening ==
    /\ Turn("ssa")
    /\ ct' = [c \in Contracts |-> [ct[c] EXCEPT !.ssa = ~SsaFailed(c)]]
    /\ fn' = [f \in Fns |-> [fn[f] EXCEPT
                 !.conf = IF SsaFailed(Src(f).contract) THEN (@ * 7) \div 10 ELSE @]]
    /\ UNCHANGED <<prog, rel, sv>>

\* The first of a variable's tags, in the order of _SENSITIVITY_PATTERNS.
TagOrder == <<"ACCOUNTING", "ACCESS", "CAP", "REWARD", "LIQUIDITY">>
Primary(v) ==
    LET of == SelectSeq(TagOrder, LAMBDA t : t \in sv[v].tags)
    IN IF of = <<>> THEN "none" ELSE Head(of)

\* _classify_governance_contracts; con.gov is what parents and keywords say.
WritesAccess(f) ==
    \/ \E v \in fn[f].taintedWrites : "ACCESS" \in sv[v].tags
    \/ \E v \in WriteEdges(f) : Primary(v) = "ACCESS"

Governance ==
    LET some == \E c \in Contracts : prog.con[c].gov
    IN /\ Turn("governance")
       /\ ct' = [c \in Contracts |-> [ct[c] EXCEPT !.governance = prog.con[c].gov]]
       /\ fn' = [f \in Fns |-> [fn[f] EXCEPT
                    !.design = /\ some
                               /\ prog.con[Src(f).contract].gov \/ fn[f].acType \in StrictTypes
                               /\ WritesAccess(f)
                               /\ fn[f].conf >= 800]]
       /\ UNCHANGED <<prog, rel, sv>>

\* Mutant: the confidence alone decides.
ConfidentlyProtected(f) == fn[f].conf >= 800

EffectivelyProtected(f) ==
    \/ fn[f].acType \in ProtectedTypes
    \/ fn[f].guardCall \/ fn[f].roleGuard
    \/ fn[f].conf >= 800

RecomputeUnprotected ==
    FnPass("recompute",
           [f \in Fns |-> IF fn[f].unprotected /\ EffectivelyProtected(f)
                          THEN Clear(fn[f]) ELSE fn[f]])

\* _enrich_state_variable_reverse_mapping and _detect_privilege_escalation,
\* in reentrancy.py: between the two settings of is_unprotected_mutator.
ReverseMapping ==
    SvPass("reverse_mapping",
           [v \in Svs |-> [sv[v] EXCEPT !.roles = {c \in Contracts : v \in ct[c].roles},
                                        !.writers = {f \in Fns : v \in fn[f].propagated}]])

\* Mutant: only direct writes of the role's variable count.
RiskyDirect(v) ==
    {f \in sv[v].writers : sv[v].roles # {} /\ fn[f].unprotected /\ v \in fn[f].direct}

Risky(v) == {f \in sv[v].writers : sv[v].roles # {} /\ fn[f].unprotected}

Escalation ==
    /\ Turn("escalation")
    /\ sv' = [v \in Svs |-> [sv[v] EXCEPT !.escalation = Risky(v) # {}, !.risky = Risky(v)]]
    /\ fn' = [f \in Fns |-> [fn[f] EXCEPT !.escalate = \E v \in Svs : f \in Risky(v)]]
    /\ UNCHANGED <<prog, rel, ct>>
=============================================================================
