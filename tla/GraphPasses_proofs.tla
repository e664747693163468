-------------------------- MODULE GraphPasses_proofs --------------------------
(***************************************************************************)
(* Theorems about the passes of build_graph, for every program.            *)
(*                                                                         *)
(* The passes run once each, in a fixed order, so most of an argument is   *)
(* which pass sets what: lemma Frame says so of all of them, and each      *)
(* invariant says of one attribute what it is from the pass that sets it   *)
(* on.  GuardInv covers protection and the CALLS edges, Propagation the    *)
(* writes and chains, EscalationFacts, AnswerInv, ScoreInv, HotspotInv,    *)
(* OrderInv and TaintInv what the other theorems need.  What the passes    *)
(* compute by recursion is unrolled once (Iterates, Unrolls) and then      *)
(* reasoned about step by step.                                            *)
(***************************************************************************)
EXTENDS GraphPasses, FiniteSetTheorems, WellFoundedInduction, TLAPS

-----------------------------------------------------------------------------
(* Induction and recursion over the naturals, for sets and functions: the  *)
(* tables that a pass fills one depth, or one node, after the other.       *)

LEMMA NatSet ==
  ASSUME NEW T \in SUBSET Nat, 0 \in T, \A n \in T : n + 1 \in T
  PROVE  T = Nat
<1> DEFINE R == OpToRel(<, Nat)
           S == Nat \ T
<1> SUFFICES ASSUME S # {} PROVE FALSE
  OBVIOUS
<1>1. PICK m \in S : \A k \in S : ~(<<k, m>> \in R)
  <2> HIDE DEF R
  <2>1. IsWellFoundedOn(R, Nat)
    BY NatLessThanWellFounded DEF R
  <2>2. S \subseteq Nat
    OBVIOUS
  <2> HIDE DEF S
  <2> QED
    BY <2>1, <2>2, WFMin
<1>2. \A k \in S : ~(k < m)
  BY <1>1 DEF OpToRel
<1>3. m \in Nat /\ m # 0
  OBVIOUS
<1>4. m - 1 \in T
  BY <1>2, <1>3
<1>5. (m - 1) + 1 \in T
  BY <1>4
<1> QED
  BY <1>3, <1>5

(* g starts at a and takes its next value from its number and the last one. *)
Stepping(X, a, F)    == a \in X /\ F \in [Nat \X X -> X]
Iterated(g, X, a, F) == g \in [Nat -> X] /\ g[0] = a /\ \A n \in Nat : g[n + 1] = F[<<n, g[n]>>]

LEMMA Iterates ==
  ASSUME NEW X, NEW a, NEW F, Stepping(X, a, F)
  PROVE  \E g : Iterated(g, X, a, F)
<1> USE DEF Stepping
<1> DEFINE Upto(n) == {h \in [0..n -> X] : h[0] = a /\ \A k \in 0..(n - 1) : h[k + 1] = F[<<k, h[k]>>]}
           T == {n \in Nat : Upto(n) # {}}
           U == {k \in Nat : \A n, m \in Nat : \A h \in Upto(n), i \in Upto(m) :
                               k <= n /\ k <= m => h[k] = i[k]}
<1>1. T = Nat
  <2>1. 0 \in T
    <3>1. [k \in 0..0 |-> a] \in Upto(0)
      OBVIOUS
    <3> QED
      BY <3>1
  <2>2. ASSUME NEW n \in T PROVE n + 1 \in T
    <3>1. PICK h \in Upto(n) : TRUE
      OBVIOUS
    <3> DEFINE i == [k \in 0..(n + 1) |-> IF k <= n THEN h[k] ELSE F[<<n, h[n]>>]]
    <3>2. h[n] \in X /\ n \in Nat
      BY <3>1
    <3>3. i \in [0..(n + 1) -> X] /\ i[0] = a
      BY <3>1, <3>2
    <3>4. ASSUME NEW k \in 0..n PROVE i[k + 1] = F[<<k, i[k]>>]
      <4>1. CASE k < n
        BY <3>1, <3>2, <4>1
      <4>2. CASE k = n
        <5>1. i[n + 1] = F[<<n, h[n]>>] /\ i[n] = h[n]
          BY <3>2
        <5> QED
          BY <4>2, <5>1
      <4> QED
        BY <3>2, <4>1, <4>2
    <3>5. i \in Upto(n + 1)
      <4> HIDE DEF i
      <4>1. (n + 1) - 1 = n
        BY <3>2
      <4> QED
        BY <3>3, <3>4, <4>1
    <3> HIDE DEF Upto
    <3> QED
      BY <3>2, <3>5
  <2> HIDE DEF T
  <2>3. T \subseteq Nat
    BY DEF T
  <2> QED
    BY <2>1, <2>2, <2>3, NatSet
<1>2. U = Nat
  <2>1. 0 \in U
    OBVIOUS
  <2>2. ASSUME NEW k \in U PROVE k + 1 \in U
    <3>1. ASSUME NEW n \in Nat, NEW m \in Nat, NEW h \in Upto(n), NEW i \in Upto(m),
                 k + 1 <= n, k + 1 <= m
          PROVE  h[k + 1] = i[k + 1]
      <4>1. k \in Nat /\ k \in 0..(n - 1) /\ k \in 0..(m - 1) /\ k <= n /\ k <= m
        BY <3>1
      <4>2. h[k] = i[k]
        <5> HIDE DEF Upto
        <5> QED
          BY <4>1
      <4>3. h[k + 1] = F[<<k, h[k]>>] /\ i[k + 1] = F[<<k, i[k]>>]
        BY <4>1
      <4> QED
        BY <4>2, <4>3
    <3> HIDE DEF Upto
    <3> QED
      BY <3>1
  <2> HIDE DEF U
  <2>3. U \subseteq Nat
    BY DEF U
  <2> QED
    BY <2>1, <2>2, <2>3, NatSet
<1> DEFINE H(n) == CHOOSE h \in Upto(n) : TRUE
           g == [n \in Nat |-> H(n)[n]]
<1>3. \A n \in Nat : H(n) \in Upto(n)
  <2> SUFFICES ASSUME NEW n \in Nat PROVE H(n) \in Upto(n)
    OBVIOUS
  <2>1. Upto(n) # {}
    BY <1>1
  <2> HIDE DEF Upto
  <2> QED
    BY <2>1
<1> HIDE DEF H
<1>4. g \in [Nat -> X] /\ g[0] = a
  <2>1. \A n \in Nat : H(n)[n] \in X
    BY <1>3
  <2>2. H(0)[0] = a
    BY <1>3
  <2> QED
    BY <2>1, <2>2
<1>5. ASSUME NEW n \in Nat PROVE g[n + 1] = F[<<n, g[n]>>]
  <2>1. H(n + 1)[n + 1] = F[<<n, H(n + 1)[n]>>]
    <3>1. n + 1 \in Nat /\ n \in 0..((n + 1) - 1)
      OBVIOUS
    <3>2. H(n + 1) \in Upto(n + 1)
      BY <1>3, <3>1
    <3> QED
      BY <3>1, <3>2
  <2>2. H(n + 1)[n] = H(n)[n]
    <3>1. n \in U /\ n + 1 \in Nat /\ n <= n + 1 /\ n <= n
      <4> HIDE DEF U
      <4> QED
        BY <1>2
    <3>2. H(n + 1) \in Upto(n + 1) /\ H(n) \in Upto(n)
      BY <1>3, <3>1
    <3> HIDE DEF Upto
    <3> QED
      BY <3>1, <3>2
  <2> QED
    BY <2>1, <2>2
<1> QED
  BY <1>4, <1>5 DEF Iterated

(* What a recursion over 1..n computes is in the set that each of its      *)
(* steps keeps to.                                                         *)

Unrolled(w, X, a, n, F) ==
    w \in [0..n -> X] /\ w[0] = a /\ \A k \in 1..n : w[k] = F[<<k, w[k - 1]>>]

(* Whatever takes these steps from a has the values of w.                  *)
Only(w, X, a, n, F) ==
    \A u : /\ u[0] = a
           /\ \A k \in 1..n : u[k - 1] \in X => u[k] = F[<<k, u[k - 1]>>]
           => \A k \in 0..n : u[k] = w[k]

LEMMA Unrolls ==
  ASSUME NEW X, NEW a \in X, NEW n \in Nat, NEW F \in [(1..n) \X X -> X]
  PROVE  \E w : Unrolled(w, X, a, n, F) /\ Only(w, X, a, n, F)
<1> DEFINE On(k, v) == IF k \in 1..n THEN F[<<k, v>>] ELSE v
           G == [x \in Nat \X X |-> On(x[1] + 1, x[2])]
<1>1. \A k \in Nat, v \in X : On(k, v) \in X
  OBVIOUS
<1>2. \A k \in 1..n : \A v : On(k, v) = F[<<k, v>>]
  OBVIOUS
<1> HIDE DEF On
<1>3. G \in [Nat \X X -> X] /\ \A k \in Nat, v \in X : G[<<k, v>>] = On(k + 1, v)
  BY <1>1
<1> HIDE DEF G
<1>4. PICK g : g \in [Nat -> X] /\ g[0] = a /\ \A k \in Nat : g[k + 1] = On(k + 1, g[k])
  <2>1. \E g : Iterated(g, X, a, G)
    BY <1>3, Iterates DEF Stepping
  <2> QED
    BY <1>3, <2>1 DEF Iterated
<1> DEFINE w == [k \in 0..n |-> g[k]]
<1>5. w \in [0..n -> X] /\ w[0] = a /\ \A k \in 0..n : w[k] = g[k]
  BY <1>4
<1> HIDE DEF w
<1>6. ASSUME NEW k \in 1..n PROVE w[k] = F[<<k, w[k - 1]>>]
  <2>1. k - 1 \in Nat /\ k - 1 \in 0..n /\ k \in 0..n /\ (k - 1) + 1 = k
    OBVIOUS
  <2>2. g[k] = On(k, g[k - 1])
    BY <1>4, <2>1
  <2> QED
    BY <1>2, <1>5, <2>1, <2>2
<1>7. ASSUME NEW u, u[0] = a,
             \A k \in 1..n : u[k - 1] \in X => u[k] = F[<<k, u[k - 1]>>]
      PROVE  \A k \in 0..n : u[k] = w[k]
  <2> DEFINE T == {k \in Nat : k <= n => u[k] = w[k]}
  <2>1. 0 \in T
    BY <1>5, <1>7
  <2>2. ASSUME NEW k \in T PROVE k + 1 \in T
    <3> SUFFICES ASSUME k + 1 <= n PROVE u[k + 1] = w[k + 1]
      OBVIOUS
    <3>1. k \in Nat /\ k \in 0..n /\ k + 1 \in 1..n /\ (k + 1) - 1 = k
      OBVIOUS
    <3>2. u[k] = w[k] /\ w[k] \in X
      BY <1>5, <3>1
    <3> QED
      BY <1>6, <1>7, <3>1, <3>2
  <2> HIDE DEF T
  <2>3. T \subseteq Nat
    BY DEF T
  <2>4. T = Nat
    BY <2>1, <2>2, <2>3, NatSet
  <2> QED
    BY <2>4 DEF T
<1> QED
  BY <1>5, <1>6, <1>7 DEF Unrolled, Only

(* What is reached in d + 1 steps is what is reached in d, and one step on.  *)
LEMMA WithinLayers ==
  ASSUME NEW U, NEW S \in SUBSET U, NEW next, \A u \in U : next[u] \in SUBSET U
  PROVE  /\ Within(S, next)[0] = S
         /\ \A d \in Nat :
              /\ Within(S, next)[d] \in SUBSET U
              /\ Within(S, next)[d + 1] =
                    Within(S, next)[d] \cup UNION {next[g] : g \in Within(S, next)[d]}
<1> DEFINE On(W) == W \cup UNION {next[g] : g \in W}
           F == [x \in Nat \X SUBSET U |-> On(x[2])]
           IsLayers(l) == l = [d \in Nat |-> IF d = 0 THEN S ELSE On(l[d - 1])]
<1>1. \A W \in SUBSET U : On(W) \in SUBSET U
  OBVIOUS
<1> HIDE DEF On
<1>2. F \in [Nat \X SUBSET U -> SUBSET U] /\ \A d \in Nat, W \in SUBSET U : F[<<d, W>>] = On(W)
  BY <1>1
<1>3. PICK l : l \in [Nat -> SUBSET U] /\ l[0] = S /\ \A d \in Nat : l[d + 1] = F[<<d, l[d]>>]
  <2>1. Stepping(SUBSET U, S, F)
    BY <1>2 DEF Stepping
  <2> HIDE DEF F
  <2>2. \E l : Iterated(l, SUBSET U, S, F)
    BY <2>1, Iterates
  <2> QED
    BY <2>2 DEF Iterated
<1>4. IsLayers(l)
  <2>1. ASSUME NEW d \in Nat PROVE l[d] = IF d = 0 THEN S ELSE On(l[d - 1])
    <3>1. CASE d = 0
      BY <1>3, <3>1
    <3>2. CASE d # 0
      <4>1. d - 1 \in Nat /\ (d - 1) + 1 = d
        BY <3>2
      <4>2. l[d] = F[<<d - 1, l[d - 1]>>] /\ l[d - 1] \in SUBSET U
        BY <1>3, <4>1
      <4> HIDE DEF F
      <4> QED
        BY <1>2, <3>2, <4>1, <4>2
    <3> QED
      BY <3>1, <3>2
  <2> QED
    BY <1>3, <2>1
<1>5. Within(S, next) = CHOOSE k : IsLayers(k)
  BY DEF Within, On
<1>6. IsLayers(Within(S, next))
  <2> HIDE DEF IsLayers
  <2> QED
    BY <1>4, <1>5
<1> DEFINE w == Within(S, next)
<1> HIDE DEF w
<1>7. w = [d \in Nat |-> IF d = 0 THEN S ELSE On(w[d - 1])]
  BY <1>6 DEF w
<1>8. w[0] = S /\ \A d \in Nat : w[d + 1] = On(w[d])
  BY <1>7
<1>9. \A d \in Nat : w[d] \in SUBSET U
  <2> DEFINE T == {d \in Nat : w[d] \in SUBSET U}
  <2>1. 0 \in T
    BY <1>8
  <2>2. \A d \in T : d + 1 \in T
    BY <1>1, <1>8
  <2> HIDE DEF T
  <2>3. T \subseteq Nat
    BY DEF T
  <2>4. T = Nat
    BY <2>1, <2>2, <2>3, NatSet
  <2> QED
    BY <2>4 DEF T
<1> QED
  BY <1>8, <1>9 DEF w, On

-----------------------------------------------------------------------------
(* Which pass sets what.                                                   *)

(* Each pass has a name of its own, and so its turn.                       *)
LEMMA Numbered ==
  /\ Turn("nodes") => pass = 1 /\ pass' = 2
  /\ Turn("storage_mutations") => pass = 2 /\ pass' = 3
  /\ Turn("propagate_writes") => pass = 3 /\ pass' = 4
  /\ Turn("reachability") => pass = 4 /\ pass' = 5
  /\ Turn("access_control") => pass = 5 /\ pass' = 6
  /\ Turn("external_calls") => pass = 6 /\ pass' = 7
  /\ Turn("oracle") => pass = 7 /\ pass' = 8
  /\ Turn("flash_loan") => pass = 8 /\ pass' = 9
  /\ Turn("arithmetic") => pass = 9 /\ pass' = 10
  /\ Turn("signature") => pass = 10 /\ pass' = 11
  /\ Turn("reentrancy") => pass = 11 /\ pass' = 12
  /\ Turn("read_only") => pass = 12 /\ pass' = 13
  /\ Turn("roles") => pass = 13 /\ pass' = 14
  /\ Turn("unprotected") => pass = 14 /\ pass' = 15
  /\ Turn("reverse_mapping") => pass = 15 /\ pass' = 16
  /\ Turn("escalation") => pass = 16 /\ pass' = 17
  /\ Turn("state_transitions") => pass = 17 /\ pass' = 18
  /\ Turn("delegatecall") => pass = 18 /\ pass' = 19
  /\ Turn("tiers") => pass = 19 /\ pass' = 20
  /\ Turn("modifier_equivalence") => pass = 20 /\ pass' = 21
  /\ Turn("initializer") => pass = 21 /\ pass' = 22
  /\ Turn("require_ac") => pass = 22 /\ pass' = 23
  /\ Turn("guard_calls") => pass = 23 /\ pass' = 24
  /\ Turn("role_registry") => pass = 24 /\ pass' = 25
  /\ Turn("ssa") => pass = 25 /\ pass' = 26
  /\ Turn("governance") => pass = 26 /\ pass' = 27
  /\ Turn("recompute") => pass = 27 /\ pass' = 28
  /\ Turn("sensitivity") => pass = 28 /\ pass' = 29
  /\ Turn("taint") => pass = 29 /\ pass' = 30
  /\ Turn("dependencies") => pass = 30 /\ pass' = 31
  /\ Turn("sequences") => pass = 31 /\ pass' = 32
  /\ Turn("chains") => pass = 32 /\ pass' = 33
  /\ Turn("accounting") => pass = 33 /\ pass' = 34
  /\ Turn("external_risk") => pass = 34 /\ pass' = 35
  /\ Turn("safety") => pass = 35 /\ pass' = 36
  /\ Turn("scores") => pass = 36 /\ pass' = 37
  /\ Turn("targets") => pass = 37 /\ pass' = 38
  /\ Turn("hotspots") => pass = 38 /\ pass' = 39
<1>1. \A i \in DOMAIN Passes :
         /\ Passes[i] = "nodes" => i = 1
         /\ Passes[i] = "storage_mutations" => i = 2
         /\ Passes[i] = "propagate_writes" => i = 3
         /\ Passes[i] = "reachability" => i = 4
         /\ Passes[i] = "access_control" => i = 5
         /\ Passes[i] = "external_calls" => i = 6
         /\ Passes[i] = "oracle" => i = 7
         /\ Passes[i] = "flash_loan" => i = 8
         /\ Passes[i] = "arithmetic" => i = 9
         /\ Passes[i] = "signature" => i = 10
         /\ Passes[i] = "reentrancy" => i = 11
         /\ Passes[i] = "read_only" => i = 12
         /\ Passes[i] = "roles" => i = 13
         /\ Passes[i] = "unprotected" => i = 14
         /\ Passes[i] = "reverse_mapping" => i = 15
         /\ Passes[i] = "escalation" => i = 16
         /\ Passes[i] = "state_transitions" => i = 17
         /\ Passes[i] = "delegatecall" => i = 18
         /\ Passes[i] = "tiers" => i = 19
         /\ Passes[i] = "modifier_equivalence" => i = 20
         /\ Passes[i] = "initializer" => i = 21
         /\ Passes[i] = "require_ac" => i = 22
         /\ Passes[i] = "guard_calls" => i = 23
         /\ Passes[i] = "role_registry" => i = 24
         /\ Passes[i] = "ssa" => i = 25
         /\ Passes[i] = "governance" => i = 26
         /\ Passes[i] = "recompute" => i = 27
         /\ Passes[i] = "sensitivity" => i = 28
         /\ Passes[i] = "taint" => i = 29
         /\ Passes[i] = "dependencies" => i = 30
         /\ Passes[i] = "sequences" => i = 31
         /\ Passes[i] = "chains" => i = 32
         /\ Passes[i] = "accounting" => i = 33
         /\ Passes[i] = "external_risk" => i = 34
         /\ Passes[i] = "safety" => i = 35
         /\ Passes[i] = "scores" => i = 36
         /\ Passes[i] = "targets" => i = 37
         /\ Passes[i] = "hotspots" => i = 38
  BY DEF Passes
<1> QED
  BY <1>1 DEF Turn

FnAttributes ==
  {"reachableCross", "direct", "propagated", "indirect", "depth",
   "entries", "hasAC", "acMods", "inline", "protected", "conf", "acType",
   "guardCall", "roleGuard", "unprotected", "level", "escalate",
   "initGuard", "initMod", "safeInit", "reGuard", "design", "extEdges",
   "cei", "ceiReentrant", "reentrancy", "ceiOnly", "readOnly",
   "lengthMutation", "delegateRisk", "sources", "tainted",
   "taintedWrites", "taintMath", "unchecked", "taintRisks", "taintScore",
   "crossPaths", "deps", "sequences", "seqScore", "temporal", "chains",
   "chainEntry", "longest", "oracle", "flash", "arith", "replay", "issues",
   "accounting", "violations", "extTags", "extScore", "sensitiveStore",
   "strict", "safety", "structural", "exploitability", "impact", "final",
   "risk", "categories", "target", "viable", "send"}

SvAttributes ==
  {"roles", "writers", "escalation", "risky", "tags", "tainted", "taintedBy", "role"}

CtAttributes == {"roles", "tier", "governance", "ssa"}

(* The attributes of the functions, variables and contracts that each pass *)
(* assigns, in the order of the passes.                                    *)
FnSet ==
  <<FnAttributes, {"direct"}, {"propagated", "indirect", "depth"},
    {"entries"}, {"hasAC", "acMods", "inline", "protected", "conf"},
    {"extEdges", "cei", "ceiReentrant"}, {"oracle", "risk", "categories"},
    {"flash"}, {"arith", "risk", "categories"}, {"replay", "risk",
    "categories"}, {"reentrancy", "ceiOnly"}, {"readOnly"}, {},
    {"unprotected", "level"}, {}, {"escalate"}, {"lengthMutation"},
    {"delegateRisk"}, {}, {"reGuard", "initMod"}, {"initGuard",
    "safeInit", "unprotected", "level", "protected"}, {"protected",
    "inline", "acType"}, {"protected", "conf", "acType", "guardCall"},
    {"protected", "conf", "acType", "roleGuard"}, {"conf"}, {"design"},
    {"unprotected", "level"}, {}, {"sources", "tainted", "taintedWrites",
    "taintMath", "unchecked", "taintRisks", "taintScore", "crossPaths"},
    {"deps"}, {"sequences", "seqScore"}, {"chains", "chainEntry",
    "longest", "sequences", "temporal"}, {"issues", "violations", "accounting"}, {"extTags",
    "extScore"}, {"sensitiveStore", "strict", "safety"}, {"structural",
    "exploitability", "impact", "final", "risk", "categories"}, {"target",
    "viable", "send"}, {}>>

SvSet ==
  <<SvAttributes, {}, {}, {}, {}, {}, {}, {}, {}, {}, {}, {}, {}, {},
    {"roles", "writers"}, {"escalation", "risky"}, {}, {}, {}, {}, {}, {},
    {}, {}, {}, {}, {}, {"tags"}, {"tainted", "taintedBy"}, {}, {}, {},
    {"role"}, {}, {}, {}, {}, {}>>

CtSet ==
  <<CtAttributes, {}, {}, {}, {}, {}, {}, {}, {}, {}, {}, {}, {"roles"},
    {}, {}, {}, {}, {}, {"tier"}, {}, {}, {}, {}, {}, {"ssa"},
    {"governance"}, {}, {}, {}, {}, {}, {}, {}, {}, {}, {}, {}, {}>>

Shape ==
    /\ DOMAIN fn = Fns /\ DOMAIN sv = Svs /\ DOMAIN ct = Contracts
    /\ \A f \in Fns : DOMAIN fn[f] = FnAttributes
    /\ \A v \in Svs : DOMAIN sv[v] = SvAttributes
    /\ \A c \in Contracts : DOMAIN ct[c] = CtAttributes

FnOnly(C) ==
    /\ DOMAIN fn' = Fns
    /\ \A f \in Fns : /\ DOMAIN fn'[f] = FnAttributes
                      /\ \A a \in FnAttributes \ C : fn'[f][a] = fn[f][a]
SvOnly(C) ==
    /\ DOMAIN sv' = Svs
    /\ \A v \in Svs : /\ DOMAIN sv'[v] = SvAttributes
                      /\ \A a \in SvAttributes \ C : sv'[v][a] = sv[v][a]
CtOnly(C) ==
    /\ DOMAIN ct' = Contracts
    /\ \A c \in Contracts : /\ DOMAIN ct'[c] = CtAttributes
                            /\ \A a \in CtAttributes \ C : ct'[c][a] = ct[c][a]

(* Step k of build_graph changes no more than what it assigns.             *)
Sets(k) ==
    /\ pass = k /\ pass' = k + 1 /\ prog' = prog
    /\ FnOnly(FnSet[k]) /\ SvOnly(SvSet[k]) /\ CtOnly(CtSet[k])
    /\ k \notin {1, 6, 30} => rel' = rel

LEMMA LeftAlone ==
  ASSUME Shape, prog' = prog
  PROVE  /\ fn' = fn => FnOnly({})
         /\ sv' = sv => SvOnly({})
         /\ ct' = ct => CtOnly({})
  BY DEF Shape, FnOnly, SvOnly, CtOnly

LEMMA Updates ==
  ASSUME NEW a, NEW conf, NEW type
  PROVE  /\ DOMAIN Update(a, conf, type) = DOMAIN a
         /\ \A x \in DOMAIN a \ {"protected", "conf", "acType"} : Update(a, conf, type)[x] = a[x]
  BY DEF Update

LEMMA NothingSet ==
  /\ FnSet[13] = {} /\ FnSet[15] = {} /\ FnSet[19] = {} /\ FnSet[28] = {} /\ FnSet[38] = {}
  /\ \A k \in 1..38 \ {1, 15, 16, 28, 29, 33} : SvSet[k] = {}
  /\ \A k \in 1..38 \ {1, 13, 19, 25, 26} : CtSet[k] = {}
<1>1. /\ FnSet[13] = {} /\ FnSet[15] = {} /\ FnSet[19] = {} /\ FnSet[28] = {} /\ FnSet[38] = {}
  BY DEF FnSet
<1>2. \A k \in 1..38 \ {1, 15, 16, 28, 29, 33} : SvSet[k] = {}
  BY DEF SvSet
<1>3. \A k \in 1..38 \ {1, 13, 19, 25, 26} : CtSet[k] = {}
  BY DEF CtSet
<1> QED
  BY <1>1, <1>2, <1>3

LEMMA StepBy ==
  ASSUME Shape, NEW k \in 1..38, pass = k, pass' = k + 1, prog' = prog,
         k \notin {1, 6, 30} => rel' = rel,
         FnOnly(FnSet[k]) \/ (fn' = fn /\ FnSet[k] = {}),
         SvOnly(SvSet[k]) \/ (sv' = sv /\ SvSet[k] = {}),
         CtOnly(CtSet[k]) \/ (ct' = ct /\ CtSet[k] = {})
  PROVE  pass \in 1..38 /\ Sets(pass)
  BY LeftAlone DEF Sets

LEMMA Frame ==
  ASSUME Shape, Next
  PROVE  pass \in 1..38 /\ Sets(pass)
<1>1. CASE AddNodes
  <2>1. /\ Turn("nodes") /\ prog' = prog
    BY <1>1 DEF AddNodes
  <2>2. pass = 1 /\ pass' = 2
    BY <2>1, Numbered
  <2>3. FnOnly(FnSet[1])
    BY <1>1, <2>1 DEF AddNodes, FnOnly, FnSet, Shape, NewFn, FnAttributes
  <2>4. SvOnly(SvSet[1])
    BY <1>1, <2>1 DEF AddNodes, SvOnly, SvSet, Shape, NewSv, SvAttributes
  <2>5. CtOnly(CtSet[1])
    BY <1>1, <2>1 DEF AddNodes, CtOnly, CtSet, Shape, NewCt, CtAttributes
  <2> QED
    BY <2>1, <2>2, <2>3, <2>4, <2>5, StepBy
<1>2. CASE StorageMutations
  <2>1. /\ Turn("storage_mutations") /\ prog' = prog
        /\ sv' = sv /\ ct' = ct /\ rel' = rel
    BY <1>2 DEF StorageMutations, FnPass
  <2>2. pass = 2 /\ pass' = 3
    BY <2>1, Numbered
  <2>3. FnOnly(FnSet[2])
    BY <1>2, <2>1 DEF StorageMutations, FnPass, FnOnly, FnSet, Shape
  <2> QED
    BY <2>1, <2>2, <2>3, NothingSet, StepBy
<1>3. CASE PropagateWrites
  <2>1. /\ Turn("propagate_writes") /\ prog' = prog
        /\ sv' = sv /\ ct' = ct /\ rel' = rel
    BY <1>3 DEF PropagateWrites, FnPass
  <2>2. pass = 3 /\ pass' = 4
    BY <2>1, Numbered
  <2>3. FnOnly(FnSet[3])
    BY <1>3, <2>1 DEF PropagateWrites, FnPass, FnOnly, FnSet, Shape
  <2> QED
    BY <2>1, <2>2, <2>3, NothingSet, StepBy
<1>4. CASE Reachability
  <2>1. /\ Turn("reachability") /\ prog' = prog
        /\ sv' = sv /\ ct' = ct /\ rel' = rel
    BY <1>4 DEF Reachability, FnPass
  <2>2. pass = 4 /\ pass' = 5
    BY <2>1, Numbered
  <2>3. FnOnly(FnSet[4])
    BY <1>4, <2>1 DEF Reachability, FnPass, FnOnly, FnSet, Shape
  <2> QED
    BY <2>1, <2>2, <2>3, NothingSet, StepBy
<1>5. CASE AccessControl
  <2>1. /\ Turn("access_control") /\ prog' = prog
        /\ sv' = sv /\ ct' = ct /\ rel' = rel
    BY <1>5 DEF AccessControl, FnPass
  <2>2. pass = 5 /\ pass' = 6
    BY <2>1, Numbered
  <2>3. FnOnly(FnSet[5])
    BY <1>5, <2>1 DEF AccessControl, FnPass, FnOnly, FnSet, Shape
  <2> QED
    BY <2>1, <2>2, <2>3, NothingSet, StepBy
<1>6. CASE ExternalCalls
  <2>1. /\ Turn("external_calls") /\ prog' = prog
        /\ sv' = sv /\ ct' = ct
    BY <1>6 DEF ExternalCalls
  <2>2. pass = 6 /\ pass' = 7
    BY <2>1, Numbered
  <2>3. FnOnly(FnSet[6])
    BY <1>6, <2>1 DEF ExternalCalls, FnOnly, FnSet, Shape
  <2> QED
    BY <2>1, <2>2, <2>3, NothingSet, StepBy
<1>7. CASE OraclePatterns
  <2>1. /\ Turn("oracle") /\ prog' = prog
        /\ sv' = sv /\ ct' = ct /\ rel' = rel
    BY <1>7 DEF OraclePatterns, FnPass
  <2>2. pass = 7 /\ pass' = 8
    BY <2>1, Numbered
  <2>3. FnOnly(FnSet[7])
    BY <1>7, <2>1 DEF OraclePatterns, FnPass, FnOnly, FnSet, Shape, Raise
  <2> QED
    BY <2>1, <2>2, <2>3, NothingSet, StepBy
<1>8. CASE FlashLoan
  <2>1. /\ Turn("flash_loan") /\ prog' = prog
        /\ sv' = sv /\ ct' = ct /\ rel' = rel
    BY <1>8 DEF FlashLoan, FnPass
  <2>2. pass = 8 /\ pass' = 9
    BY <2>1, Numbered
  <2>3. FnOnly(FnSet[8])
    BY <1>8, <2>1 DEF FlashLoan, FnPass, FnOnly, FnSet, Shape
  <2> QED
    BY <2>1, <2>2, <2>3, NothingSet, StepBy
<1>9. CASE ArithmeticPatterns
  <2>1. /\ Turn("arithmetic") /\ prog' = prog
        /\ sv' = sv /\ ct' = ct /\ rel' = rel
    BY <1>9 DEF ArithmeticPatterns, FnPass
  <2>2. pass = 9 /\ pass' = 10
    BY <2>1, Numbered
  <2>3. FnOnly(FnSet[9])
    BY <1>9, <2>1 DEF ArithmeticPatterns, FnPass, FnOnly, FnSet, Shape, Raise
  <2> QED
    BY <2>1, <2>2, <2>3, NothingSet, StepBy
<1>10. CASE SignaturePatterns
  <2>1. /\ Turn("signature") /\ prog' = prog
        /\ sv' = sv /\ ct' = ct /\ rel' = rel
    BY <1>10 DEF SignaturePatterns, FnPass
  <2>2. pass = 10 /\ pass' = 11
    BY <2>1, Numbered
  <2>3. FnOnly(FnSet[10])
    BY <1>10, <2>1 DEF SignaturePatterns, FnPass, FnOnly, FnSet, Shape, Raise
  <2> QED
    BY <2>1, <2>2, <2>3, NothingSet, StepBy
<1>11. CASE ReentrancyRisks
  <2>1. /\ Turn("reentrancy") /\ prog' = prog
        /\ sv' = sv /\ ct' = ct /\ rel' = rel
    BY <1>11 DEF ReentrancyRisks, FnPass
  <2>2. pass = 11 /\ pass' = 12
    BY <2>1, Numbered
  <2>3. FnOnly(FnSet[11])
    BY <1>11, <2>1 DEF ReentrancyRisks, FnPass, FnOnly, FnSet, Shape
  <2> QED
    BY <2>1, <2>2, <2>3, NothingSet, StepBy
<1>12. CASE ReadOnlyReentrancy
  <2>1. /\ Turn("read_only") /\ prog' = prog
        /\ sv' = sv /\ ct' = ct /\ rel' = rel
    BY <1>12 DEF ReadOnlyReentrancy, FnPass
  <2>2. pass = 12 /\ pass' = 13
    BY <2>1, Numbered
  <2>3. FnOnly(FnSet[12])
    BY <1>12, <2>1 DEF ReadOnlyReentrancy, FnPass, FnOnly, FnSet, Shape
  <2> QED
    BY <2>1, <2>2, <2>3, NothingSet, StepBy
<1>13. CASE PrivilegedRoles
  <2>1. /\ Turn("roles") /\ prog' = prog
        /\ fn' = fn /\ sv' = sv /\ rel' = rel
    BY <1>13 DEF PrivilegedRoles, CtPass
  <2>2. pass = 13 /\ pass' = 14
    BY <2>1, Numbered
  <2>3. CtOnly(CtSet[13])
    BY <1>13, <2>1 DEF PrivilegedRoles, CtPass, CtOnly, CtSet, Shape
  <2> QED
    BY <2>1, <2>2, <2>3, NothingSet, StepBy
<1>14. CASE UnprotectedMutators
  <2>1. /\ Turn("unprotected") /\ prog' = prog
        /\ sv' = sv /\ ct' = ct /\ rel' = rel
    BY <1>14 DEF UnprotectedMutators, FnPass
  <2>2. pass = 14 /\ pass' = 15
    BY <2>1, Numbered
  <2>3. FnOnly(FnSet[14])
    BY <1>14, <2>1 DEF UnprotectedMutators, FnPass, FnOnly, FnSet, Shape
  <2> QED
    BY <2>1, <2>2, <2>3, NothingSet, StepBy
<1>15. CASE ReverseMapping
  <2>1. /\ Turn("reverse_mapping") /\ prog' = prog
        /\ fn' = fn /\ ct' = ct /\ rel' = rel
    BY <1>15 DEF ReverseMapping, SvPass
  <2>2. pass = 15 /\ pass' = 16
    BY <2>1, Numbered
  <2>3. SvOnly(SvSet[15])
    BY <1>15, <2>1 DEF ReverseMapping, SvPass, SvOnly, SvSet, Shape
  <2> QED
    BY <2>1, <2>2, <2>3, NothingSet, StepBy
<1>16. CASE Escalation
  <2>1. /\ Turn("escalation") /\ prog' = prog
        /\ ct' = ct /\ rel' = rel
    BY <1>16 DEF Escalation
  <2>2. pass = 16 /\ pass' = 17
    BY <2>1, Numbered
  <2>3. FnOnly(FnSet[16])
    BY <1>16, <2>1 DEF Escalation, FnOnly, FnSet, Shape
  <2>4. SvOnly(SvSet[16])
    BY <1>16, <2>1 DEF Escalation, SvOnly, SvSet, Shape
  <2> QED
    BY <2>1, <2>2, <2>3, <2>4, NothingSet, StepBy
<1>17. CASE StateTransitions
  <2>1. /\ Turn("state_transitions") /\ prog' = prog
        /\ sv' = sv /\ ct' = ct /\ rel' = rel
    BY <1>17 DEF StateTransitions, FnPass
  <2>2. pass = 17 /\ pass' = 18
    BY <2>1, Numbered
  <2>3. FnOnly(FnSet[17])
    BY <1>17, <2>1 DEF StateTransitions, FnPass, FnOnly, FnSet, Shape
  <2> QED
    BY <2>1, <2>2, <2>3, NothingSet, StepBy
<1>18. CASE DelegatecallRisk
  <2>1. /\ Turn("delegatecall") /\ prog' = prog
        /\ sv' = sv /\ ct' = ct /\ rel' = rel
    BY <1>18 DEF DelegatecallRisk, FnPass
  <2>2. pass = 18 /\ pass' = 19
    BY <2>1, Numbered
  <2>3. FnOnly(FnSet[18])
    BY <1>18, <2>1 DEF DelegatecallRisk, FnPass, FnOnly, FnSet, Shape
  <2> QED
    BY <2>1, <2>2, <2>3, NothingSet, StepBy
<1>19. CASE ContractTiers
  <2>1. /\ Turn("tiers") /\ prog' = prog
        /\ fn' = fn /\ sv' = sv /\ rel' = rel
    BY <1>19 DEF ContractTiers, CtPass
  <2>2. pass = 19 /\ pass' = 20
    BY <2>1, Numbered
  <2>3. CtOnly(CtSet[19])
    BY <1>19, <2>1 DEF ContractTiers, CtPass, CtOnly, CtSet, Shape
  <2> QED
    BY <2>1, <2>2, <2>3, NothingSet, StepBy
<1>20. CASE ModifierEquivalence
  <2>1. /\ Turn("modifier_equivalence") /\ prog' = prog
        /\ sv' = sv /\ ct' = ct /\ rel' = rel
    BY <1>20 DEF ModifierEquivalence, FnPass
  <2>2. pass = 20 /\ pass' = 21
    BY <2>1, Numbered
  <2>3. FnOnly(FnSet[20])
    BY <1>20, <2>1 DEF ModifierEquivalence, FnPass, FnOnly, FnSet, Shape
  <2> QED
    BY <2>1, <2>2, <2>3, NothingSet, StepBy
<1>21. CASE Initializer
  <2>1. /\ Turn("initializer") /\ prog' = prog
        /\ sv' = sv /\ ct' = ct /\ rel' = rel
    BY <1>21 DEF Initializer, FnPass
  <2>2. pass = 21 /\ pass' = 22
    BY <2>1, Numbered
  <2>3. FnOnly(FnSet[21])
    BY <1>21, <2>1 DEF Initializer, FnPass, FnOnly, FnSet, Shape, Clear
  <2> QED
    BY <2>1, <2>2, <2>3, NothingSet, StepBy
<1>22. CASE RequireAccess
  <2>1. /\ Turn("require_ac") /\ prog' = prog
        /\ sv' = sv /\ ct' = ct /\ rel' = rel
    BY <1>22 DEF RequireAccess, FnPass
  <2>2. pass = 22 /\ pass' = 23
    BY <2>1, Numbered
  <2>3. FnOnly(FnSet[22])
    BY <1>22, <2>1 DEF RequireAccess, FnPass, FnOnly, FnSet, Shape
  <2> QED
    BY <2>1, <2>2, <2>3, NothingSet, StepBy
<1>23. CASE GuardCalls
  <2>1. /\ Turn("guard_calls") /\ prog' = prog
        /\ sv' = sv /\ ct' = ct /\ rel' = rel
    BY <1>23 DEF GuardCalls, FnPass
  <2>2. pass = 23 /\ pass' = 24
    BY <2>1, Numbered
  <2>3. FnOnly(FnSet[23])
    BY <1>23, <2>1, Updates DEF GuardCalls, FnPass, FnOnly, FnSet, Shape
  <2> QED
    BY <2>1, <2>2, <2>3, NothingSet, StepBy
<1>24. CASE RoleRegistry
  <2>1. /\ Turn("role_registry") /\ prog' = prog
        /\ sv' = sv /\ ct' = ct /\ rel' = rel
    BY <1>24 DEF RoleRegistry, FnPass
  <2>2. pass = 24 /\ pass' = 25
    BY <2>1, Numbered
  <2>3. FnOnly(FnSet[24])
    BY <1>24, <2>1, Updates DEF RoleRegistry, FnPass, FnOnly, FnSet, Shape
  <2> QED
    BY <2>1, <2>2, <2>3, NothingSet, StepBy
<1>25. CASE SsaDampening
  <2>1. /\ Turn("ssa") /\ prog' = prog
        /\ sv' = sv /\ rel' = rel
    BY <1>25 DEF SsaDampening
  <2>2. pass = 25 /\ pass' = 26
    BY <2>1, Numbered
  <2>3. FnOnly(FnSet[25])
    BY <1>25, <2>1 DEF SsaDampening, FnOnly, FnSet, Shape
  <2>4. CtOnly(CtSet[25])
    BY <1>25, <2>1 DEF SsaDampening, CtOnly, CtSet, Shape
  <2> QED
    BY <2>1, <2>2, <2>3, <2>4, NothingSet, StepBy
<1>26. CASE Governance
  <2>1. /\ Turn("governance") /\ prog' = prog
        /\ sv' = sv /\ rel' = rel
    BY <1>26 DEF Governance
  <2>2. pass = 26 /\ pass' = 27
    BY <2>1, Numbered
  <2>3. FnOnly(FnSet[26])
    BY <1>26, <2>1 DEF Governance, FnOnly, FnSet, Shape
  <2>4. CtOnly(CtSet[26])
    BY <1>26, <2>1 DEF Governance, CtOnly, CtSet, Shape
  <2> QED
    BY <2>1, <2>2, <2>3, <2>4, NothingSet, StepBy
<1>27. CASE RecomputeUnprotected
  <2>1. /\ Turn("recompute") /\ prog' = prog
        /\ sv' = sv /\ ct' = ct /\ rel' = rel
    BY <1>27 DEF RecomputeUnprotected, FnPass
  <2>2. pass = 27 /\ pass' = 28
    BY <2>1, Numbered
  <2>3. FnOnly(FnSet[27])
    BY <1>27, <2>1 DEF RecomputeUnprotected, FnPass, FnOnly, FnSet, Shape, Clear
  <2> QED
    BY <2>1, <2>2, <2>3, NothingSet, StepBy
<1>28. CASE Sensitivity
  <2>1. /\ Turn("sensitivity") /\ prog' = prog
        /\ fn' = fn /\ ct' = ct /\ rel' = rel
    BY <1>28 DEF Sensitivity, SvPass
  <2>2. pass = 28 /\ pass' = 29
    BY <2>1, Numbered
  <2>3. SvOnly(SvSet[28])
    BY <1>28, <2>1 DEF Sensitivity, SvPass, SvOnly, SvSet, Shape
  <2> QED
    BY <2>1, <2>2, <2>3, NothingSet, StepBy
<1>29. CASE Taint
  <2>1. /\ Turn("taint") /\ prog' = prog
        /\ ct' = ct /\ rel' = rel
    BY <1>29 DEF Taint
  <2>2. pass = 29 /\ pass' = 30
    BY <2>1, Numbered
  <2>3. FnOnly(FnSet[29])
    BY <1>29, <2>1 DEF Taint, FnOnly, FnSet, Shape
  <2>4. SvOnly(SvSet[29])
    BY <1>29, <2>1 DEF Taint, SvOnly, SvSet, Shape
  <2> QED
    BY <2>1, <2>2, <2>3, <2>4, NothingSet, StepBy
<1>30. CASE Dependencies
  <2>1. /\ Turn("dependencies") /\ prog' = prog
        /\ sv' = sv /\ ct' = ct
    BY <1>30 DEF Dependencies
  <2>2. pass = 30 /\ pass' = 31
    BY <2>1, Numbered
  <2>3. FnOnly(FnSet[30])
    BY <1>30, <2>1 DEF Dependencies, FnOnly, FnSet, Shape
  <2> QED
    BY <2>1, <2>2, <2>3, NothingSet, StepBy
<1>31. CASE DangerousSequences
  <2>1. /\ Turn("sequences") /\ prog' = prog
        /\ sv' = sv /\ ct' = ct /\ rel' = rel
    BY <1>31 DEF DangerousSequences, FnPass
  <2>2. pass = 31 /\ pass' = 32
    BY <2>1, Numbered
  <2>3. FnOnly(FnSet[31])
    BY <1>31, <2>1 DEF DangerousSequences, FnPass, FnOnly, FnSet, Shape
  <2> QED
    BY <2>1, <2>2, <2>3, NothingSet, StepBy
<1>32. CASE ExploitChains
  <2>1. /\ Turn("chains") /\ prog' = prog
        /\ sv' = sv /\ ct' = ct /\ rel' = rel
    BY <1>32 DEF ExploitChains, FnPass
  <2>2. pass = 32 /\ pass' = 33
    BY <2>1, Numbered
  <2>3. FnOnly(FnSet[32])
    BY <1>32, <2>1 DEF ExploitChains, FnPass, FnOnly, FnSet, Shape
  <2> QED
    BY <2>1, <2>2, <2>3, NothingSet, StepBy
<1>33. CASE Accounting
  <2>1. /\ Turn("accounting") /\ prog' = prog
        /\ ct' = ct /\ rel' = rel
    BY <1>33 DEF Accounting
  <2>2. pass = 33 /\ pass' = 34
    BY <2>1, Numbered
  <2>3. FnOnly(FnSet[33])
    BY <1>33, <2>1 DEF Accounting, FnOnly, FnSet, Shape
  <2>4. SvOnly(SvSet[33])
    BY <1>33, <2>1 DEF Accounting, SvOnly, SvSet, Shape
  <2> QED
    BY <2>1, <2>2, <2>3, <2>4, NothingSet, StepBy
<1>34. CASE ExternalCallRisks
  <2>1. /\ Turn("external_risk") /\ prog' = prog
        /\ sv' = sv /\ ct' = ct /\ rel' = rel
    BY <1>34 DEF ExternalCallRisks, FnPass
  <2>2. pass = 34 /\ pass' = 35
    BY <2>1, Numbered
  <2>3. FnOnly(FnSet[34])
    BY <1>34, <2>1 DEF ExternalCallRisks, FnPass, FnOnly, FnSet, Shape
  <2> QED
    BY <2>1, <2>2, <2>3, NothingSet, StepBy
<1>35. CASE NegativeSafety
  <2>1. /\ Turn("safety") /\ prog' = prog
        /\ sv' = sv /\ ct' = ct /\ rel' = rel
    BY <1>35 DEF NegativeSafety, FnPass
  <2>2. pass = 35 /\ pass' = 36
    BY <2>1, Numbered
  <2>3. FnOnly(FnSet[35])
    BY <1>35, <2>1 DEF NegativeSafety, FnPass, FnOnly, FnSet, Shape
  <2> QED
    BY <2>1, <2>2, <2>3, NothingSet, StepBy
<1>36. CASE RiskScores
  <2>1. /\ Turn("scores") /\ prog' = prog
        /\ sv' = sv /\ ct' = ct /\ rel' = rel
    BY <1>36 DEF RiskScores, FnPass
  <2>2. pass = 36 /\ pass' = 37
    BY <2>1, Numbered
  <2>3. FnOnly(FnSet[36])
    BY <1>36, <2>1 DEF RiskScores, FnPass, FnOnly, FnSet, Shape
  <2> QED
    BY <2>1, <2>2, <2>3, NothingSet, StepBy
<1>37. CASE ExploitTargets
  <2>1. /\ Turn("targets") /\ prog' = prog
        /\ sv' = sv /\ ct' = ct /\ rel' = rel
    BY <1>37 DEF ExploitTargets, FnPass
  <2>2. pass = 37 /\ pass' = 38
    BY <2>1, Numbered
  <2>3. FnOnly(FnSet[37])
    BY <1>37, <2>1 DEF ExploitTargets, FnPass, FnOnly, FnSet, Shape
  <2> QED
    BY <2>1, <2>2, <2>3, NothingSet, StepBy
<1>38. CASE AskHotspots
  <2>1. /\ Turn("hotspots") /\ prog' = prog
        /\ fn' = fn /\ sv' = sv /\ ct' = ct /\ rel' = rel
    BY <1>38 DEF AskHotspots
  <2>2. pass = 38 /\ pass' = 39
    BY <2>1, Numbered
  <2> QED
    BY <2>1, <2>2, NothingSet, StepBy
<1> QED
  BY <1>1, <1>2, <1>3, <1>4, <1>5, <1>6, <1>7, <1>8, <1>9, <1>10, <1>11, <1>12, <1>13, <1>14, <1>15, <1>16, <1>17, <1>18, <1>19, <1>20, <1>21, <1>22, <1>23, <1>24, <1>25, <1>26, <1>27, <1>28, <1>29, <1>30, <1>31, <1>32, <1>33, <1>34, <1>35, <1>36, <1>37, <1>38 DEF Next, BuildGraph

(* What step k of build_graph is. *)
LEMMA Acts ==
  ASSUME Next
  PROVE  /\ pass = 1 => AddNodes
         /\ pass = 2 => StorageMutations
         /\ pass = 3 => PropagateWrites
         /\ pass = 4 => Reachability
         /\ pass = 5 => AccessControl
         /\ pass = 6 => ExternalCalls
         /\ pass = 8 => FlashLoan
         /\ pass = 11 => ReentrancyRisks
         /\ pass = 12 => ReadOnlyReentrancy
         /\ pass = 13 => PrivilegedRoles
         /\ pass = 14 => UnprotectedMutators
         /\ pass = 15 => ReverseMapping
         /\ pass = 16 => Escalation
         /\ pass = 17 => StateTransitions
         /\ pass = 18 => DelegatecallRisk
         /\ pass = 20 => ModifierEquivalence
         /\ pass = 21 => Initializer
         /\ pass = 22 => RequireAccess
         /\ pass = 23 => GuardCalls
         /\ pass = 24 => RoleRegistry
         /\ pass = 25 => SsaDampening
         /\ pass = 26 => Governance
         /\ pass = 27 => RecomputeUnprotected
         /\ pass = 28 => Sensitivity
         /\ pass = 29 => Taint
         /\ pass = 30 => Dependencies
         /\ pass = 31 => DangerousSequences
         /\ pass = 32 => ExploitChains
         /\ pass = 33 => Accounting
         /\ pass = 34 => ExternalCallRisks
         /\ pass = 35 => NegativeSafety
         /\ pass = 36 => RiskScores
         /\ pass = 37 => ExploitTargets
         /\ pass = 38 => AskHotspots
<1>1. AddNodes => pass = 1
  <2>1. AddNodes => Turn("nodes")
    BY DEF AddNodes
  <2> QED
    BY <2>1, Numbered
<1>2. StorageMutations => pass = 2
  <2>1. StorageMutations => Turn("storage_mutations")
    BY DEF StorageMutations, FnPass
  <2> QED
    BY <2>1, Numbered
<1>3. PropagateWrites => pass = 3
  <2>1. PropagateWrites => Turn("propagate_writes")
    BY DEF PropagateWrites, FnPass
  <2> QED
    BY <2>1, Numbered
<1>4. Reachability => pass = 4
  <2>1. Reachability => Turn("reachability")
    BY DEF Reachability, FnPass
  <2> QED
    BY <2>1, Numbered
<1>5. AccessControl => pass = 5
  <2>1. AccessControl => Turn("access_control")
    BY DEF AccessControl, FnPass
  <2> QED
    BY <2>1, Numbered
<1>6. ExternalCalls => pass = 6
  <2>1. ExternalCalls => Turn("external_calls")
    BY DEF ExternalCalls
  <2> QED
    BY <2>1, Numbered
<1>7. OraclePatterns => pass = 7
  <2>1. OraclePatterns => Turn("oracle")
    BY DEF OraclePatterns, FnPass
  <2> QED
    BY <2>1, Numbered
<1>8. FlashLoan => pass = 8
  <2>1. FlashLoan => Turn("flash_loan")
    BY DEF FlashLoan, FnPass
  <2> QED
    BY <2>1, Numbered
<1>9. ArithmeticPatterns => pass = 9
  <2>1. ArithmeticPatterns => Turn("arithmetic")
    BY DEF ArithmeticPatterns, FnPass
  <2> QED
    BY <2>1, Numbered
<1>10. SignaturePatterns => pass = 10
  <2>1. SignaturePatterns => Turn("signature")
    BY DEF SignaturePatterns, FnPass
  <2> QED
    BY <2>1, Numbered
<1>11. ReentrancyRisks => pass = 11
  <2>1. ReentrancyRisks => Turn("reentrancy")
    BY DEF ReentrancyRisks, FnPass
  <2> QED
    BY <2>1, Numbered
<1>12. ReadOnlyReentrancy => pass = 12
  <2>1. ReadOnlyReentrancy => Turn("read_only")
    BY DEF ReadOnlyReentrancy, FnPass
  <2> QED
    BY <2>1, Numbered
<1>13. PrivilegedRoles => pass = 13
  <2>1. PrivilegedRoles => Turn("roles")
    BY DEF PrivilegedRoles, CtPass
  <2> QED
    BY <2>1, Numbered
<1>14. UnprotectedMutators => pass = 14
  <2>1. UnprotectedMutators => Turn("unprotected")
    BY DEF UnprotectedMutators, FnPass
  <2> QED
    BY <2>1, Numbered
<1>15. ReverseMapping => pass = 15
  <2>1. ReverseMapping => Turn("reverse_mapping")
    BY DEF ReverseMapping, SvPass
  <2> QED
    BY <2>1, Numbered
<1>16. Escalation => pass = 16
  <2>1. Escalation => Turn("escalation")
    BY DEF Escalation
  <2> QED
    BY <2>1, Numbered
<1>17. StateTransitions => pass = 17
  <2>1. StateTransitions => Turn("state_transitions")
    BY DEF StateTransitions, FnPass
  <2> QED
    BY <2>1, Numbered
<1>18. DelegatecallRisk => pass = 18
  <2>1. DelegatecallRisk => Turn("delegatecall")
    BY DEF DelegatecallRisk, FnPass
  <2> QED
    BY <2>1, Numbered
<1>19. ContractTiers => pass = 19
  <2>1. ContractTiers => Turn("tiers")
    BY DEF ContractTiers, CtPass
  <2> QED
    BY <2>1, Numbered
<1>20. ModifierEquivalence => pass = 20
  <2>1. ModifierEquivalence => Turn("modifier_equivalence")
    BY DEF ModifierEquivalence, FnPass
  <2> QED
    BY <2>1, Numbered
<1>21. Initializer => pass = 21
  <2>1. Initializer => Turn("initializer")
    BY DEF Initializer, FnPass
  <2> QED
    BY <2>1, Numbered
<1>22. RequireAccess => pass = 22
  <2>1. RequireAccess => Turn("require_ac")
    BY DEF RequireAccess, FnPass
  <2> QED
    BY <2>1, Numbered
<1>23. GuardCalls => pass = 23
  <2>1. GuardCalls => Turn("guard_calls")
    BY DEF GuardCalls, FnPass
  <2> QED
    BY <2>1, Numbered
<1>24. RoleRegistry => pass = 24
  <2>1. RoleRegistry => Turn("role_registry")
    BY DEF RoleRegistry, FnPass
  <2> QED
    BY <2>1, Numbered
<1>25. SsaDampening => pass = 25
  <2>1. SsaDampening => Turn("ssa")
    BY DEF SsaDampening
  <2> QED
    BY <2>1, Numbered
<1>26. Governance => pass = 26
  <2>1. Governance => Turn("governance")
    BY DEF Governance
  <2> QED
    BY <2>1, Numbered
<1>27. RecomputeUnprotected => pass = 27
  <2>1. RecomputeUnprotected => Turn("recompute")
    BY DEF RecomputeUnprotected, FnPass
  <2> QED
    BY <2>1, Numbered
<1>28. Sensitivity => pass = 28
  <2>1. Sensitivity => Turn("sensitivity")
    BY DEF Sensitivity, SvPass
  <2> QED
    BY <2>1, Numbered
<1>29. Taint => pass = 29
  <2>1. Taint => Turn("taint")
    BY DEF Taint
  <2> QED
    BY <2>1, Numbered
<1>30. Dependencies => pass = 30
  <2>1. Dependencies => Turn("dependencies")
    BY DEF Dependencies
  <2> QED
    BY <2>1, Numbered
<1>31. DangerousSequences => pass = 31
  <2>1. DangerousSequences => Turn("sequences")
    BY DEF DangerousSequences, FnPass
  <2> QED
    BY <2>1, Numbered
<1>32. ExploitChains => pass = 32
  <2>1. ExploitChains => Turn("chains")
    BY DEF ExploitChains, FnPass
  <2> QED
    BY <2>1, Numbered
<1>33. Accounting => pass = 33
  <2>1. Accounting => Turn("accounting")
    BY DEF Accounting
  <2> QED
    BY <2>1, Numbered
<1>34. ExternalCallRisks => pass = 34
  <2>1. ExternalCallRisks => Turn("external_risk")
    BY DEF ExternalCallRisks, FnPass
  <2> QED
    BY <2>1, Numbered
<1>35. NegativeSafety => pass = 35
  <2>1. NegativeSafety => Turn("safety")
    BY DEF NegativeSafety, FnPass
  <2> QED
    BY <2>1, Numbered
<1>36. RiskScores => pass = 36
  <2>1. RiskScores => Turn("scores")
    BY DEF RiskScores, FnPass
  <2> QED
    BY <2>1, Numbered
<1>37. ExploitTargets => pass = 37
  <2>1. ExploitTargets => Turn("targets")
    BY DEF ExploitTargets, FnPass
  <2> QED
    BY <2>1, Numbered
<1>38. AskHotspots => pass = 38
  <2>1. AskHotspots => Turn("hotspots")
    BY DEF AskHotspots
  <2> QED
    BY <2>1, Numbered
<1> QED
  BY <1>1, <1>2, <1>3, <1>4, <1>5, <1>6, <1>7, <1>8, <1>9, <1>10, <1>11, <1>12, <1>13, <1>14, <1>15, <1>16, <1>17, <1>18, <1>19, <1>20, <1>21, <1>22, <1>23, <1>24, <1>25, <1>26, <1>27, <1>28, <1>29, <1>30, <1>31, <1>32, <1>33, <1>34, <1>35, <1>36, <1>37, <1>38 DEF Next, BuildGraph

(* The passes that assign an attribute: no other changes it. *)
LEMMA Setters ==
  /\ \A k \in 1..38 \ {1, 2} : "direct" \notin FnSet[k]
  /\ \A k \in 1..38 \ {1, 3} : "propagated" \notin FnSet[k]
  /\ \A k \in 1..38 \ {1, 4} : "entries" \notin FnSet[k]
  /\ \A k \in 1..38 \ {1, 5} : "hasAC" \notin FnSet[k]
  /\ \A k \in 1..38 \ {1, 5, 22} : "inline" \notin FnSet[k]
  /\ \A k \in 1..38 \ {1, 5, 21, 22, 23, 24} : "protected" \notin FnSet[k]
  /\ \A k \in 1..38 \ {1, 5, 23, 24, 25} : "conf" \notin FnSet[k]
  /\ \A k \in 1..38 \ {1, 22, 23, 24} : "acType" \notin FnSet[k]
  /\ \A k \in 1..38 \ {1, 23} : "guardCall" \notin FnSet[k]
  /\ \A k \in 1..38 \ {1, 24} : "roleGuard" \notin FnSet[k]
  /\ \A k \in 1..38 \ {1, 14, 21, 27} : "unprotected" \notin FnSet[k]
  /\ \A k \in 1..38 \ {1, 16} : "escalate" \notin FnSet[k]
  /\ \A k \in 1..38 \ {1, 21} : "initGuard" \notin FnSet[k]
  /\ \A k \in 1..38 \ {1, 6} : "extEdges" \notin FnSet[k]
  /\ \A k \in 1..38 \ {1, 31, 32} : "sequences" \notin FnSet[k]
  /\ \A k \in 1..38 \ {1, 32} : "chains" \notin FnSet[k]
  /\ \A k \in 1..38 \ {1, 37} : "send" \notin FnSet[k]
  /\ \A k \in 1..38 \ {1, 15} : "roles" \notin SvSet[k]
  /\ \A k \in 1..38 \ {1, 15} : "writers" \notin SvSet[k]
  /\ \A k \in 1..38 \ {1, 16} : "escalation" \notin SvSet[k]
  /\ \A k \in 1..38 \ {1, 16} : "risky" \notin SvSet[k]
  /\ \A k \in 1..38 \ {1, 28} : "tags" \notin SvSet[k]
  /\ \A k \in 1..38 \ {1, 13} : "roles" \notin CtSet[k]
<1>1. \A k \in 1..38 \ {1, 2} : "direct" \notin FnSet[k]
  BY DEF FnSet
<1>2. \A k \in 1..38 \ {1, 3} : "propagated" \notin FnSet[k]
  BY DEF FnSet
<1>3. \A k \in 1..38 \ {1, 4} : "entries" \notin FnSet[k]
  BY DEF FnSet
<1>4. \A k \in 1..38 \ {1, 5} : "hasAC" \notin FnSet[k]
  BY DEF FnSet
<1>5. \A k \in 1..38 \ {1, 5, 22} : "inline" \notin FnSet[k]
  BY DEF FnSet
<1>6. \A k \in 1..38 \ {1, 5, 21, 22, 23, 24} : "protected" \notin FnSet[k]
  BY DEF FnSet
<1>7. \A k \in 1..38 \ {1, 5, 23, 24, 25} : "conf" \notin FnSet[k]
  BY DEF FnSet
<1>8. \A k \in 1..38 \ {1, 22, 23, 24} : "acType" \notin FnSet[k]
  BY DEF FnSet
<1>9. \A k \in 1..38 \ {1, 23} : "guardCall" \notin FnSet[k]
  BY DEF FnSet
<1>10. \A k \in 1..38 \ {1, 24} : "roleGuard" \notin FnSet[k]
  BY DEF FnSet
<1>11. \A k \in 1..38 \ {1, 14, 21, 27} : "unprotected" \notin FnSet[k]
  BY DEF FnSet
<1>12. \A k \in 1..38 \ {1, 16} : "escalate" \notin FnSet[k]
  BY DEF FnSet
<1>13. \A k \in 1..38 \ {1, 21} : "initGuard" \notin FnSet[k]
  BY DEF FnSet
<1>14. \A k \in 1..38 \ {1, 6} : "extEdges" \notin FnSet[k]
  BY DEF FnSet
<1>15. \A k \in 1..38 \ {1, 31, 32} : "sequences" \notin FnSet[k]
  BY DEF FnSet
<1>16. \A k \in 1..38 \ {1, 32} : "chains" \notin FnSet[k]
  BY DEF FnSet
<1>17. \A k \in 1..38 \ {1, 37} : "send" \notin FnSet[k]
  BY DEF FnSet
<1>18. \A k \in 1..38 \ {1, 15} : "roles" \notin SvSet[k]
  BY DEF SvSet
<1>19. \A k \in 1..38 \ {1, 15} : "writers" \notin SvSet[k]
  BY DEF SvSet
<1>20. \A k \in 1..38 \ {1, 16} : "escalation" \notin SvSet[k]
  BY DEF SvSet
<1>21. \A k \in 1..38 \ {1, 16} : "risky" \notin SvSet[k]
  BY DEF SvSet
<1>22. \A k \in 1..38 \ {1, 28} : "tags" \notin SvSet[k]
  BY DEF SvSet
<1>23. \A k \in 1..38 \ {1, 13} : "roles" \notin CtSet[k]
  BY DEF CtSet
<1> QED
  BY <1>1, <1>2, <1>3, <1>4, <1>5, <1>6, <1>7, <1>8, <1>9, <1>10, <1>11, <1>12, <1>13, <1>14, <1>15, <1>16, <1>17, <1>18, <1>19, <1>20, <1>21, <1>22, <1>23

LEMMA Unassigned ==
  ASSUME Shape, Next
  PROVE  /\ prog' = prog /\ pass \in 1..38 /\ pass' = pass + 1
         /\ DOMAIN fn' = Fns /\ DOMAIN sv' = Svs /\ DOMAIN ct' = Contracts
         /\ pass \notin {1, 2} => \A f \in Fns : fn'[f].direct = fn[f].direct
         /\ pass \notin {1, 3} => \A f \in Fns : fn'[f].propagated = fn[f].propagated
         /\ pass \notin {1, 4} => \A f \in Fns : fn'[f].entries = fn[f].entries
         /\ pass \notin {1, 5} => \A f \in Fns : fn'[f].hasAC = fn[f].hasAC
         /\ pass \notin {1, 5, 22} => \A f \in Fns : fn'[f].inline = fn[f].inline
         /\ pass \notin {1, 5, 21, 22, 23, 24} => \A f \in Fns : fn'[f].protected = fn[f].protected
         /\ pass \notin {1, 5, 23, 24, 25} => \A f \in Fns : fn'[f].conf = fn[f].conf
         /\ pass \notin {1, 22, 23, 24} => \A f \in Fns : fn'[f].acType = fn[f].acType
         /\ pass \notin {1, 23} => \A f \in Fns : fn'[f].guardCall = fn[f].guardCall
         /\ pass \notin {1, 24} => \A f \in Fns : fn'[f].roleGuard = fn[f].roleGuard
         /\ pass \notin {1, 14, 21, 27} => \A f \in Fns : fn'[f].unprotected = fn[f].unprotected
         /\ pass \notin {1, 16} => \A f \in Fns : fn'[f].escalate = fn[f].escalate
         /\ pass \notin {1, 21} => \A f \in Fns : fn'[f].initGuard = fn[f].initGuard
         /\ pass \notin {1, 6} => \A f \in Fns : fn'[f].extEdges = fn[f].extEdges
         /\ pass \notin {1, 31, 32} => \A f \in Fns : fn'[f].sequences = fn[f].sequences
         /\ pass \notin {1, 32} => \A f \in Fns : fn'[f].chains = fn[f].chains
         /\ pass \notin {1, 37} => \A f \in Fns : fn'[f].send = fn[f].send
         /\ pass \notin {1, 15} => \A v \in Svs : sv'[v].roles = sv[v].roles
         /\ pass \notin {1, 15} => \A v \in Svs : sv'[v].writers = sv[v].writers
         /\ pass \notin {1, 16} => \A v \in Svs : sv'[v].escalation = sv[v].escalation
         /\ pass \notin {1, 16} => \A v \in Svs : sv'[v].risky = sv[v].risky
         /\ pass \notin {1, 28} => \A v \in Svs : sv'[v].tags = sv[v].tags
         /\ pass \notin {1, 13} => \A c \in Contracts : ct'[c].roles = ct[c].roles
<1>1. pass \in 1..38 /\ Sets(pass)
  BY Frame
<1>2. /\ prog' = prog /\ pass' = pass + 1
      /\ FnOnly(FnSet[pass]) /\ SvOnly(SvSet[pass]) /\ CtOnly(CtSet[pass])
  BY <1>1 DEF Sets
<1>3. pass \notin {1, 2} => \A f \in Fns : fn'[f].direct = fn[f].direct
  BY <1>1, <1>2, Setters DEF FnOnly, FnAttributes
<1>4. pass \notin {1, 3} => \A f \in Fns : fn'[f].propagated = fn[f].propagated
  BY <1>1, <1>2, Setters DEF FnOnly, FnAttributes
<1>5. pass \notin {1, 4} => \A f \in Fns : fn'[f].entries = fn[f].entries
  BY <1>1, <1>2, Setters DEF FnOnly, FnAttributes
<1>6. pass \notin {1, 5} => \A f \in Fns : fn'[f].hasAC = fn[f].hasAC
  BY <1>1, <1>2, Setters DEF FnOnly, FnAttributes
<1>7. pass \notin {1, 5, 22} => \A f \in Fns : fn'[f].inline = fn[f].inline
  BY <1>1, <1>2, Setters DEF FnOnly, FnAttributes
<1>8. pass \notin {1, 5, 21, 22, 23, 24} => \A f \in Fns : fn'[f].protected = fn[f].protected
  BY <1>1, <1>2, Setters DEF FnOnly, FnAttributes
<1>9. pass \notin {1, 5, 23, 24, 25} => \A f \in Fns : fn'[f].conf = fn[f].conf
  BY <1>1, <1>2, Setters DEF FnOnly, FnAttributes
<1>10. pass \notin {1, 22, 23, 24} => \A f \in Fns : fn'[f].acType = fn[f].acType
  BY <1>1, <1>2, Setters DEF FnOnly, FnAttributes
<1>11. pass \notin {1, 23} => \A f \in Fns : fn'[f].guardCall = fn[f].guardCall
  BY <1>1, <1>2, Setters DEF FnOnly, FnAttributes
<1>12. pass \notin {1, 24} => \A f \in Fns : fn'[f].roleGuard = fn[f].roleGuard
  BY <1>1, <1>2, Setters DEF FnOnly, FnAttributes
<1>13. pass \notin {1, 14, 21, 27} => \A f \in Fns : fn'[f].unprotected = fn[f].unprotected
  BY <1>1, <1>2, Setters DEF FnOnly, FnAttributes
<1>14. pass \notin {1, 16} => \A f \in Fns : fn'[f].escalate = fn[f].escalate
  BY <1>1, <1>2, Setters DEF FnOnly, FnAttributes
<1>15. pass \notin {1, 21} => \A f \in Fns : fn'[f].initGuard = fn[f].initGuard
  BY <1>1, <1>2, Setters DEF FnOnly, FnAttributes
<1>16. pass \notin {1, 6} => \A f \in Fns : fn'[f].extEdges = fn[f].extEdges
  BY <1>1, <1>2, Setters DEF FnOnly, FnAttributes
<1>17. pass \notin {1, 31, 32} => \A f \in Fns : fn'[f].sequences = fn[f].sequences
  BY <1>1, <1>2, Setters DEF FnOnly, FnAttributes
<1>18. pass \notin {1, 32} => \A f \in Fns : fn'[f].chains = fn[f].chains
  BY <1>1, <1>2, Setters DEF FnOnly, FnAttributes
<1>19. pass \notin {1, 37} => \A f \in Fns : fn'[f].send = fn[f].send
  BY <1>1, <1>2, Setters DEF FnOnly, FnAttributes
<1>20. pass \notin {1, 15} => \A v \in Svs : sv'[v].roles = sv[v].roles
  BY <1>1, <1>2, Setters DEF SvOnly, SvAttributes
<1>21. pass \notin {1, 15} => \A v \in Svs : sv'[v].writers = sv[v].writers
  BY <1>1, <1>2, Setters DEF SvOnly, SvAttributes
<1>22. pass \notin {1, 16} => \A v \in Svs : sv'[v].escalation = sv[v].escalation
  BY <1>1, <1>2, Setters DEF SvOnly, SvAttributes
<1>23. pass \notin {1, 16} => \A v \in Svs : sv'[v].risky = sv[v].risky
  BY <1>1, <1>2, Setters DEF SvOnly, SvAttributes
<1>24. pass \notin {1, 28} => \A v \in Svs : sv'[v].tags = sv[v].tags
  BY <1>1, <1>2, Setters DEF SvOnly, SvAttributes
<1>25. pass \notin {1, 13} => \A c \in Contracts : ct'[c].roles = ct[c].roles
  BY <1>1, <1>2, Setters DEF CtOnly, CtAttributes
<1>26. DOMAIN fn' = Fns /\ DOMAIN sv' = Svs /\ DOMAIN ct' = Contracts
  BY <1>2 DEF FnOnly, SvOnly, CtOnly
<1> QED
  BY <1>1, <1>2, <1>3, <1>4, <1>5, <1>6, <1>7, <1>8, <1>9, <1>10, <1>11, <1>12, <1>13, <1>14, <1>15, <1>16, <1>17, <1>18, <1>19, <1>20, <1>21, <1>22, <1>23, <1>24, <1>25, <1>26

LEMMA SettersLater ==
  /\ \A k \in 1..38 \ {1, 6} : "cei" \notin FnSet[k]
  /\ \A k \in 1..38 \ {1, 6} : "ceiReentrant" \notin FnSet[k]
  /\ \A k \in 1..38 \ {1, 11} : "reentrancy" \notin FnSet[k]
  /\ \A k \in 1..38 \ {1, 11} : "ceiOnly" \notin FnSet[k]
  /\ \A k \in 1..38 \ {1, 17} : "lengthMutation" \notin FnSet[k]
  /\ \A k \in 1..38 \ {1, 18} : "delegateRisk" \notin FnSet[k]
  /\ \A k \in 1..38 \ {1, 29} : "tainted" \notin FnSet[k]
  /\ \A k \in 1..38 \ {1, 29} : "taintRisks" \notin FnSet[k]
  /\ \A k \in 1..38 \ {1, 34} : "extTags" \notin FnSet[k]
  /\ \A k \in 1..38 \ {1, 36} : "structural" \notin FnSet[k]
  /\ \A k \in 1..38 \ {1, 36} : "exploitability" \notin FnSet[k]
  /\ \A k \in 1..38 \ {1, 36} : "final" \notin FnSet[k]
  /\ \A k \in 1..38 \ {1, 21} : "safeInit" \notin FnSet[k]
  /\ \A k \in 1..38 \ {1, 29} : "taintedBy" \notin SvSet[k]
  /\ \A k \in 1..38 \ {1, 19} : "tier" \notin CtSet[k]
<1>1. \A k \in 1..38 \ {1, 6} : "cei" \notin FnSet[k]
  BY DEF FnSet
<1>2. \A k \in 1..38 \ {1, 6} : "ceiReentrant" \notin FnSet[k]
  BY DEF FnSet
<1>3. \A k \in 1..38 \ {1, 11} : "reentrancy" \notin FnSet[k]
  BY DEF FnSet
<1>4. \A k \in 1..38 \ {1, 11} : "ceiOnly" \notin FnSet[k]
  BY DEF FnSet
<1>5. \A k \in 1..38 \ {1, 17} : "lengthMutation" \notin FnSet[k]
  BY DEF FnSet
<1>6. \A k \in 1..38 \ {1, 18} : "delegateRisk" \notin FnSet[k]
  BY DEF FnSet
<1>7. \A k \in 1..38 \ {1, 29} : "tainted" \notin FnSet[k]
  BY DEF FnSet
<1>8. \A k \in 1..38 \ {1, 29} : "taintRisks" \notin FnSet[k]
  BY DEF FnSet
<1>9. \A k \in 1..38 \ {1, 34} : "extTags" \notin FnSet[k]
  BY DEF FnSet
<1>10. \A k \in 1..38 \ {1, 36} : "structural" \notin FnSet[k]
  BY DEF FnSet
<1>11. \A k \in 1..38 \ {1, 36} : "exploitability" \notin FnSet[k]
  BY DEF FnSet
<1>12. \A k \in 1..38 \ {1, 36} : "final" \notin FnSet[k]
  BY DEF FnSet
<1>13. \A k \in 1..38 \ {1, 21} : "safeInit" \notin FnSet[k]
  BY DEF FnSet
<1>14. \A k \in 1..38 \ {1, 29} : "taintedBy" \notin SvSet[k]
  BY DEF SvSet
<1>15. \A k \in 1..38 \ {1, 19} : "tier" \notin CtSet[k]
  BY DEF CtSet
<1> QED
  BY <1>1, <1>2, <1>3, <1>4, <1>5, <1>6, <1>7, <1>8, <1>9, <1>10, <1>11, <1>12, <1>13, <1>14, <1>15

LEMMA UnassignedLater ==
  ASSUME Shape, Next
  PROVE  /\ pass \notin {1, 6} => \A f \in Fns : fn'[f].cei = fn[f].cei
         /\ pass \notin {1, 6} => \A f \in Fns : fn'[f].ceiReentrant = fn[f].ceiReentrant
         /\ pass \notin {1, 11} => \A f \in Fns : fn'[f].reentrancy = fn[f].reentrancy
         /\ pass \notin {1, 11} => \A f \in Fns : fn'[f].ceiOnly = fn[f].ceiOnly
         /\ pass \notin {1, 17} => \A f \in Fns : fn'[f].lengthMutation = fn[f].lengthMutation
         /\ pass \notin {1, 18} => \A f \in Fns : fn'[f].delegateRisk = fn[f].delegateRisk
         /\ pass \notin {1, 29} => \A f \in Fns : fn'[f].tainted = fn[f].tainted
         /\ pass \notin {1, 29} => \A f \in Fns : fn'[f].taintRisks = fn[f].taintRisks
         /\ pass \notin {1, 34} => \A f \in Fns : fn'[f].extTags = fn[f].extTags
         /\ pass \notin {1, 36} => \A f \in Fns : fn'[f].structural = fn[f].structural
         /\ pass \notin {1, 36} => \A f \in Fns : fn'[f].exploitability = fn[f].exploitability
         /\ pass \notin {1, 36} => \A f \in Fns : fn'[f].final = fn[f].final
         /\ pass \notin {1, 21} => \A f \in Fns : fn'[f].safeInit = fn[f].safeInit
         /\ pass \notin {1, 29} => \A v \in Svs : sv'[v].taintedBy = sv[v].taintedBy
         /\ pass \notin {1, 19} => \A c \in Contracts : ct'[c].tier = ct[c].tier
         /\ pass \notin {1, 6, 30} => rel' = rel
<1>1. pass \in 1..38 /\ Sets(pass)
  BY Frame
<1>2. /\ FnOnly(FnSet[pass]) /\ SvOnly(SvSet[pass]) /\ CtOnly(CtSet[pass])
      /\ pass \notin {1, 6, 30} => rel' = rel
  BY <1>1 DEF Sets
<1>3. pass \notin {1, 6} => \A f \in Fns : fn'[f].cei = fn[f].cei
  BY <1>1, <1>2, SettersLater DEF FnOnly, FnAttributes
<1>4. pass \notin {1, 6} => \A f \in Fns : fn'[f].ceiReentrant = fn[f].ceiReentrant
  BY <1>1, <1>2, SettersLater DEF FnOnly, FnAttributes
<1>5. pass \notin {1, 11} => \A f \in Fns : fn'[f].reentrancy = fn[f].reentrancy
  BY <1>1, <1>2, SettersLater DEF FnOnly, FnAttributes
<1>6. pass \notin {1, 11} => \A f \in Fns : fn'[f].ceiOnly = fn[f].ceiOnly
  BY <1>1, <1>2, SettersLater DEF FnOnly, FnAttributes
<1>7. pass \notin {1, 17} => \A f \in Fns : fn'[f].lengthMutation = fn[f].lengthMutation
  BY <1>1, <1>2, SettersLater DEF FnOnly, FnAttributes
<1>8. pass \notin {1, 18} => \A f \in Fns : fn'[f].delegateRisk = fn[f].delegateRisk
  BY <1>1, <1>2, SettersLater DEF FnOnly, FnAttributes
<1>9. pass \notin {1, 29} => \A f \in Fns : fn'[f].tainted = fn[f].tainted
  BY <1>1, <1>2, SettersLater DEF FnOnly, FnAttributes
<1>10. pass \notin {1, 29} => \A f \in Fns : fn'[f].taintRisks = fn[f].taintRisks
  BY <1>1, <1>2, SettersLater DEF FnOnly, FnAttributes
<1>11. pass \notin {1, 34} => \A f \in Fns : fn'[f].extTags = fn[f].extTags
  BY <1>1, <1>2, SettersLater DEF FnOnly, FnAttributes
<1>12. pass \notin {1, 36} => \A f \in Fns : fn'[f].structural = fn[f].structural
  BY <1>1, <1>2, SettersLater DEF FnOnly, FnAttributes
<1>13. pass \notin {1, 36} => \A f \in Fns : fn'[f].exploitability = fn[f].exploitability
  BY <1>1, <1>2, SettersLater DEF FnOnly, FnAttributes
<1>14. pass \notin {1, 36} => \A f \in Fns : fn'[f].final = fn[f].final
  BY <1>1, <1>2, SettersLater DEF FnOnly, FnAttributes
<1>15. pass \notin {1, 21} => \A f \in Fns : fn'[f].safeInit = fn[f].safeInit
  BY <1>1, <1>2, SettersLater DEF FnOnly, FnAttributes
<1>16. pass \notin {1, 29} => \A v \in Svs : sv'[v].taintedBy = sv[v].taintedBy
  BY <1>1, <1>2, SettersLater DEF SvOnly, SvAttributes
<1>17. pass \notin {1, 19} => \A c \in Contracts : ct'[c].tier = ct[c].tier
  BY <1>1, <1>2, SettersLater DEF CtOnly, CtAttributes
<1> QED
  BY <1>2, <1>3, <1>4, <1>5, <1>6, <1>7, <1>8, <1>9, <1>10, <1>11, <1>12, <1>13, <1>14, <1>15, <1>16, <1>17

-----------------------------------------------------------------------------
(* What depends on the program alone is the same after every step.         *)

LEMMA SameGuarding ==
  ASSUME prog' = prog, NEW f
  PROVE  Guarding(f)' = Guarding(f)
<1>1. \A c, name : Defined(c, name)' = Defined(c, name)
  BY DEF Defined, Mods
<1>2. ASSUME NEW name PROVE Resolved(f, name)' = Resolved(f, name)
  <2> DEFINE line == Lineage(prog.con, Src(f).contract)
             own  == {k \in DOMAIN line : Defined(line[k], name) # {}}
  <2>1. line' = line
    BY DEF Src
  <2>2. /\ Resolved(f, name) = IF own = {} THEN {} ELSE Defined(line[Min(own)], name)
        /\ Resolved(f, name)' = IF own' = {} THEN {} ELSE Defined(line[Min(own)], name)'
    BY DEF Resolved
  <2>3. \A k : Defined(line[k], name)' = Defined(line[k], name)
    BY <2>1 DEF Defined, Mods
  <2> HIDE DEF line
  <2>4. own' = own
    BY <2>1, <2>3
  <2> HIDE DEF own
  <2>5. Min(own)' = Min(own)
    BY <2>4
  <2>6. Defined(line[Min(own)], name)' = Defined(line[Min(own)], name)
    BY <2>1, <2>5 DEF Defined, Mods
  <2> QED
    BY <2>2, <2>4, <2>6
<1>3. \A m : Pattern(m)' = Pattern(m)
  BY DEF Pattern
<1> QED
  BY <1>2, <1>3 DEF Guarding, Src

LEMMA SameCalls ==
  ASSUME prog' = prog, NEW f
  PROVE  Calls(f)' = Calls(f)
<1>1. \A c, name : Defined(c, name)' = Defined(c, name)
  BY DEF Defined, Mods
<1>2. ModSeq(f)' = ModSeq(f)
  BY <1>1 DEF ModSeq, Local, Src, Nodes, Mods
<1>3. Body(f)' = Body(f)
  BY DEF Body, Src
<1>4. Preludes(ModSeq(f))' = Preludes(ModSeq(f))
  BY <1>2 DEF Preludes
<1>5. Postludes(Reverse(ModSeq(f)))' = Postludes(Reverse(ModSeq(f)))
  BY <1>2 DEF Postludes
<1>6. Events(f)' = Events(f)
  BY <1>3, <1>4, <1>5 DEF Events
<1> QED
  BY <1>6 DEF Calls

(* What the passes find one after the other.                               *)
Bare(f)      == Guarding(f) = {} /\ ~InlineCheck(f)
ChecksInit(f) == \E g \in {f} \cup CallEdges(f) : Checks(g, "init") # {}
HasGuard(f)  == (\E g \in CallEdges(f) : IsGuard(g)) \/ Says(f, "lib_guard_call")
AsksRole(f)  == At(f, "require") # {} /\ \E e \in Calls(f) : e[3].about = "role"
Open(f)      == Entry(f) /\ WriteEdges(f) # {}
Unasked(f)   == Bare(f) /\ ~ChecksInit(f) /\ ~HasGuard(f) /\ ~AsksRole(f)

LEMMA SameProgram ==
  ASSUME prog' = prog
  PROVE  /\ Fns' = Fns /\ Svs' = Svs /\ Contracts' = Contracts
         /\ \A f : /\ WriteEdges(f)' = WriteEdges(f)
                   /\ CallEdges(f)' = CallEdges(f)
                   /\ Guarding(f)' = Guarding(f)
                   /\ Calls(f)' = Calls(f)
                   /\ Open(f)' <=> Open(f)
                   /\ Bare(f)' <=> Bare(f)
                   /\ ChecksInit(f)' <=> ChecksInit(f)
                   /\ HasGuard(f)' <=> HasGuard(f)
                   /\ AsksRole(f)' <=> AsksRole(f)
<1>1. Fns' = Fns /\ Svs' = Svs /\ Contracts' = Contracts
  BY DEF Fns, Svs, Contracts
<1>2. SUFFICES ASSUME NEW f
               PROVE  /\ WriteEdges(f)' = WriteEdges(f)
                      /\ CallEdges(f)' = CallEdges(f)
                      /\ Guarding(f)' = Guarding(f)
                      /\ Calls(f)' = Calls(f)
                      /\ Open(f)' <=> Open(f)
                      /\ Bare(f)' <=> Bare(f)
                      /\ ChecksInit(f)' <=> ChecksInit(f)
                      /\ HasGuard(f)' <=> HasGuard(f)
                      /\ AsksRole(f)' <=> AsksRole(f)
  BY <1>1
<1>3. WriteEdges(f)' = WriteEdges(f)
  BY DEF WriteEdges, At, Body, Src
<1>4. KnownAt(f)' = KnownAt(f)
  BY DEF KnownAt, Internal, At, Body, Src
<1>5. CrossCalls(f)' = CrossCalls(f)
  BY <1>4 DEF CrossCalls, At, Body, Src
<1>6. CallEdges(f)' = CallEdges(f)
  BY <1>5 DEF CallEdges, Internal, At, Body, Src
<1>7. Guarding(f)' = Guarding(f)
  BY SameGuarding
<1>8. Calls(f)' = Calls(f)
  BY SameCalls
<1>9. Open(f)' <=> Open(f)
  BY <1>3 DEF Open, Entry, Public, Src
<1>10. \A g : /\ InlineCheck(g)' <=> InlineCheck(g)
              /\ IsGuard(g)' <=> IsGuard(g)
              /\ Checks(g, "init")' = Checks(g, "init")
              /\ At(g, "require")' = At(g, "require")
  BY DEF IsGuard, Public, Says, InlineCheck, Checks, At, Body, Src
<1>11. Bare(f)' <=> Bare(f)
  BY <1>7, <1>10 DEF Bare
<1>12. ChecksInit(f)' <=> ChecksInit(f)
  BY <1>6, <1>10 DEF ChecksInit
<1>13. HasGuard(f)' <=> HasGuard(f)
  BY <1>6, <1>10 DEF HasGuard, Says, Src
<1>14. AsksRole(f)' <=> AsksRole(f)
  BY <1>8, <1>10 DEF AsksRole
<1> QED
  BY <1>3, <1>6, <1>7, <1>8, <1>9, <1>11, <1>12, <1>13, <1>14

-----------------------------------------------------------------------------
(* The inductive invariant: what every attribute that bears on protection  *)
(* says of the program, from the pass that sets it on.                     *)

Labels ==
    pass \in 2..30 =>
        \A f \in Fns, g \in Fns : rel[f][g] = "CALLS" <=> g \in CallEdges(f)


GuardFacts(f) ==
    /\ pass > 2 => fn[f].direct = WriteEdges(f)
    /\ pass > 5 => (fn[f].hasAC <=> Guarding(f) # {})
    /\ pass > 6 => fn[f].extEdges = Calls(f)
    /\ pass <= 5 => fn[f].protected = FALSE
    /\ pass \in 6..21 => (fn[f].protected <=> ~Bare(f))
    /\ Unasked(f) => fn[f].protected = FALSE
    /\ pass <= 22 => fn[f].acType = "none"
    /\ Unasked(f) => fn[f].acType = "none" /\ fn[f].conf = 0
    /\ pass <= 5 => fn[f].conf = 0
    /\ pass <= 23 => fn[f].guardCall = FALSE
    /\ pass > 23 => (fn[f].guardCall <=> HasGuard(f))
    /\ pass <= 24 => fn[f].roleGuard = FALSE
    /\ pass > 24 => (fn[f].roleGuard <=> AsksRole(f))
    /\ pass \in 15..21 => (fn[f].unprotected <=> Open(f) /\ Bare(f))
    /\ pass \in 22..27 => (fn[f].unprotected <=> Open(f) /\ Bare(f) /\ ~ChecksInit(f))
    /\ pass > 27 => (fn[f].unprotected <=> Open(f) /\ Unasked(f))

GuardInv ==
    /\ Shape /\ pass \in 1..39 /\ prog \in Programs
    /\ Labels
    /\ \A f \in Fns : GuardFacts(f)

LEMMA Attributes ==
  {"direct", "propagated", "entries", "hasAC", "inline", "protected", "conf", "acType",
   "guardCall", "roleGuard", "unprotected", "escalate", "initGuard", "extEdges",
   "sequences", "chains", "send", "cei", "ceiReentrant", "reentrancy", "ceiOnly",
   "lengthMutation", "delegateRisk", "tainted", "taintRisks", "extTags", "structural",
   "exploitability", "final", "safeInit"} \subseteq FnAttributes
BY DEF FnAttributes

LEMMA CallsOfProgram ==
  ASSUME prog \in Programs, NEW f \in Fns
  PROVE  CallEdges(f) \subseteq Fns /\ WriteEdges(f) \subseteq Svs
<1>1. \A i \in DOMAIN Body(f) : /\ Body(f)[i].op = "internal" => Body(f)[i].to \in Fns
                                /\ Body(f)[i].op = "write" => Body(f)[i].var \in Svs
  BY ProgramAssumption DEF WellFormed, WellPlaced, Fns, Svs, Body, Src
<1> QED
  BY <1>1 DEF CallEdges, Internal, WriteEdges, At

LEMMA CalleesOf ==
  ASSUME prog \in Programs, Labels, pass \in 2..30, NEW f \in Fns
  PROVE  Callees(f) = CallEdges(f)
BY CallsOfProgram DEF Callees, Out, Labels

LEMMA LabelsStep ==
  ASSUME GuardInv, Next
  PROVE  Labels'
<1>1. /\ pass' = pass + 1 /\ prog' = prog
      /\ pass \notin {1, 6, 30} => rel' = rel
  BY Frame DEF GuardInv, Sets
<1>2. Fns' = Fns /\ \A f : CallEdges(f)' = CallEdges(f)
  BY <1>1, SameProgram
<1>3. CASE pass = 1
  <2>1. rel' = [f \in Fns |-> [g \in Fns |-> FirstLabel(f, g)]]
    BY <1>3, Acts DEF AddNodes
  <2>2. \A f, g : FirstLabel(f, g) = "CALLS" <=> g \in CallEdges(f)
    BY DEF FirstLabel, CallEdges
  <2>3. \A f \in Fns, g \in Fns : rel'[f][g] = "CALLS" <=> g \in CallEdges(f)
    BY <2>1, <2>2
  <2> QED
    BY <1>2, <2>3 DEF Labels
<1>4. CASE pass = 6
  <2>1. \A f \in Fns, g \in Fns :
           rel'[f][g] = IF \E i \in Externals(f) : Body(f)[i].to = g /\ Resolves(f, i)
                        THEN "EXTERNAL_CALL" ELSE rel[f][g]
    <3>1. ExternalCalls
      BY <1>4, Acts
    <3> QED
      BY <3>1 DEF ExternalCalls
  <2>2. \A f \in Fns, g \in Fns :
           (\E i \in Externals(f) : Body(f)[i].to = g /\ Resolves(f, i)) => rel[f][g] = "none"
    BY DEF Resolves
  <2>3. \A f \in Fns, g \in Fns : rel'[f][g] = "CALLS" <=> rel[f][g] = "CALLS"
    BY <2>1, <2>2
  <2> QED
    BY <1>2, <1>4, <2>3 DEF GuardInv, Labels
<1>5. CASE pass = 30
  BY <1>1, <1>5 DEF Labels
<1>6. CASE pass \notin {1, 6, 30}
  BY <1>1, <1>2, <1>6 DEF GuardInv, Labels
<1> QED
  BY <1>3, <1>4, <1>5, <1>6

(* Nothing in the graph protects a function whose text asks nothing of its *)
(* caller; every other check of the caller is found by the pass for it.    *)
LEMMA GuardFactsStep ==
  ASSUME GuardInv, Next, NEW f \in Fns
  PROVE  GuardFacts(f)'
<1>1. /\ prog' = prog /\ pass \in 1..38 /\ pass' = pass + 1
      /\ DOMAIN fn' = Fns
  BY Unassigned DEF GuardInv
<1>2. /\ WriteEdges(f)' = WriteEdges(f)
      /\ Guarding(f)' = Guarding(f)
      /\ Calls(f)' = Calls(f)
      /\ Open(f)' <=> Open(f)
      /\ Bare(f)' <=> Bare(f)
      /\ ChecksInit(f)' <=> ChecksInit(f)
      /\ HasGuard(f)' <=> HasGuard(f)
      /\ AsksRole(f)' <=> AsksRole(f)
  BY <1>1, SameProgram
<1>3. Unasked(f)' <=> Unasked(f)
  BY <1>2 DEF Unasked
<1>4. Unasked(f) <=> Bare(f) /\ ~ChecksInit(f) /\ ~HasGuard(f) /\ ~AsksRole(f)
  BY DEF Unasked
<1>5. GuardFacts(f) /\ Labels /\ prog \in Programs /\ DOMAIN fn[f] = FnAttributes /\ Shape
  BY DEF GuardInv, Shape
<1>6. pass \in 2..30 => Callees(f) = CallEdges(f)
  BY <1>5, CalleesOf
<1>7. pass = 1 => fn'[f] = NewFn(f)
  BY Acts DEF AddNodes
<1>17. pass = 5 => /\ fn'[f].hasAC <=> Guarding(f) # {}
                   /\ fn'[f].protected <=> (fn[f].protected \/ ~Bare(f))
                   /\ Bare(f) => fn'[f].conf = Max({fn[f].conf, 0, 0})
  <2>1. SUFFICES ASSUME pass = 5
                 PROVE  /\ fn'[f].hasAC <=> Guarding(f) # {}
                        /\ fn'[f].protected <=> (fn[f].protected \/ ~Bare(f))
                        /\ Bare(f) => fn'[f].conf = Max({fn[f].conf, 0, 0})
    OBVIOUS
  <2>2. AccessControl
    BY <2>1, Acts
  <2>3. fn'[f] = [fn[f] EXCEPT !.hasAC = Guarding(f) # {}, !.acMods = Guarding(f),
                               !.inline = InlineCheck(f),
                               !.protected = @ \/ Guarding(f) # {} \/ InlineCheck(f),
                               !.conf = Max({@, IF Guarding(f) = {} THEN 0
                                                ELSE IF \E n \in Guarding(f) : IsLocal(f, n)
                                                     THEN 1000 ELSE 900,
                                             IF InlineCheck(f) THEN 950 ELSE 0})]
    BY <2>2 DEF AccessControl, FnPass
  <2>4. fn'[f].hasAC = (Guarding(f) # {})
    BY <1>5, <2>3, Attributes
  <2>5. fn'[f].protected = (fn[f].protected \/ Guarding(f) # {} \/ InlineCheck(f))
    BY <1>5, <2>3, Attributes
  <2>6. Bare(f) => fn'[f].conf = Max({fn[f].conf, 0, 0})
    BY <1>5, <2>3, Attributes DEF Bare
  <2> QED
    BY <2>4, <2>5, <2>6 DEF Bare
<1>8. pass' > 2 => fn'[f].direct = WriteEdges(f)
  <2>1. CASE pass = 2
    BY <1>5, <2>1, Acts DEF StorageMutations, FnPass, FnAttributes
  <2> QED
    BY <1>1, <1>5, <2>1, Unassigned DEF GuardFacts
<1>9. pass' > 5 => (fn'[f].hasAC <=> Guarding(f) # {})
  <2>1. CASE pass = 5
    BY <1>17, <2>1
  <2> QED
    BY <1>1, <1>5, <2>1, Unassigned DEF GuardFacts
<1>10. pass' > 6 => fn'[f].extEdges = Calls(f)
  <2>1. CASE pass = 6
    <3>1. ExternalCalls
      BY <2>1, Acts
    <3> QED
      BY <1>5, <3>1, Attributes DEF ExternalCalls
  <2> QED
    BY <1>1, <1>5, <2>1, Unassigned DEF GuardFacts
<1>11. /\ pass' <= 5 => fn'[f].protected = FALSE
       /\ pass' \in 6..21 => (fn'[f].protected <=> ~Bare(f))
  <2>1. CASE pass = 1
    BY <1>1, <1>7, <2>1 DEF NewFn
  <2>2. CASE pass = 5
    <3>1. fn[f].protected = FALSE
      BY <1>5, <2>2 DEF GuardFacts
    <3> QED
      BY <1>1, <1>17, <2>2, <3>1
  <2>3. CASE pass \in {21, 22, 23, 24}
    BY <1>1, <2>3
  <2>4. CASE pass \notin {1, 5, 21, 22, 23, 24}
    <3>1. fn'[f].protected = fn[f].protected
      BY <1>5, <2>4, Unassigned
    <3> QED
      BY <1>1, <1>5, <2>4, <3>1 DEF GuardFacts
  <2> QED
    BY <2>1, <2>2, <2>3, <2>4
<1>18. Unasked(f) => fn'[f].protected = FALSE
  <2>1. CASE pass = 1
    BY <1>1, <1>7, <2>1 DEF NewFn
  <2>2. CASE pass = 5
    BY <1>4, <1>5, <1>17, <2>2 DEF GuardFacts
  <2>3. CASE pass = 21
    <3>1. ASSUME Unasked(f) PROVE ~InitGuard(f)
      BY <1>4, <1>6, <2>3, <3>1 DEF InitGuard, ChecksInit
    <3>2. Initializer
      BY <2>3, Acts
    <3> DEFINE a == [fn[f] EXCEPT !.initGuard = InitGuard(f),
                                  !.safeInit = InitGuard(f) /\ (fn[f].protected \/ fn[f].initMod)]
    <3>3. fn'[f] = IF InitGuard(f) THEN Clear([a EXCEPT !.protected = TRUE]) ELSE a
      BY <3>2 DEF Initializer, FnPass
    <3>4. a.protected = fn[f].protected
      BY <1>5, Attributes
    <3> HIDE DEF a
    <3> QED
      BY <1>5, <3>1, <3>3, <3>4 DEF GuardFacts
  <2>4. CASE pass = 22
    <3>1. fn'[f].protected = (fn[f].protected \/ RequireAC(f))
      <4>1. RequireAccess
        BY <2>4, Acts
      <4> QED
        BY <1>5, <4>1, Attributes DEF RequireAccess, FnPass
    <3>2. ASSUME Unasked(f) PROVE ~RequireAC(f)
      BY <1>4, <3>2 DEF Bare, InlineCheck, RequireAC
    <3> QED
      BY <1>5, <3>1, <3>2 DEF GuardFacts
  <2>5. CASE pass = 23
    <3>1. ASSUME Unasked(f) PROVE fn'[f] = fn[f]
      <4>1. ~CallsGuard(f)
        BY <1>4, <1>6, <2>5, <3>1 DEF CallsGuard, HasGuard
      <4> QED
        BY <2>5, <4>1, Acts DEF GuardCalls, FnPass
    <3> QED
      BY <1>5, <3>1 DEF GuardFacts
  <2>6. CASE pass = 24
    <3>1. ASSUME Unasked(f) PROVE fn'[f] = fn[f]
      <4>1. ~AsksRegistry(f)
        BY <1>4, <1>5, <2>6, <3>1 DEF AsksRegistry, AsksRole, GuardFacts
      <4> QED
        BY <2>6, <4>1, Acts DEF RoleRegistry, FnPass
    <3> QED
      BY <1>5, <3>1 DEF GuardFacts
  <2>7. CASE pass \notin {1, 5, 21, 22, 23, 24}
    <3>1. fn'[f].protected = fn[f].protected
      BY <1>5, <2>7, Unassigned
    <3> QED
      BY <1>5, <3>1 DEF GuardFacts
  <2> QED
    BY <2>1, <2>2, <2>3, <2>4, <2>5, <2>6, <2>7
<1>12. /\ pass' <= 22 => fn'[f].acType = "none"
       /\ Unasked(f) => fn'[f].acType = "none"
  <2>1. CASE pass = 1
    BY <1>1, <1>7, <2>1 DEF NewFn
  <2>2. CASE pass = 22
    <3>1. fn'[f].acType = CASE fn[f].hasAC /\ RequireAC(f) -> "both"
                            [] fn[f].hasAC /\ ~RequireAC(f) -> "modifier"
                            [] ~fn[f].hasAC /\ RequireAC(f) -> "require-based"
                            [] ~fn[f].hasAC /\ ~RequireAC(f) -> "none"
      <4>1. RequireAccess
        BY <2>2, Acts
      <4> QED
        BY <1>5, <4>1, Attributes DEF RequireAccess, FnPass
    <3>2. ASSUME Unasked(f) PROVE ~fn[f].hasAC /\ ~RequireAC(f)
      BY <1>4, <1>5, <2>2, <3>2 DEF GuardFacts, Bare, InlineCheck, RequireAC
    <3> QED
      BY <1>1, <2>2, <3>1, <3>2
  <2>3. CASE pass = 23
    <3>1. ASSUME Unasked(f) PROVE fn'[f] = fn[f]
      <4>1. ~CallsGuard(f)
        BY <1>4, <1>6, <2>3, <3>1 DEF CallsGuard, HasGuard
      <4> QED
        BY <2>3, <4>1, Acts DEF GuardCalls, FnPass
    <3> QED
      BY <1>1, <1>5, <2>3, <3>1 DEF GuardFacts
  <2>4. CASE pass = 24
    <3>1. ASSUME Unasked(f) PROVE fn'[f] = fn[f]
      <4>1. ~AsksRegistry(f)
        BY <1>4, <1>5, <2>4, <3>1 DEF AsksRegistry, AsksRole, GuardFacts
      <4> QED
        BY <2>4, <4>1, Acts DEF RoleRegistry, FnPass
    <3> QED
      BY <1>1, <1>5, <2>4, <3>1 DEF GuardFacts
  <2> QED
    BY <1>1, <1>5, <2>1, <2>2, <2>3, <2>4, Unassigned DEF GuardFacts
<1>13. /\ pass' <= 5 => fn'[f].conf = 0
       /\ Unasked(f) => fn'[f].conf = 0
  <2>1. CASE pass = 1
    BY <1>1, <1>7, <2>1 DEF NewFn
  <2>2. CASE pass = 5
    <3>1. ASSUME Unasked(f) PROVE fn'[f].conf = Max({fn[f].conf, 0, 0})
      BY <1>4, <1>17, <2>2, <3>1
    <3>2. fn[f].conf = 0
      BY <1>5, <2>2 DEF GuardFacts
    <3>3. Max({0, 0, 0}) = 0
      BY DEF Max
    <3> QED
      BY <1>1, <2>2, <3>1, <3>2, <3>3
  <2>3. CASE pass = 23
    <3>1. ASSUME Unasked(f) PROVE fn'[f] = fn[f]
      <4>1. ~CallsGuard(f)
        BY <1>4, <1>6, <2>3, <3>1 DEF CallsGuard, HasGuard
      <4> QED
        BY <2>3, <4>1, Acts DEF GuardCalls, FnPass
    <3> QED
      BY <1>1, <1>5, <2>3, <3>1 DEF GuardFacts
  <2>4. CASE pass = 24
    <3>1. ASSUME Unasked(f) PROVE fn'[f] = fn[f]
      <4>1. ~AsksRegistry(f)
        BY <1>4, <1>5, <2>4, <3>1 DEF AsksRegistry, AsksRole, GuardFacts
      <4> QED
        BY <2>4, <4>1, Acts DEF RoleRegistry, FnPass
    <3> QED
      BY <1>1, <1>5, <2>4, <3>1 DEF GuardFacts
  <2>5. CASE pass = 25
    <3>1. fn'[f].conf = IF SsaFailed(Src(f).contract) THEN (fn[f].conf * 7) \div 10 ELSE fn[f].conf
      BY <1>5, <2>5, Acts DEF SsaDampening, FnAttributes
    <3>2. Unasked(f) => fn[f].conf = 0
      BY <1>5 DEF GuardFacts
    <3>3. (0 * 7) \div 10 = 0
      OBVIOUS
    <3> QED
      BY <1>1, <2>5, <3>1, <3>2, <3>3
  <2> QED
    BY <1>1, <1>5, <2>1, <2>2, <2>3, <2>4, <2>5, Unassigned DEF GuardFacts
<1>14. /\ pass' <= 23 => fn'[f].guardCall = FALSE
       /\ pass' > 23 => (fn'[f].guardCall <=> HasGuard(f))
  <2>1. CASE pass = 1
    BY <1>1, <1>7, <2>1 DEF NewFn
  <2>2. CASE pass = 23
    <3>1. CallsGuard(f) <=> HasGuard(f)
      BY <1>6, <2>2 DEF CallsGuard, HasGuard
    <3>2. fn[f].guardCall = FALSE
      BY <1>5, <2>2 DEF GuardFacts
    <3>3. fn'[f] = IF CallsGuard(f)
                   THEN [Update(fn[f], 850, "internal-guard") EXCEPT !.guardCall = TRUE]
                   ELSE fn[f]
      BY <2>2, Acts DEF GuardCalls, FnPass
    <3>4. CallsGuard(f) => fn'[f].guardCall = TRUE
      BY <1>5, <3>3, Updates DEF FnAttributes
    <3> QED
      BY <1>1, <2>2, <3>1, <3>2, <3>3, <3>4
  <2>3. CASE pass \notin {1, 23}
    <3>1. fn'[f].guardCall = fn[f].guardCall
      BY <1>5, <2>3, Unassigned
    <3> QED
      BY <1>1, <1>5, <2>3, <3>1 DEF GuardFacts
  <2> QED
    BY <2>1, <2>2, <2>3
<1>15. /\ pass' <= 24 => fn'[f].roleGuard = FALSE
       /\ pass' > 24 => (fn'[f].roleGuard <=> AsksRole(f))
  <2>1. CASE pass = 1
    BY <1>1, <1>7, <2>1 DEF NewFn
  <2>2. CASE pass = 24
    <3>1. AsksRegistry(f) <=> AsksRole(f)
      BY <1>5, <2>2 DEF AsksRegistry, AsksRole, GuardFacts
    <3>2. fn[f].roleGuard = FALSE
      BY <1>5, <2>2 DEF GuardFacts
    <3>3. fn'[f] = IF AsksRegistry(f)
                   THEN [Update(fn[f], 800, "external-role") EXCEPT !.roleGuard = TRUE]
                   ELSE fn[f]
      BY <2>2, Acts DEF RoleRegistry, FnPass
    <3>4. AsksRegistry(f) => fn'[f].roleGuard = TRUE
      BY <1>5, <3>3, Updates DEF FnAttributes
    <3> QED
      BY <1>1, <2>2, <3>1, <3>2, <3>3, <3>4
  <2>3. CASE pass \notin {1, 24}
    <3>1. fn'[f].roleGuard = fn[f].roleGuard
      BY <1>5, <2>3, Unassigned
    <3> QED
      BY <1>1, <1>5, <2>3, <3>1 DEF GuardFacts
  <2> QED
    BY <2>1, <2>2, <2>3
<1>16. /\ pass' \in 15..21 => (fn'[f].unprotected <=> Open(f) /\ Bare(f))
       /\ pass' \in 22..27 => (fn'[f].unprotected <=> Open(f) /\ Bare(f) /\ ~ChecksInit(f))
       /\ pass' > 27 => (fn'[f].unprotected <=> Open(f) /\ Unasked(f))
  <2>1. CASE pass = 1
    BY <1>1, <2>1
  <2>2. CASE pass = 14
    <3>1. fn'[f].unprotected = Exposed(f)
      <4>1. UnprotectedMutators
        BY <2>2, Acts
      <4> QED
        BY <1>5, <4>1, Attributes DEF UnprotectedMutators, FnPass
    <3>2. Exposed(f) <=> Open(f) /\ Bare(f)
      BY <1>5, <2>2 DEF Exposed, Open, Entry, GuardFacts
    <3> QED
      BY <1>1, <2>2, <3>1, <3>2
  <2>3. CASE pass = 21
    <3>1. InitGuard(f) <=> ChecksInit(f)
      BY <1>6, <2>3 DEF InitGuard, ChecksInit
    <3>2. fn'[f].unprotected = IF InitGuard(f) THEN FALSE ELSE fn[f].unprotected
      <4>1. Initializer
        BY <2>3, Acts
      <4>2. DEFINE a == [fn[f] EXCEPT !.initGuard = InitGuard(f),
                                      !.safeInit = InitGuard(f) /\ (fn[f].protected \/ fn[f].initMod)]
      <4>3. fn'[f] = IF InitGuard(f) THEN Clear([a EXCEPT !.protected = TRUE]) ELSE a
        BY <4>1 DEF Initializer, FnPass
      <4>4. DOMAIN a = FnAttributes /\ a.unprotected = fn[f].unprotected
        BY <1>5, Attributes
      <4>5. Clear([a EXCEPT !.protected = TRUE]).unprotected = FALSE
        <5> HIDE DEF a
        <5> QED
          BY <4>4, Attributes DEF Clear
      <4> QED
        BY <4>3, <4>4, <4>5
    <3>3. fn[f].unprotected <=> Open(f) /\ Bare(f)
      BY <1>5, <2>3 DEF GuardFacts
    <3> QED
      BY <1>1, <2>3, <3>1, <3>2, <3>3
  <2>4. CASE pass = 27
    <3>1. fn'[f].unprotected <=> fn[f].unprotected /\ ~EffectivelyProtected(f)
      <4>1. fn'[f] = IF fn[f].unprotected /\ EffectivelyProtected(f) THEN Clear(fn[f]) ELSE fn[f]
        BY <2>4, Acts DEF RecomputeUnprotected, FnPass
      <4>2. Clear(fn[f]).unprotected = FALSE
        BY <1>5 DEF Clear, FnAttributes
      <4> QED
        BY <4>1, <4>2
    <3>2. fn[f].unprotected <=> Open(f) /\ Bare(f) /\ ~ChecksInit(f)
      BY <1>5, <2>4 DEF GuardFacts
    <3>3. /\ fn[f].guardCall <=> HasGuard(f)
          /\ fn[f].roleGuard <=> AsksRole(f)
          /\ Unasked(f) => fn[f].acType = "none" /\ fn[f].conf = 0
      BY <1>5, <2>4 DEF GuardFacts
    <3>4. Unasked(f) => ~EffectivelyProtected(f)
      BY <1>4, <3>3 DEF EffectivelyProtected, ProtectedTypes
    <3>5. HasGuard(f) \/ AsksRole(f) => EffectivelyProtected(f)
      BY <3>3 DEF EffectivelyProtected
    <3> QED
      BY <1>1, <1>4, <2>4, <3>1, <3>2, <3>4, <3>5
  <2> QED
    BY <1>1, <1>5, <2>1, <2>2, <2>3, <2>4, Unassigned DEF GuardFacts
<1> QED
  BY <1>2, <1>3, <1>8, <1>9, <1>10, <1>11, <1>12, <1>13, <1>14, <1>15, <1>16, <1>18 DEF GuardFacts

LEMMA GuardInvInductive ==
  /\ Init => GuardInv
  /\ GuardInv /\ [Next]_<<vars, hotspots>> => GuardInv'
<1>1. ASSUME Init PROVE GuardInv
  <2>1. /\ pass = 1 /\ prog \in Programs
        /\ DOMAIN fn = Fns /\ DOMAIN sv = Svs /\ DOMAIN ct = Contracts
        /\ \A f \in Fns : fn[f] = NewFn(f)
        /\ \A v \in Svs : sv[v] = NewSv
        /\ \A c \in Contracts : ct[c] = NewCt
    BY <1>1 DEF Init
  <2>2. Shape
    BY <2>1 DEF Shape, NewFn, NewSv, NewCt, FnAttributes, SvAttributes, CtAttributes
  <2>3. Labels
    BY <2>1 DEF Labels
  <2>4. \A f \in Fns : GuardFacts(f)
    BY <2>1 DEF GuardFacts, NewFn
  <2> QED
    BY <2>1, <2>2, <2>3, <2>4 DEF GuardInv
<1>2. ASSUME GuardInv, Next PROVE GuardInv'
  <2>1. /\ pass \in 1..38 /\ pass' = pass + 1 /\ prog' = prog
        /\ FnOnly(FnSet[pass]) /\ SvOnly(SvSet[pass]) /\ CtOnly(CtSet[pass])
    BY <1>2, Frame DEF GuardInv, Sets
  <2>2. Fns' = Fns /\ Svs' = Svs /\ Contracts' = Contracts
    BY <2>1, SameProgram
  <2>3. Shape'
    BY <2>1, <2>2 DEF Shape, FnOnly, SvOnly, CtOnly
  <2>4. Labels'
    BY <1>2, LabelsStep
  <2>5. (\A f \in Fns : GuardFacts(f))'
    BY <1>2, <2>2, GuardFactsStep
  <2> QED
    BY <1>2, <2>1, <2>3, <2>4, <2>5 DEF GuardInv
<1>3. ASSUME GuardInv, UNCHANGED <<vars, hotspots>> PROVE GuardInv'
  <2>1. prog' = prog /\ rel' = rel /\ fn' = fn /\ sv' = sv /\ ct' = ct /\ pass' = pass
    BY <1>3 DEF vars
  <2>2. /\ Fns' = Fns /\ Svs' = Svs /\ Contracts' = Contracts
        /\ \A f : CallEdges(f)' = CallEdges(f)
    BY <2>1, SameProgram
  <2>3. Shape' /\ Labels'
    BY <1>3, <2>1, <2>2 DEF GuardInv, Shape, Labels
  <2>4. ASSUME NEW f \in Fns PROVE GuardFacts(f)'
    <3>1. /\ WriteEdges(f)' = WriteEdges(f)
          /\ Guarding(f)' = Guarding(f)
          /\ Calls(f)' = Calls(f)
          /\ Open(f)' <=> Open(f)
          /\ Bare(f)' <=> Bare(f)
          /\ ChecksInit(f)' <=> ChecksInit(f)
          /\ HasGuard(f)' <=> HasGuard(f)
          /\ AsksRole(f)' <=> AsksRole(f)
      BY <2>1, SameProgram
    <3>2. Unasked(f)' <=> Unasked(f)
      BY <3>1 DEF Unasked
    <3>3. GuardFacts(f)
      BY <1>3 DEF GuardInv
    <3> QED
      BY <2>1, <3>1, <3>2, <3>3 DEF GuardFacts
  <2> QED
    BY <1>3, <2>1, <2>2, <2>3, <2>4 DEF GuardInv
<1> QED
  BY <1>1, <1>2, <1>3

LEMMA GuardInvHolds == Spec => []GuardInv
BY GuardInvInductive, PTL DEF Spec

LEMMA Through ==
  ASSUME pass \in 1..39
  PROVE  /\ After("propagate_writes") => pass > 3
         /\ After("external_calls") => pass > 6
         /\ After("recompute") => pass > 27
         /\ After("taint") => pass > 29
         /\ Done <=> pass = 39
<1>1. /\ Len(Passes) = 38
      /\ \A i \in 1..38 : /\ Passes[i] = "propagate_writes" => i = 3
                          /\ Passes[i] = "external_calls" => i = 6
                          /\ Passes[i] = "recompute" => i = 27
                          /\ Passes[i] = "taint" => i = 29
  BY DEF Passes
<1> QED
  BY <1>1 DEF After, Done

(* A function has none of what the passes look for exactly when it checks  *)
(* no caller and has nothing else that they take for a guard.              *)
LEMMA GuardingParts ==
  ASSUME prog \in Programs, NEW f
  PROVE  Guarding(f) # {} <=>
            \E name \in ToSet(Src(f).mods) : \E m \in Resolved(f, name) :
               prog.mod[m].check \in {"sender", "origin", "flag"}
<1>1. \A c, name : Defined(c, name) \subseteq Mods
  BY DEF Defined
<1>2. \A name : Resolved(f, name) \subseteq Mods
  BY <1>1 DEF Resolved
<1>3. \A m \in Mods : prog.mod[m].check \in {"none", "sender", "origin", "flag"}
  BY ProgramAssumption DEF WellFormed, Mods
<1>4. ASSUME NEW m \in Mods
      PROVE  Pattern(m) # "none" <=> prog.mod[m].check \in {"sender", "origin", "flag"}
  BY <1>3 DEF Pattern
<1> QED
  BY <1>2, <1>4 DEF Guarding

LEMMA GuardParts ==
  ASSUME NEW g
  PROVE  IsGuard(g) <=>
            /\ ~Public(g)
            /\ \/ InlineCheck(g)
               \/ Says(g, "guard_name") \/ (Says(g, "sender") /\ At(g, "require") # {})
<1>1. InlineCheck(g) => At(g, "require") # {}
  BY DEF InlineCheck, Checks
<1> QED
  BY <1>1 DEF IsGuard

LEMMA CheckedParts ==
  ASSUME prog \in Programs, NEW f
  PROVE  Unasked(f) <=> ~ChecksCaller(f) /\ ~TakenForGuard(f)
<1> DEFINE Held(checks) ==
             \E name \in ToSet(Src(f).mods) : \E m \in Resolved(f, name) : prog.mod[m].check \in checks
           Named(g) == Says(g, "guard_name") \/ (Says(g, "sender") /\ At(g, "require") # {})
<1>1. Guarding(f) # {} <=> Held({"sender", "origin"}) \/ Held({"flag"})
  <2>1. Guarding(f) # {} <=> Held({"sender", "origin", "flag"})
    BY GuardingParts
  <2> QED
    BY <2>1
<1>2. (\E g \in CallEdges(f) : IsGuard(g))
        <=> \/ \E g \in CallEdges(f) : ~Public(g) /\ InlineCheck(g)
            \/ \E g \in CallEdges(f) : ~Public(g) /\ Named(g)
  BY GuardParts
<1>3. ChecksCaller(f) <=> \/ InlineCheck(f) \/ Held({"sender", "origin"})
                          \/ \E g \in CallEdges(f) : ~Public(g) /\ InlineCheck(g)
  BY DEF ChecksCaller
<1>4. TakenForGuard(f) <=> \/ Held({"flag"}) \/ ChecksInit(f) \/ Says(f, "lib_guard_call")
                           \/ \E g \in CallEdges(f) : ~Public(g) /\ Named(g)
                           \/ AsksRole(f)
  BY DEF TakenForGuard, ChecksInit, AsksRole
<1> HIDE DEF Held, Named
<1> QED
  BY <1>1, <1>2, <1>3, <1>4 DEF Unasked, Bare, HasGuard

(* After five passes that set and clear it, is_unprotected_mutator stands  *)
(* for the entries that write state, check no caller and have nothing else *)
(* that is taken for a guard, whatever the program; so no flagged function *)
(* checks its caller.                                                      *)
THEOREM UnprotectedIsExact == Spec => []UnprotectedExact
<1>1. GuardInv => UnprotectedExact
  <2> SUFFICES ASSUME GuardInv, After("recompute"), NEW f \in Fns
               PROVE  fn[f].unprotected <=> /\ Entry(f) /\ WriteEdges(f) # {}
                                            /\ ~ChecksCaller(f) /\ ~TakenForGuard(f)
    BY DEF UnprotectedExact
  <2>1. pass > 27
    BY Through DEF GuardInv
  <2>2. GuardFacts(f) /\ pass \in 1..39 /\ prog \in Programs
    BY DEF GuardInv
  <2>3. fn[f].unprotected <=> Open(f) /\ Unasked(f)
    BY <2>1, <2>2 DEF GuardFacts
  <2> QED
    BY <2>2, <2>3, CheckedParts DEF Open
<1> QED
  BY <1>1, GuardInvHolds, PTL

-----------------------------------------------------------------------------
(* The escalation pass runs when only the flags of entries that an         *)
(* initialiser guard, a guard function or a registry protects are wrong,   *)
(* and these are set: later passes only clear them.                        *)

Attackable(f, v) ==
    /\ Open(f) /\ Bare(f) /\ v \in fn[f].propagated
    /\ \E c \in Contracts : v \in ct[c].roles

EscalationFacts ==
    /\ pass > 15 => \A v \in Svs :
          /\ sv[v].roles = {c \in Contracts : v \in ct[c].roles}
          /\ sv[v].writers = {f \in Fns : v \in fn[f].propagated}
    /\ pass > 16 => \A f \in Fns, v \in Svs :
          Attackable(f, v) => fn[f].escalate /\ f \in sv[v].risky

LEMMA EscalationFactsInductive ==
  /\ Init => EscalationFacts
  /\ GuardInv /\ EscalationFacts /\ [Next]_<<vars, hotspots>> => EscalationFacts'
<1>1. Init => EscalationFacts
  BY DEF Init, EscalationFacts
<1>2. ASSUME GuardInv, EscalationFacts, Next PROVE EscalationFacts'
  <2>1. /\ prog' = prog /\ pass \in 1..38 /\ pass' = pass + 1
        /\ Fns' = Fns /\ Svs' = Svs /\ Contracts' = Contracts
        /\ \A f : (Open(f)' <=> Open(f)) /\ (Bare(f)' <=> Bare(f))
    BY <1>2, Unassigned, SameProgram DEF GuardInv
  <2>2. pass \in 15..38 => /\ \A f \in Fns : fn'[f].propagated = fn[f].propagated
                           /\ \A c \in Contracts : ct'[c].roles = ct[c].roles
    BY <1>2, Unassigned DEF GuardInv
  <2>3. ASSUME pass \in 15..38, NEW f \in Fns, NEW v \in Svs
        PROVE  Attackable(f, v)' <=> Attackable(f, v)
    BY <2>1, <2>2, <2>3 DEF Attackable
  <2>4. ASSUME pass' > 15, NEW v \in Svs
        PROVE  /\ sv'[v].roles = {c \in Contracts : v \in ct'[c].roles}
               /\ sv'[v].writers = {f \in Fns : v \in fn'[f].propagated}
    <3>1. CASE pass = 15
      <4>1. ReverseMapping
        BY <1>2, <3>1, Acts
      <4>2. /\ sv'[v] = [sv[v] EXCEPT !.roles = {c \in Contracts : v \in ct[c].roles},
                                      !.writers = {f \in Fns : v \in fn[f].propagated}]
            /\ ct' = ct /\ fn' = fn
        BY <4>1 DEF ReverseMapping, SvPass
      <4>3. {"roles", "writers"} \subseteq DOMAIN sv[v]
        BY <1>2 DEF GuardInv, Shape, SvAttributes
      <4> QED
        BY <4>2, <4>3
    <3>2. CASE pass > 15
      <4>1. /\ sv[v].roles = {c \in Contracts : v \in ct[c].roles}
            /\ sv[v].writers = {f \in Fns : v \in fn[f].propagated}
        BY <1>2, <3>2 DEF EscalationFacts
      <4>2. sv'[v].roles = sv[v].roles /\ sv'[v].writers = sv[v].writers
        BY <1>2, <2>1, <3>2, Unassigned DEF GuardInv
      <4>3. {c \in Contracts : v \in ct'[c].roles} = {c \in Contracts : v \in ct[c].roles}
        BY <2>1, <2>2, <3>2
      <4>4. {f \in Fns : v \in fn'[f].propagated} = {f \in Fns : v \in fn[f].propagated}
        BY <2>1, <2>2, <3>2
      <4> QED
        BY <4>1, <4>2, <4>3, <4>4
    <3> QED
      BY <2>1, <2>4, <3>1, <3>2
  <2>5. ASSUME pass' > 16, NEW f \in Fns, NEW v \in Svs, Attackable(f, v)
        PROVE  fn'[f].escalate /\ f \in sv'[v].risky
    <3>1. CASE pass = 16
      <4>1. Escalation
        BY <1>2, <3>1, Acts
      <4>2. /\ sv'[v] = [sv[v] EXCEPT !.escalation = Risky(v) # {}, !.risky = Risky(v)]
            /\ fn'[f] = [fn[f] EXCEPT !.escalate = \E w \in Svs : f \in Risky(w)]
        BY <4>1 DEF Escalation
      <4>3. /\ "risky" \in DOMAIN sv[v] /\ DOMAIN fn[f] = FnAttributes
            /\ GuardFacts(f)
        BY <1>2 DEF GuardInv, Shape, SvAttributes
      <4>4. f \in Risky(v)
        <5>1. fn[f].unprotected
          BY <2>5, <3>1, <4>3 DEF GuardFacts, Attackable
        <5>2. f \in sv[v].writers /\ sv[v].roles # {}
          BY <1>2, <2>5, <3>1 DEF EscalationFacts, Attackable
        <5> QED
          BY <5>1, <5>2 DEF Risky
      <4>5. sv'[v].risky = Risky(v)
        BY <4>2, <4>3
      <4>6. fn'[f].escalate = (\E w \in Svs : f \in Risky(w))
        BY <4>2, <4>3, Attributes
      <4> QED
        BY <4>4, <4>5, <4>6
    <3>2. CASE pass > 16
      <4>1. fn[f].escalate /\ f \in sv[v].risky
        BY <1>2, <2>5, <3>2 DEF EscalationFacts
      <4>2. fn'[f].escalate = fn[f].escalate /\ sv'[v].risky = sv[v].risky
        BY <1>2, <2>1, <3>2, Unassigned DEF GuardInv
      <4> QED
        BY <4>1, <4>2
    <3> QED
      BY <2>1, <2>5, <3>1, <3>2
  <2>6. pass' > 16 => \A f \in Fns, v \in Svs :
           Attackable(f, v)' => fn'[f].escalate /\ f \in sv'[v].risky
    BY <2>1, <2>3, <2>5
  <2>7. /\ pass' > 15 => \A v \in Svs :
              /\ sv'[v].roles = {c \in Contracts : v \in ct'[c].roles}
              /\ sv'[v].writers = {f \in Fns : v \in fn'[f].propagated}
    BY <2>4
  <2> QED
    BY <2>1, <2>6, <2>7 DEF EscalationFacts
<1>3. ASSUME EscalationFacts, UNCHANGED <<vars, hotspots>> PROVE EscalationFacts'
  <2>1. prog' = prog /\ fn' = fn /\ sv' = sv /\ ct' = ct /\ pass' = pass
    BY <1>3 DEF vars
  <2>2. /\ Fns' = Fns /\ Svs' = Svs /\ Contracts' = Contracts
        /\ \A f : (Open(f)' <=> Open(f)) /\ (Bare(f)' <=> Bare(f))
    BY <2>1, SameProgram
  <2>3. \A f, v : Attackable(f, v)' <=> Attackable(f, v)
    BY <2>1, <2>2 DEF Attackable
  <2> QED
    BY <1>3, <2>1, <2>2, <2>3 DEF EscalationFacts
<1> QED
  BY <1>1, <1>2, <1>3

(* The escalation pass reads is_unprotected_mutator before it is final; no *)
(* function that stays unprotected and writes a variable that a guard      *)
(* compares is missed all the same, whatever the program.                  *)
THEOREM EscalationIsComplete == Spec => []EscalationComplete
<1>1. GuardInv /\ EscalationFacts => EscalationComplete
  <2> SUFFICES ASSUME GuardInv, EscalationFacts, Done, NEW f \in Fns, NEW v \in Svs,
                      fn[f].unprotected, v \in fn[f].propagated,
                      \E c \in Contracts : v \in ct[c].roles
               PROVE  fn[f].escalate /\ f \in sv[v].risky
    BY DEF EscalationComplete
  <2>1. pass > 27 /\ pass \in 1..39
    BY Through DEF GuardInv
  <2>2. GuardFacts(f)
    BY DEF GuardInv
  <2>3. Open(f) /\ Unasked(f)
    BY <2>1, <2>2 DEF GuardFacts
  <2>4. Attackable(f, v)
    BY <2>3 DEF Attackable, Unasked
  <2> QED
    BY <2>1, <2>4 DEF EscalationFacts
<1> QED
  BY <1>1, GuardInvHolds, GuardInvInductive, EscalationFactsInductive, PTL DEF Spec

-----------------------------------------------------------------------------
(* What the finished graph answers of a function, a variable and a chain.  *)

LEMMA LeastOf ==
  ASSUME NEW S \in SUBSET Nat, S # {}
  PROVE  Min(S) \in S /\ \A k \in S : Min(S) <= k
<1> DEFINE R == OpToRel(<, Nat)
<1>1. PICK m \in S : \A k \in S : ~(<<k, m>> \in R)
  <2> HIDE DEF R
  <2>1. IsWellFoundedOn(R, Nat)
    BY NatLessThanWellFounded DEF R
  <2> QED
    BY <2>1, WFMin
<1>2. ASSUME NEW k \in S PROVE m <= k
  <2>1. k \in Nat /\ m \in Nat
    OBVIOUS
  <2>2. k < m => <<k, m>> \in R
    BY <2>1 DEF OpToRel
  <2>3. ~(k < m)
    BY <1>1, <2>2
  <2> QED
    BY <2>1, <2>3
<1>3. m \in S /\ \A k \in S : m <= k
  BY <1>2
<1> QED
  BY <1>3 DEF Min

LEMMA FunctionList ==
  ASSUME prog \in Programs
  PROVE  Len(prog.fun) \in Nat /\ Fns = 1..Len(prog.fun)
BY ProgramAssumption DEF WellFormed, Fns

(* A dependency edge joins two functions of a contract that share state.   *)
Depended ==
    /\ pass <= 30 => \A f \in Fns, g \in Fns : rel[f][g] # "STATE_DEPENDENCY"
    /\ pass > 30 => \A f \in Fns, g \in Fns : rel[f][g] = "STATE_DEPENDENCY" <=> Depends(f, g)

Linked(a, b) ==
    /\ a \in Fns /\ b \in Fns /\ a # b
    /\ rel[a][b] = "STATE_DEPENDENCY" /\ fn[b].entries # {}

Follow(f, s) == "reader" \in DOMAIN s /\ Linked(f, s.reader)

Stepwise(x) ==
    /\ Len(x.steps) \in 2..MaxDepth /\ IsInjective(x.steps)
    /\ \A i \in 1..(Len(x.steps) - 1) : Linked(x.steps[i], x.steps[i + 1])
    /\ x.feasibility \in 0..100

FnAnswers(f) ==
    /\ pass > 4 /\ Entry(f) => fn[f].entries # {}
    /\ pass > 11 /\ fn[f].reentrancy => Calls(f) # {} /\ ~fn[f].ceiOnly
    /\ pass > 16 => (fn[f].escalate <=> \E v \in Svs : f \in sv[v].risky)
    /\ pass > 17 /\ fn[f].lengthMutation => WriteEdges(f) # {}
    /\ pass > 18 /\ fn[f].delegateRisk => Calls(f) # {}
    /\ pass > 21 => (fn[f].initGuard <=> ChecksInit(f))
    /\ pass > 29 => \A v \in Svs : f \in sv[v].taintedBy /\ sv[v].tags # {} => fn[f].taintRisks # {}
    /\ pass > 31 => \A s \in fn[f].sequences : Follow(f, s)
    /\ pass > 32 => \A x \in fn[f].chains : Stepwise(x)
    /\ pass > 34 => ("REENTRANCY_RISK" \in fn[f].extTags <=> fn[f].reentrancy)
    /\ pass > 37 /\ fn[f].send => fn[f].entries # {}

SvAnswers(v) ==
    /\ pass > 16 => sv[v].risky \subseteq Fns /\ (sv[v].escalation <=> sv[v].risky # {})
    /\ pass > 29 => sv[v].taintedBy \subseteq Fns

AnswerInv ==
    /\ GuardInv /\ EscalationFacts /\ Depended
    /\ \A f \in Fns : FnAnswers(f)
    /\ \A v \in Svs : SvAnswers(v)

LEMMA SameDepends ==
  ASSUME prog' = prog, pass > 3, GuardInv, Next
  PROVE  \A f \in Fns, g \in Fns : Depends(f, g)' <=> Depends(f, g)
<1>1. \A f \in Fns : fn'[f].propagated = fn[f].propagated
  BY Unassigned DEF GuardInv
<1>2. \A f : WriteEdges(f)' = WriteEdges(f)
  BY SameProgram
<1>3. \A f : ReadEdges(f)' = ReadEdges(f)
  BY <1>2 DEF ReadEdges, At, Body, Src
<1>4. \A f \in Fns : StateWrites(f)' = StateWrites(f) /\ StateReads(f)' = StateReads(f)
  BY <1>1, <1>2, <1>3 DEF StateWrites, StateReads
<1>5. \A f \in Fns, g \in Fns : Shared(f, g)' = Shared(f, g)
  BY <1>4 DEF Shared
<1> QED
  BY <1>5 DEF Depends, Src

LEMMA DependedStep ==
  ASSUME GuardInv, Depended, Next
  PROVE  Depended'
<1>1. /\ prog' = prog /\ pass \in 1..38 /\ pass' = pass + 1 /\ Fns' = Fns
  BY Unassigned, SameProgram DEF GuardInv
<1>2. pass \notin {1, 6, 30} => rel' = rel
  BY UnassignedLater DEF GuardInv
<1>3. CASE pass = 1
  <2>1. rel' = [f \in Fns |-> [g \in Fns |-> FirstLabel(f, g)]]
    BY <1>3, Acts DEF AddNodes
  <2>2. \A f, g : FirstLabel(f, g) # "STATE_DEPENDENCY"
    BY DEF FirstLabel
  <2> QED
    BY <1>1, <1>3, <2>1, <2>2 DEF Depended
<1>4. CASE pass = 6
  <2>1. ExternalCalls
    BY <1>4, Acts
  <2>2. \A f \in Fns, g \in Fns :
           rel'[f][g] = IF \E i \in Externals(f) : Body(f)[i].to = g /\ Resolves(f, i)
                        THEN "EXTERNAL_CALL" ELSE rel[f][g]
    BY <2>1 DEF ExternalCalls
  <2> QED
    BY <1>1, <1>4, <2>2 DEF Depended
<1>5. CASE pass = 30
  <2>1. Dependencies
    BY <1>5, Acts
  <2>2. \A f \in Fns, g \in Fns :
           rel'[f][g] = IF Depends(f, g) THEN "STATE_DEPENDENCY" ELSE rel[f][g]
    BY <2>1 DEF Dependencies
  <2>3. \A f \in Fns, g \in Fns : Depends(f, g)' <=> Depends(f, g)
    BY <1>1, <1>5, SameDepends
  <2> QED
    BY <1>1, <1>5, <2>2, <2>3 DEF Depended
<1>6. CASE pass \in 2..29 \ {6}
  BY <1>1, <1>2, <1>6 DEF Depended
<1>7. CASE pass \in 31..38
  <2>1. \A f \in Fns, g \in Fns : Depends(f, g)' <=> Depends(f, g)
    BY <1>1, <1>7, SameDepends
  <2> QED
    BY <1>1, <1>2, <1>7, <2>1 DEF Depended
<1> QED
  BY <1>1, <1>3, <1>4, <1>5, <1>6, <1>7

LEMMA OneOfTheEdges ==
  ASSUME NEW f, NEW S \in SUBSET Nat, S # {}
  PROVE  FirstEdge(f, S) \in S
<1> DEFINE T == IF S \cap CallTargets(f) # {} THEN S \cap CallTargets(f) ELSE S
<1>1. T \in SUBSET Nat /\ T # {} /\ T \subseteq S
  OBVIOUS
<1>2. FirstEdge(f, S) = Min(T)
  BY DEF FirstEdge
<1> HIDE DEF T
<1> QED
  BY <1>1, <1>2, LeastOf

(* A chain goes on along dependencies to reachable functions that are not  *)
(* in it yet.                                                              *)
LEMMA ExtendSteps ==
  ASSUME prog \in Programs, NEW f, NEW g, Linked(f, g)
  PROVE  LET q == Extend(f, g)
         IN /\ Len(q) \in 2..MaxDepth /\ IsInjective(q)
            /\ \A i \in 1..(Len(q) - 1) : Linked(q[i], q[i + 1])
            /\ DOMAIN q = 1..Len(q)
<1> DEFINE next    == Follows(g) \ {f, g}
           Then(h) == Follows(h) \ {f, g, h}
           far     == {h \in next : Then(h) # {}}
<1>1. Extend(f, g) = IF next = {} THEN <<f, g>>
                     ELSE IF far = {} THEN <<f, g, FirstEdge(g, next)>>
                     ELSE <<f, g, FirstEdge(g, far),
                            FirstEdge(FirstEdge(g, far), Then(FirstEdge(g, far)))>>
  BY DEF Extend
<1>2. \A h, k : h \in Fns /\ k \in Follows(h) => k \in Fns /\ (h # k => Linked(h, k))
  BY DEF Follows, Out, Linked, Reachable
<1>3. f \in Fns /\ g \in Fns /\ f # g /\ Fns \subseteq Nat
  BY FunctionList DEF Linked
<1>4. CASE next = {}
  <2>1. Extend(f, g) = <<f, g>>
    BY <1>1, <1>4
  <2> QED
    BY <1>3, <2>1 DEF IsInjective, MaxDepth
<1>5. CASE next # {} /\ far = {}
  <2> DEFINE h == FirstEdge(g, next)
  <2>1. h \in next
    BY <1>2, <1>3, <1>5, OneOfTheEdges
  <2>2. Extend(f, g) = <<f, g, h>>
    BY <1>1, <1>5
  <2>3. h # f /\ h # g /\ Linked(g, h)
    BY <1>2, <1>3, <2>1
  <2> HIDE DEF h
  <2> QED
    BY <1>3, <2>2, <2>3 DEF IsInjective, MaxDepth
<1>6. CASE next # {} /\ far # {}
  <2> DEFINE h == FirstEdge(g, far)
             k == FirstEdge(h, Then(h))
  <2>1. h \in far
    <3>1. far \in SUBSET Nat /\ far # {}
      BY <1>2, <1>3, <1>6
    <3> HIDE DEF far
    <3> QED
      BY <3>1, OneOfTheEdges, Zenon
  <2>2. h \in next /\ Then(h) # {} /\ h \in Fns
    BY <1>2, <1>3, <2>1
  <2> HIDE DEF h
  <2>3. k \in Then(h)
    BY <1>2, <1>3, <2>2, OneOfTheEdges
  <2>4. Extend(f, g) = <<f, g, h, k>>
    BY <1>1, <1>6 DEF h
  <2>5. h # f /\ h # g /\ Linked(g, h)
    BY <1>2, <1>3, <2>2
  <2>6. k # f /\ k # g /\ k # h /\ Linked(h, k)
    BY <1>2, <2>2, <2>3
  <2> HIDE DEF k
  <2> QED
    BY <1>3, <2>4, <2>5, <2>6 DEF IsInjective, MaxDepth
<1> HIDE DEF next, Then, far
<1> QED
  BY <1>4, <1>5, <1>6, Zenon

LEMMA FeasibilityBound ==
  ASSUME NEW q, Len(q) \in Nat, DOMAIN q = 1..Len(q)
  PROVE  Feasibility(q) \in 0..100
<1> DEFINE late  == {i \in 2..Len(q) : Says(q[i], "constant_require")}
           slow  == IF \E i \in DOMAIN q : Says(q[i], "block_time") THEN 15 ELSE 0
           left  == 100 - 50 * Cardinality(Barred(q)) - 20 * Cardinality(late)
                        - 30 * Cardinality(Untouched(q)) - slow
<1>1. \A S \in SUBSET (1..Len(q)) : Cardinality(S) \in Nat
  <2>1. IsFiniteSet(1..Len(q))
    BY FS_Interval
  <2> QED
    BY <2>1, FS_Subset, FS_CardinalityType
<1>2. Barred(q) \subseteq 1..Len(q) /\ Untouched(q) \subseteq 1..Len(q) /\ late \subseteq 1..Len(q)
  BY DEF Barred, Untouched
<1>3. slow \in {0, 15}
  OBVIOUS
<1>4. Feasibility(q) = 0 \/ Feasibility(q) = Max({0, left})
  BY DEF Feasibility
<1> HIDE DEF late, slow
<1>5. left \in Int /\ left <= 100
  BY <1>1, <1>2, <1>3
<1> HIDE DEF left
<1>6. Max({0, left}) \in {0, left} /\ Max({0, left}) >= 0
  BY <1>5 DEF Max
<1>7. Max({0, left}) \in 0..100
  <2>1. \A l, m : l \in Int /\ l <= 100 /\ m \in {0, l} /\ m >= 0 => m \in 0..100
    OBVIOUS
  <2> QED
    BY <1>5, <1>6, <2>1, Zenon
<1>8. 0 \in 0..100
  OBVIOUS
<1> QED
  BY <1>4, <1>7, <1>8, Zenon

(* A function is among those that it calls through any number of calls.    *)
LEMMA Included ==
  ASSUME NEW U, NEW S \in SUBSET U, NEW next, \A u \in U : next[u] \in SUBSET U, NEW n \in Nat
  PROVE  S \subseteq Within(S, next)[n] /\ Within(S, next)[n] \subseteq U
<1> DEFINE w == Within(S, next)
           T == {d \in Nat : S \subseteq w[d]}
<1>1. w[0] = S /\ \A d \in Nat : w[d] \in SUBSET U /\ w[d + 1] = w[d] \cup UNION {next[g] : g \in w[d]}
  BY WithinLayers
<1> HIDE DEF w
<1>2. 0 \in T /\ \A d \in T : d + 1 \in T
  BY <1>1
<1> HIDE DEF T
<1>3. T \subseteq Nat
  BY DEF T
<1>4. T = Nat
  BY <1>2, <1>3, NatSet
<1> QED
  BY <1>1, <1>4 DEF T, w

LEMMA VisitsItself ==
  ASSUME prog \in Programs, NEW f \in Fns
  PROVE  f \in Visited(f) /\ Visited(f) \subseteq Fns
<1> DEFINE next == [g \in Fns |-> Callees(g)]
           n    == Len(prog.fun)
           S    == {f}
<1>1. \A g \in Fns : next[g] \in SUBSET Fns
  BY DEF Callees, Out
<1>2. n \in Nat
  BY FunctionList
<1>3. S \in SUBSET Fns /\ f \in S
  OBVIOUS
<1>4. Visited(f) = Within(S, next)[n]
  BY DEF Visited, Calling
<1> HIDE DEF next, n, S
<1>5. S \subseteq Within(S, next)[n] /\ Within(S, next)[n] \subseteq Fns
  BY <1>1, <1>2, <1>3, Included
<1> QED
  BY <1>3, <1>4, <1>5

LEMMA EntriesStep ==
  ASSUME AnswerInv, Next, NEW f \in Fns, pass' > 4, Entry(f)'
  PROVE  fn'[f].entries # {}
<1>1. prog' = prog /\ pass \in 1..38 /\ pass' = pass + 1 /\ prog \in Programs /\ Shape
  BY Unassigned DEF AnswerInv, GuardInv
<1>2. Entry(f)
  BY <1>1 DEF Entry, Public, Src
<1>3. CASE pass = 4
  <2>1. fn'[f] = [fn[f] EXCEPT !.entries = {e \in Fns : Entry(e) /\ f \in Visited(e)}]
    BY <1>3, Acts DEF Reachability, FnPass
  <2>2. fn'[f].entries = {e \in Fns : Entry(e) /\ f \in Visited(e)}
    BY <1>1, <2>1, Attributes DEF Shape
  <2> QED
    BY <1>1, <1>2, <2>2, VisitsItself
<1>4. CASE pass > 4
  <2>1. fn'[f].entries = fn[f].entries
    BY <1>1, <1>4, Unassigned
  <2> QED
    BY <1>2, <1>4, <2>1 DEF AnswerInv, FnAnswers
<1> QED
  BY <1>1, <1>3, <1>4

LEMMA EdgesOfCalls ==
  ASSUME GuardInv, pass > 6, NEW f \in Fns
  PROVE  ExtEdges(f) \subseteq Calls(f)
<1>1. fn[f].extEdges = Calls(f)
  BY DEF GuardInv, GuardFacts
<1> QED
  BY <1>1 DEF ExtEdges

LEMMA ReentrancyStep ==
  ASSUME AnswerInv, Next, NEW f \in Fns, pass' > 11, fn'[f].reentrancy
  PROVE  Calls(f)' # {} /\ ~fn'[f].ceiOnly
<1>1. prog' = prog /\ pass \in 1..38 /\ pass' = pass + 1 /\ Shape /\ GuardInv
  BY Unassigned DEF AnswerInv, GuardInv
<1>2. Calls(f)' = Calls(f)
  BY <1>1, SameProgram
<1>3. CASE pass = 11
  <2>1. fn'[f] = [fn[f] EXCEPT !.reentrancy = ReentrancyRisk(f),
                    !.ceiOnly = /\ fn[f].cei /\ fn[f].propagated # {} /\ MakesCall(f)
                                /\ ~ReentrancyRisk(f)]
    BY <1>3, Acts DEF ReentrancyRisks, FnPass
  <2>2. /\ fn'[f].reentrancy = ReentrancyRisk(f)
        /\ fn'[f].ceiOnly => ~ReentrancyRisk(f)
    BY <1>1, <2>1, Attributes DEF Shape
  <2>3. ReentrancyRisk(f) => ExtEdges(f) # {}
    BY DEF ReentrancyRisk, HasReentrantEdge
  <2>4. ExtEdges(f) \subseteq Calls(f)
    BY <1>1, <1>3, EdgesOfCalls
  <2> QED
    BY <1>2, <2>2, <2>3, <2>4
<1>4. CASE pass > 11
  <2>1. \A g \in Fns : fn'[g].reentrancy = fn[g].reentrancy
    BY <1>1, <1>4, UnassignedLater
  <2>2. fn'[f].ceiOnly = fn[f].ceiOnly
    BY <1>1, <1>4, UnassignedLater
  <2>3. fn[f].reentrancy => Calls(f) # {} /\ ~fn[f].ceiOnly
    BY <1>4 DEF AnswerInv, FnAnswers
  <2> QED
    BY <1>2, <2>1, <2>2, <2>3
<1> QED
  BY <1>1, <1>3, <1>4

LEMMA RiskyStep ==
  ASSUME AnswerInv, Next, pass' > 16
  PROVE  /\ \A f \in Fns : fn'[f].escalate <=> \E v \in Svs : f \in sv'[v].risky
         /\ \A v \in Svs : sv'[v].risky \subseteq Fns /\ (sv'[v].escalation <=> sv'[v].risky # {})
<1>1. pass \in 1..38 /\ pass' = pass + 1 /\ Shape
  BY Unassigned DEF AnswerInv, GuardInv
<1>2. CASE pass = 16
  <2>1. Escalation
    BY <1>2, Acts
  <2>2. /\ \A v \in Svs : sv'[v] = [sv[v] EXCEPT !.escalation = Risky(v) # {}, !.risky = Risky(v)]
        /\ \A f \in Fns : fn'[f] = [fn[f] EXCEPT !.escalate = \E w \in Svs : f \in Risky(w)]
    BY <2>1 DEF Escalation
  <2>3. ASSUME NEW v \in Svs PROVE sv'[v].risky = Risky(v) /\ (sv'[v].escalation <=> Risky(v) # {})
    <3>1. {"risky", "escalation"} \subseteq DOMAIN sv[v]
      BY <1>1 DEF Shape, SvAttributes
    <3>2. sv'[v] = [sv[v] EXCEPT !.escalation = Risky(v) # {}, !.risky = Risky(v)]
      BY <2>2
    <3>3. sv'[v].risky = Risky(v)
      BY <3>1, <3>2
    <3>4. sv'[v].escalation = (Risky(v) # {})
      BY <3>1, <3>2
    <3> QED
      BY <3>3, <3>4
  <2>4. \A f \in Fns : fn'[f].escalate = (\E w \in Svs : f \in Risky(w))
    BY <1>1, <2>2, Attributes DEF Shape
  <2>5. \A v \in Svs : Risky(v) \subseteq Fns
    <3>1. \A v \in Svs : sv[v].writers \subseteq Fns
      BY <1>2 DEF AnswerInv, EscalationFacts
    <3> QED
      BY <3>1 DEF Risky
  <2> QED
    BY <2>3, <2>4, <2>5
<1>3. CASE pass > 16
  <2>1. /\ \A f \in Fns : fn'[f].escalate = fn[f].escalate
        /\ \A v \in Svs : sv'[v].risky = sv[v].risky /\ sv'[v].escalation = sv[v].escalation
    BY <1>1, <1>3, Unassigned
  <2>2. /\ \A f \in Fns : fn[f].escalate <=> \E v \in Svs : f \in sv[v].risky
        /\ \A v \in Svs : sv[v].risky \subseteq Fns /\ (sv[v].escalation <=> sv[v].risky # {})
    BY <1>3 DEF AnswerInv, FnAnswers, SvAnswers
  <2> QED
    BY <2>1, <2>2
<1> QED
  BY <1>1, <1>2, <1>3

LEMMA MutationStep ==
  ASSUME AnswerInv, Next, NEW f \in Fns
  PROVE  /\ pass' > 17 /\ fn'[f].lengthMutation => WriteEdges(f)' # {}
         /\ pass' > 18 /\ fn'[f].delegateRisk => Calls(f)' # {}
<1>1. prog' = prog /\ pass \in 1..38 /\ pass' = pass + 1 /\ Shape /\ GuardInv
  BY Unassigned DEF AnswerInv, GuardInv
<1>2. WriteEdges(f)' = WriteEdges(f) /\ Calls(f)' = Calls(f)
  BY <1>1, SameProgram
<1>3. CASE pass = 17
  <2>1. fn'[f] = [fn[f] EXCEPT !.lengthMutation = PopsArray(f)]
    BY <1>3, Acts DEF StateTransitions, FnPass
  <2>2. fn'[f].lengthMutation = PopsArray(f)
    BY <1>1, <2>1, Attributes DEF Shape
  <2>3. PopsArray(f) => WriteEdges(f) # {}
    BY DEF PopsArray, WriteEdges
  <2> QED
    BY <1>1, <1>2, <1>3, <2>2, <2>3
<1>4. CASE pass = 18
  <2>1. fn'[f] = [fn[f] EXCEPT !.delegateRisk = DelegateRisk(f)]
    BY <1>4, Acts DEF DelegatecallRisk, FnPass
  <2>2. fn'[f].delegateRisk = DelegateRisk(f)
    BY <1>1, <2>1, Attributes DEF Shape
  <2>3. DelegateRisk(f) => ExtEdges(f) # {}
    BY DEF DelegateRisk, Delegates
  <2>4. ExtEdges(f) \subseteq Calls(f)
    BY <1>1, <1>4, EdgesOfCalls
  <2>5. fn'[f].lengthMutation = fn[f].lengthMutation
    BY <1>1, <1>4, UnassignedLater
  <2>6. fn[f].lengthMutation => WriteEdges(f) # {}
    BY <1>4 DEF AnswerInv, FnAnswers
  <2> QED
    BY <1>2, <2>2, <2>3, <2>4, <2>5, <2>6
<1>5. CASE pass > 18
  <2>1. fn'[f].lengthMutation = fn[f].lengthMutation /\ fn'[f].delegateRisk = fn[f].delegateRisk
    BY <1>1, <1>5, UnassignedLater
  <2>2. FnAnswers(f) /\ pass > 17
    BY <1>1, <1>5 DEF AnswerInv
  <2>3. fn[f].lengthMutation => WriteEdges(f) # {}
    BY <1>5, <2>2 DEF FnAnswers
  <2>4. fn[f].delegateRisk => Calls(f) # {}
    BY <1>5, <2>2 DEF FnAnswers
  <2> QED
    BY <1>2, <2>1, <2>3, <2>4
<1> QED
  BY <1>1, <1>3, <1>4, <1>5

LEMMA InitGuardStep ==
  ASSUME AnswerInv, Next, NEW f \in Fns, pass' > 21
  PROVE  fn'[f].initGuard <=> ChecksInit(f)'
<1>1. prog' = prog /\ pass \in 1..38 /\ pass' = pass + 1 /\ Shape /\ GuardInv
  BY Unassigned DEF AnswerInv, GuardInv
<1>2. ChecksInit(f)' <=> ChecksInit(f)
  BY <1>1, SameProgram
<1>3. CASE pass = 21
  <2> DEFINE a == [fn[f] EXCEPT !.initGuard = InitGuard(f),
                                !.safeInit = InitGuard(f) /\ (fn[f].protected \/ fn[f].initMod)]
  <2>1. Initializer
    BY <1>3, Acts
  <2>2. fn'[f] = IF InitGuard(f) THEN Clear([a EXCEPT !.protected = TRUE]) ELSE a
    BY <2>1 DEF Initializer, FnPass
  <2>3. DOMAIN a = FnAttributes /\ a.initGuard = InitGuard(f)
    BY <1>1, Attributes DEF Shape
  <2>4. Clear([a EXCEPT !.protected = TRUE]).initGuard = InitGuard(f)
    <3> HIDE DEF a
    <3> QED
      BY <2>3, Attributes DEF Clear
  <2>5. fn'[f].initGuard = InitGuard(f)
    <3> HIDE DEF a
    <3> QED
      BY <2>2, <2>3, <2>4
  <2>6. Callees(f) = CallEdges(f)
    BY <1>1, <1>3, CalleesOf DEF GuardInv
  <2>7. InitGuard(f) <=> ChecksInit(f)
    BY <2>6 DEF InitGuard, ChecksInit
  <2> QED
    BY <1>2, <2>5, <2>7
<1>4. CASE pass > 21
  <2>1. \A g \in Fns : fn'[g].initGuard = fn[g].initGuard
    BY <1>1, <1>4, Unassigned
  <2>2. fn[f].initGuard <=> ChecksInit(f)
    BY <1>4 DEF AnswerInv, FnAnswers
  <2> QED
    BY <1>2, <2>1, <2>2
<1> QED
  BY <1>1, <1>3, <1>4

LEMMA TaintRiskStep ==
  ASSUME AnswerInv, Next, pass' > 29
  PROVE  /\ \A v \in Svs : sv'[v].taintedBy \subseteq Fns
         /\ \A f \in Fns, v \in Svs :
               f \in sv'[v].taintedBy /\ sv'[v].tags # {} => fn'[f].taintRisks # {}
<1>1. pass \in 1..38 /\ pass' = pass + 1 /\ Shape
  BY Unassigned DEF AnswerInv, GuardInv
<1>2. \A v \in Svs : sv'[v].tags = sv[v].tags
  BY <1>1, Unassigned
<1>3. CASE pass = 29
  <2>1. Taint
    BY <1>3, Acts
  <2> DEFINE T == Rounds
  <2>2. ASSUME NEW f \in Fns PROVE fn'[f].taintRisks = RiskOf(T, f)
    <3>1. fn'[f] = [fn[f] EXCEPT
                      !.sources = LocalSources(f) \cup (IF T[f].cross THEN {"cross"} ELSE {}),
                      !.tainted = T[f].tainted,
                      !.taintedWrites = T[f].writes,
                      !.taintMath = LocalMaths(f),
                      !.unchecked = Unchecked(f),
                      !.taintRisks = RiskOf(T, f),
                      !.taintScore = TaintScore(RiskOf(T, f)),
                      !.crossPaths = {x[1] : x \in PathsFrom(T, f)}]
      BY <2>1 DEF Taint
    <3>2. "taintRisks" \in DOMAIN fn[f]
      BY <1>1, Attributes DEF Shape
    <3> HIDE DEF T
    <3> QED
      BY <3>1, <3>2
  <2>3. ASSUME NEW v \in Svs PROVE sv'[v].taintedBy = {f \in Fns : v \in T[f].writes}
    <3>1. sv'[v] = [sv[v] EXCEPT !.tainted = \E f \in Fns : v \in T[f].writes,
                                 !.taintedBy = {f \in Fns : v \in T[f].writes}]
      BY <2>1 DEF Taint
    <3>2. "taintedBy" \in DOMAIN sv[v]
      BY <1>1 DEF Shape, SvAttributes
    <3> HIDE DEF T
    <3> QED
      BY <3>1, <3>2
  <2> HIDE DEF T
  <2>4. ASSUME NEW f \in Fns, NEW v \in Svs, v \in T[f].writes, sv[v].tags # {}
        PROVE  RiskOf(T, f) # {}
    <3>1. TagsOf(T[f].writes) # {}
      BY <2>4 DEF TagsOf
    <3>2. TagsOf(T[f].writes) \subseteq RiskOf(T, f)
      BY DEF RiskOf
    <3> QED
      BY <3>1, <3>2
  <2> QED
    BY <1>2, <2>2, <2>3, <2>4
<1>4. CASE pass > 29
  <2>1. /\ \A v \in Svs : sv'[v].taintedBy = sv[v].taintedBy
        /\ \A f \in Fns : fn'[f].taintRisks = fn[f].taintRisks
    BY <1>1, <1>4, UnassignedLater
  <2>2. /\ \A v \in Svs : sv[v].taintedBy \subseteq Fns
        /\ \A f \in Fns, v \in Svs :
               f \in sv[v].taintedBy /\ sv[v].tags # {} => fn[f].taintRisks # {}
    BY <1>4 DEF AnswerInv, FnAnswers, SvAnswers
  <2> QED
    BY <1>2, <2>1, <2>2
<1> QED
  BY <1>1, <1>3, <1>4

LEMMA LinkedKept ==
  ASSUME AnswerInv, Next, pass > 30
  PROVE  \A a, b : Linked(a, b) => Linked(a, b)'
<1>1. prog' = prog /\ Fns' = Fns /\ pass \in 1..38
  BY Unassigned, SameProgram DEF AnswerInv, GuardInv
<1>2. rel' = rel
  BY <1>1, UnassignedLater DEF AnswerInv, GuardInv
<1>3. \A f \in Fns : fn'[f].entries = fn[f].entries
  BY <1>1, Unassigned DEF AnswerInv, GuardInv
<1> QED
  BY <1>1, <1>2, <1>3 DEF Linked

LEMMA SequencesStep ==
  ASSUME AnswerInv, Next, NEW f \in Fns, pass' > 31, NEW s \in fn'[f].sequences
  PROVE  Follow(f, s)'
<1>1. pass \in 1..38 /\ pass' = pass + 1 /\ Shape
  BY Unassigned DEF AnswerInv, GuardInv
<1>2. CASE pass = 31
  <2>1. fn'[f] = [fn[f] EXCEPT !.sequences = SequencesFrom(f),
                               !.seqScore = Max({0} \cup {d.score : d \in SequencesFrom(f)})]
    BY <1>2, Acts DEF DangerousSequences, FnPass
  <2>2. fn'[f].sequences = SequencesFrom(f)
    BY <1>1, <2>1, Attributes DEF Shape
  <2>3. s.reader \in Out(f, "STATE_DEPENDENCY") /\ Reachable(s.reader)
    <3>1. PICK h \in {k \in Out(f, "STATE_DEPENDENCY") :
                         Reachable(f) /\ Reachable(k) /\ Dangers(f, k) # {}} :
             s = [reader |-> h, shared |-> Shared(f, h), tags |-> TagsOf(Shared(f, h)),
                  dangers |-> Dangers(f, h), score |-> DangerScore(f, h)]
      BY <2>2 DEF SequencesFrom
    <3> QED
      BY <3>1
  <2>4. Depends(f, s.reader)
    BY <1>2, <2>3 DEF AnswerInv, Depended, Out
  <2>5. Linked(f, s.reader)
    BY <2>3, <2>4 DEF Linked, Out, Reachable, Depends
  <2>6. "reader" \in DOMAIN s
    BY <2>2 DEF SequencesFrom
  <2> QED
    BY <1>2, <2>5, <2>6, LinkedKept DEF Follow
<1>3. CASE pass = 32
  <2>1. ExploitChains
    BY <1>3, Acts
  <2>2. fn'[f].sequences = {Tempted(f, d) : d \in fn[f].sequences}
    BY <1>1, <2>1, Attributes DEF Shape, ExploitChains, FnPass
  <2>3. PICK d \in fn[f].sequences : s = Tempted(f, d)
    BY <2>2
  <2>4. Follow(f, d)
    BY <1>3, <2>3 DEF AnswerInv, FnAnswers
  <2>5. DOMAIN s = DOMAIN d /\ s.reader = d.reader
    BY <2>3, <2>4 DEF Tempted, Follow
  <2> QED
    BY <1>3, <2>4, <2>5, LinkedKept DEF Follow
<1>4. CASE pass > 32
  <2>1. fn'[f].sequences = fn[f].sequences
    BY <1>1, <1>4, Unassigned
  <2>2. Follow(f, s)
    BY <1>1, <1>4, <2>1 DEF AnswerInv, FnAnswers
  <2> QED
    BY <1>1, <1>4, <2>2, LinkedKept DEF Follow
<1> QED
  BY <1>1, <1>2, <1>3, <1>4

LEMMA StepwiseKept ==
  ASSUME AnswerInv, Next, pass > 30, NEW x, Stepwise(x)
  PROVE  Stepwise(x)'
<1>1. \A i \in 1..(Len(x.steps) - 1) : Linked(x.steps[i], x.steps[i + 1])'
  BY LinkedKept DEF Stepwise
<1> QED
  BY <1>1 DEF Stepwise

LEMMA ChainsStep ==
  ASSUME AnswerInv, Next, NEW f \in Fns, pass' > 32, NEW x \in fn'[f].chains
  PROVE  Stepwise(x)'
<1>1. pass \in 1..38 /\ pass' = pass + 1 /\ Shape /\ prog \in Programs
  BY Unassigned DEF AnswerInv, GuardInv
<1>2. CASE pass = 32
  <2>1. ExploitChains
    BY <1>2, Acts
  <2>2. fn'[f].chains = Best(f, ChainsFrom(f))
    BY <1>1, <2>1, Attributes DEF Shape, ExploitChains, FnPass
  <2>3. PICK s \in fn[f].sequences : x = ChainOf(f, s)
    BY <2>2 DEF Best, ChainsFrom
  <2>4. x.steps = Extend(f, s.reader) /\ x.feasibility = Feasibility(Extend(f, s.reader))
    BY <2>3 DEF ChainOf
  <2>5. Linked(f, s.reader)
    BY <1>2, <2>3 DEF AnswerInv, FnAnswers, Follow
  <2> DEFINE q == Extend(f, s.reader)
  <2>6. /\ Len(q) \in 2..MaxDepth /\ IsInjective(q)
        /\ \A i \in 1..(Len(q) - 1) : Linked(q[i], q[i + 1])
        /\ DOMAIN q = 1..Len(q)
    BY <1>1, <2>5, ExtendSteps
  <2> HIDE DEF q
  <2>7. Len(q) \in Nat
    BY <2>6 DEF MaxDepth
  <2>8. Feasibility(q) \in 0..100
    BY <2>6, <2>7, FeasibilityBound
  <2>9. Stepwise(x)
    BY <2>4, <2>6, <2>8 DEF Stepwise, q
  <2> QED
    BY <1>2, <2>9, StepwiseKept
<1>3. CASE pass > 32
  <2>1. fn'[f].chains = fn[f].chains
    BY <1>1, <1>3, Unassigned
  <2>2. Stepwise(x)
    BY <1>3, <2>1 DEF AnswerInv, FnAnswers
  <2> QED
    BY <1>1, <1>3, <2>2, StepwiseKept
<1> QED
  BY <1>1, <1>2, <1>3

LEMMA CallTagsStep ==
  ASSUME AnswerInv, Next, NEW f \in Fns, pass' > 34
  PROVE  "REENTRANCY_RISK" \in fn'[f].extTags <=> fn'[f].reentrancy
<1>1. pass \in 1..38 /\ pass' = pass + 1 /\ Shape
  BY Unassigned DEF AnswerInv, GuardInv
<1>2. \A g \in Fns : fn'[g].reentrancy = fn[g].reentrancy
  BY <1>1, UnassignedLater
<1>3. CASE pass = 34
  <2>1. fn'[f] = [fn[f] EXCEPT !.extTags = ExternalTags(f), !.extScore = ExternalScore(f)]
    BY <1>3, Acts DEF ExternalCallRisks, FnPass
  <2>2. fn'[f].extTags = ExternalTags(f)
    BY <1>1, <2>1, Attributes DEF Shape
  <2>3. "REENTRANCY_RISK" \in ExternalTags(f) <=> fn[f].reentrancy
    BY DEF ExternalTags
  <2> QED
    BY <1>2, <2>2, <2>3
<1>4. CASE pass > 34
  <2>1. fn'[f].extTags = fn[f].extTags
    BY <1>1, <1>4, UnassignedLater
  <2> QED
    BY <1>2, <1>4, <2>1 DEF AnswerInv, FnAnswers
<1> QED
  BY <1>1, <1>3, <1>4

LEMMA TargetsStep ==
  ASSUME AnswerInv, Next, NEW f \in Fns, pass' > 37, fn'[f].send
  PROVE  fn'[f].entries # {}
<1>1. pass \in 1..38 /\ pass' = pass + 1 /\ Shape
  BY Unassigned DEF AnswerInv, GuardInv
<1>2. \A g \in Fns : fn'[g].entries = fn[g].entries
  BY <1>1, Unassigned
<1>3. CASE pass = 37
  <2>1. fn'[f] = [fn[f] EXCEPT !.target = TargetScore(f), !.viable = Viable(f),
                               !.send = TargetScore(f) >= Threshold /\ Viable(f)]
    BY <1>3, Acts DEF ExploitTargets, FnPass
  <2>2. fn'[f].send = (TargetScore(f) >= Threshold /\ Viable(f))
    BY <1>1, <2>1, Attributes DEF Shape
  <2>3. ViablePath(f)
    BY <2>2 DEF Viable
  <2>4. Entry(f) => fn[f].entries # {}
    BY <1>3 DEF AnswerInv, FnAnswers
  <2>5. fn[f].entries # {}
    BY <2>3, <2>4 DEF ViablePath
  <2> QED
    BY <1>2, <2>5
<1>4. CASE pass > 37
  <2>1. \A g \in Fns : fn'[g].send = fn[g].send
    BY <1>1, <1>4, Unassigned
  <2> QED
    BY <1>2, <1>4, <2>1 DEF AnswerInv, FnAnswers
<1> QED
  BY <1>1, <1>3, <1>4

LEMMA AnswersKept ==
  ASSUME AnswerInv, UNCHANGED <<vars, hotspots>>
  PROVE  AnswerInv'
<1>1. prog' = prog /\ rel' = rel /\ fn' = fn /\ sv' = sv /\ ct' = ct /\ pass' = pass
  BY DEF vars
<1>2. GuardInv' /\ EscalationFacts'
  BY GuardInvInductive, EscalationFactsInductive DEF AnswerInv
<1>3. /\ Fns' = Fns /\ Svs' = Svs
      /\ \A f : /\ WriteEdges(f)' = WriteEdges(f) /\ Calls(f)' = Calls(f)
                /\ ChecksInit(f)' <=> ChecksInit(f)
  BY <1>1, SameProgram
<1>4. \A f, g : Depends(f, g)' <=> Depends(f, g)
  <2>1. \A f : ReadEdges(f)' = ReadEdges(f)
    BY <1>1, <1>3 DEF ReadEdges, At, Body, Src
  <2>2. \A f : StateWrites(f)' = StateWrites(f) /\ StateReads(f)' = StateReads(f)
    BY <1>1, <1>3, <2>1 DEF StateWrites, StateReads
  <2>3. \A f, g : Shared(f, g)' = Shared(f, g)
    BY <2>2 DEF Shared
  <2> QED
    BY <1>1, <2>3 DEF Depends, Src
<1>5. Depended'
  BY <1>1, <1>3, <1>4 DEF AnswerInv, Depended
<1>6. \A a, b : Linked(a, b)' <=> Linked(a, b)
  BY <1>1, <1>3 DEF Linked
<1>7. /\ \A x : Stepwise(x)' <=> Stepwise(x)
      /\ \A f, s : Follow(f, s)' <=> Follow(f, s)
  BY <1>6 DEF Stepwise, Follow
<1>8. \A f : Entry(f)' <=> Entry(f)
  BY <1>1 DEF Entry, Public, Src
<1>9. ASSUME NEW f \in Fns PROVE FnAnswers(f)'
  <2>1. FnAnswers(f)
    BY DEF AnswerInv
  <2> QED
    BY <1>1, <1>3, <1>6, <1>7, <1>8, <2>1 DEF FnAnswers
<1>10. ASSUME NEW v \in Svs PROVE SvAnswers(v)'
  BY <1>1, <1>3 DEF AnswerInv, SvAnswers
<1> QED
  BY <1>2, <1>3, <1>5, <1>9, <1>10 DEF AnswerInv

LEMMA AnswersStep ==
  ASSUME AnswerInv, Next
  PROVE  AnswerInv'
<1>1. GuardInv' /\ EscalationFacts' /\ Depended'
  BY GuardInvInductive, EscalationFactsInductive, DependedStep DEF AnswerInv
<1>2. Fns' = Fns /\ Svs' = Svs
  BY Unassigned, SameProgram DEF AnswerInv, GuardInv
<1>3. ASSUME NEW f \in Fns PROVE FnAnswers(f)'
  <2>1. pass' > 4 /\ Entry(f)' => fn'[f].entries # {}
    BY EntriesStep
  <2>2. pass' > 11 /\ fn'[f].reentrancy => Calls(f)' # {} /\ ~fn'[f].ceiOnly
    BY ReentrancyStep
  <2>3. pass' > 16 => (fn'[f].escalate <=> \E v \in Svs : f \in sv'[v].risky)
    BY RiskyStep
  <2>4. /\ pass' > 17 /\ fn'[f].lengthMutation => WriteEdges(f)' # {}
        /\ pass' > 18 /\ fn'[f].delegateRisk => Calls(f)' # {}
    BY MutationStep
  <2>5. pass' > 21 => (fn'[f].initGuard <=> ChecksInit(f)')
    BY InitGuardStep
  <2>6. pass' > 29 => \A v \in Svs :
            f \in sv'[v].taintedBy /\ sv'[v].tags # {} => fn'[f].taintRisks # {}
    BY TaintRiskStep
  <2>7. pass' > 31 => \A s \in fn'[f].sequences : Follow(f, s)'
    BY SequencesStep
  <2>8. pass' > 32 => \A x \in fn'[f].chains : Stepwise(x)'
    BY ChainsStep
  <2>9. pass' > 34 => ("REENTRANCY_RISK" \in fn'[f].extTags <=> fn'[f].reentrancy)
    BY CallTagsStep
  <2>10. pass' > 37 /\ fn'[f].send => fn'[f].entries # {}
    BY TargetsStep
  <2> QED
    BY <1>2, <2>1, <2>2, <2>3, <2>4, <2>5, <2>6, <2>7, <2>8, <2>9, <2>10, Zenon DEF FnAnswers
<1>4. ASSUME NEW v \in Svs PROVE SvAnswers(v)'
  BY <1>2, RiskyStep, TaintRiskStep DEF SvAnswers
<1> QED
  BY <1>1, <1>2, <1>3, <1>4 DEF AnswerInv

LEMMA AnswerInvInductive ==
  /\ Init => AnswerInv
  /\ AnswerInv /\ [Next]_<<vars, hotspots>> => AnswerInv'
<1>1. ASSUME Init PROVE AnswerInv
  <2>1. GuardInv /\ EscalationFacts
    BY <1>1, GuardInvInductive, EscalationFactsInductive
  <2>2. pass = 1 /\ \A f \in Fns, g \in Fns : rel[f][g] = "none"
    BY <1>1 DEF Init
  <2>3. Depended
    BY <2>2 DEF Depended
  <2>4. \A f \in Fns : FnAnswers(f)
    BY <2>2 DEF FnAnswers
  <2>5. \A v \in Svs : SvAnswers(v)
    BY <2>2 DEF SvAnswers
  <2> QED
    BY <2>1, <2>3, <2>4, <2>5 DEF AnswerInv
<1> QED
  BY <1>1, AnswersStep, AnswersKept

LEMMA AnswerInvHolds == Spec => []AnswerInv
BY AnswerInvInductive, PTL DEF Spec

(* What different queries tell a worker of a function agrees, though each  *)
(* reads what another pass left, whatever the program: an open function is *)
(* neither typed nor an initialiser, the lists of reentrancy are one, the  *)
(* pairs of sequences and chains are dependencies, an exploit target can   *)
(* be entered.                                                             *)
THEOREM AnswersDoAgree == Spec => []AnswersAgree
<1>1. AnswerInv => AnswersAgree
  <2> SUFFICES ASSUME AnswerInv, pass > Len(Passes), NEW c \in Contracts \cup {AnyContract}
               PROVE  /\ Unprotected(c) \subseteq StateMutators(c) \cap EntryPoints(c)
                      /\ Unprotected(c) \cap (AccessTyped(c) \cup Initializers(c)) = {}
                      /\ \A f \in Unprotected(c) : ~AccessControlSummary(c)[f].protected
                      /\ StateMutators(c) = {t[1] : t \in Transitions(c)}
                      /\ ReentrancyAt(c) \subseteq ExternalCallers(c) \ CeiOnly(c)
                      /\ CallRisks(c, "REENTRANCY_RISK") = ReentrancyAt(c)
                      /\ DelegateRisks(c) \subseteq ExternalCallers(c)
                      /\ LengthMutations(c) \subseteq StateMutators(c)
                      /\ \A f \in ExploitTargetsAt(c) : Reachable(f)
                      /\ \A f \in Sequenced(c) : \A s \in fn[f].sequences :
                            <<f, s.reader>> \in Dependent(c)
                      /\ \A x \in ChainsAt(c, 2) : \A i \in 1..(Len(x.steps) - 1) :
                            <<x.steps[i], x.steps[i + 1]>> \in Dependent(AnyContract)
                      /\ Escalating(AnyContract)
                           = UNION {sv[v].risky : v \in EscalatedVars(AnyContract)}
                      /\ \A v \in SensitiveVars(c) \cap TaintedVars(c) :
                            sv[v].taintedBy \subseteq TaintRisks(AnyContract)
    BY DEF AnswersAgree
  <2>1. pass = 39
    <3>1. Len(Passes) = 38
      BY DEF Passes
    <3> QED
      BY <3>1 DEF AnswerInv, GuardInv
  <2>2. ASSUME NEW f \in Fns
        PROVE  /\ fn[f].direct = WriteEdges(f)
               /\ fn[f].unprotected <=> Open(f) /\ Unasked(f)
               /\ Unasked(f) => fn[f].acType = "none" /\ fn[f].protected = FALSE
    <3>1. GuardFacts(f)
      BY DEF AnswerInv, GuardInv
    <3> QED
      BY <2>1, <3>1 DEF GuardFacts
  <2>3. ASSUME NEW f \in Fns
        PROVE  /\ fn[f].reentrancy => Calls(f) # {} /\ ~fn[f].ceiOnly
               /\ fn[f].escalate <=> \E v \in Svs : f \in sv[v].risky
               /\ fn[f].lengthMutation => WriteEdges(f) # {}
               /\ fn[f].delegateRisk => Calls(f) # {}
               /\ fn[f].initGuard <=> ChecksInit(f)
               /\ \A v \in Svs : f \in sv[v].taintedBy /\ sv[v].tags # {} => fn[f].taintRisks # {}
               /\ \A s \in fn[f].sequences : Follow(f, s)
               /\ \A x \in fn[f].chains : Stepwise(x)
               /\ "REENTRANCY_RISK" \in fn[f].extTags <=> fn[f].reentrancy
               /\ fn[f].send => fn[f].entries # {}
    <3>1. FnAnswers(f)
      BY DEF AnswerInv
    <3> QED
      BY <2>1, <3>1 DEF FnAnswers
  <2>4. ASSUME NEW v \in Svs
        PROVE  /\ sv[v].risky \subseteq Fns /\ (sv[v].escalation <=> sv[v].risky # {})
               /\ sv[v].taintedBy \subseteq Fns
    <3>1. SvAnswers(v)
      BY DEF AnswerInv
    <3> QED
      BY <2>1, <3>1 DEF SvAnswers
  <2>5. In(c) \subseteq Fns /\ In(AnyContract) = Fns /\ VarsOf(AnyContract) = Svs /\ VarsOf(c) \subseteq Svs
    BY DEF In, VarsOf
  <2>6. Unprotected(c) \subseteq StateMutators(c) \cap EntryPoints(c)
    BY <2>2, <2>5 DEF Unprotected, StateMutators, EntryPoints, Open
  <2>7. Unprotected(c) \cap (AccessTyped(c) \cup Initializers(c)) = {}
    <3>1. \A f \in Fns : Unasked(f) => ~ChecksInit(f)
      BY DEF Unasked
    <3> QED
      BY <2>2, <2>3, <2>5, <3>1 DEF Unprotected, AccessTyped, Initializers
  <2>8. ReentrancyAt(c) \subseteq ExternalCallers(c) \ CeiOnly(c)
    BY <2>3, <2>5 DEF ReentrancyAt, ExternalCallers, CeiOnly, MakesCall
  <2>9. CallRisks(c, "REENTRANCY_RISK") = ReentrancyAt(c)
    BY <2>3, <2>5 DEF CallRisks, ReentrancyAt
  <2>10. DelegateRisks(c) \subseteq ExternalCallers(c)
    BY <2>3, <2>5 DEF DelegateRisks, ExternalCallers, MakesCall
  <2>11. LengthMutations(c) \subseteq StateMutators(c)
    <3>1. \A f \in In(c) : fn[f].lengthMutation => fn[f].direct # {}
      BY <2>2, <2>3, <2>5, Zenon
    <3> QED
      BY <3>1 DEF LengthMutations, StateMutators
  <2>12. \A f \in ExploitTargetsAt(c) : Reachable(f)
    BY <2>3, <2>5 DEF ExploitTargetsAt, Reachable
  <2>13. \A f \in Sequenced(c) : \A s \in fn[f].sequences : <<f, s.reader>> \in Dependent(c)
    BY <2>3, <2>5 DEF Sequenced, Follow, Linked, Dependent
  <2>14. \A x \in ChainsAt(c, 2) : \A i \in 1..(Len(x.steps) - 1) :
            <<x.steps[i], x.steps[i + 1]>> \in Dependent(AnyContract)
    <3>1. \A x \in ChainsAt(c, 2) : Stepwise(x)
      BY <2>3, <2>5 DEF ChainsAt
    <3>2. \A a, b : Linked(a, b) => <<a, b>> \in Dependent(AnyContract)
      BY <2>5 DEF Linked, Dependent
    <3> QED
      BY <3>1, <3>2 DEF Stepwise
  <2>15. Escalating(AnyContract) = UNION {sv[v].risky : v \in EscalatedVars(AnyContract)}
    <3>1. \A f \in Fns : fn[f].escalate <=> \E v \in Svs : f \in sv[v].risky
      BY <2>3
    <3>2. EscalatedVars(AnyContract) = {v \in Svs : sv[v].risky # {}}
      BY <2>4, <2>5 DEF EscalatedVars
    <3>3. UNION {sv[v].risky : v \in Svs} \subseteq Fns
      BY <2>4
    <3> QED
      BY <2>5, <3>1, <3>2, <3>3 DEF Escalating
  <2>16. \A v \in SensitiveVars(c) \cap TaintedVars(c) :
            sv[v].taintedBy \subseteq TaintRisks(AnyContract)
    BY <2>3, <2>4, <2>5 DEF SensitiveVars, TaintRisks, HasTaintRisk
  <2>17. \A f \in Unprotected(c) : ~AccessControlSummary(c)[f].protected
    BY <2>2, <2>5 DEF Unprotected, AccessControlSummary
  <2>18. StateMutators(c) = {t[1] : t \in Transitions(c)}
    <3>1. \A f \in Fns : fn[f].direct # {} <=> At(f, "write") # {}
      <4>1. \A f \in Fns : fn[f].direct = WriteEdges(f)
        BY <2>2
      <4>2. \A f : WriteEdges(f) # {} <=> At(f, "write") # {}
        BY Zenon DEF WriteEdges
      <4> QED
        BY <4>1, <4>2, Zenon
    <3>2. StateMutators(c) = {f \in In(c) : At(f, "write") # {}}
      BY <2>5, <3>1 DEF StateMutators
    <3>3. ASSUME NEW t \in Transitions(c) PROVE t[1] \in In(c) /\ At(t[1], "write") # {}
      <4>1. PICK f \in In(c) : t \in {f} \X At(f, "write")
        BY DEF Transitions
      <4>2. t[1] = f /\ t[2] \in At(f, "write")
        BY <4>1
      <4> QED
        BY <4>2
    <3>4. ASSUME NEW f \in In(c), NEW i \in At(f, "write")
          PROVE  <<f, i>> \in Transitions(c) /\ <<f, i>>[1] = f
      BY DEF Transitions
    <3>5. {t[1] : t \in Transitions(c)} = {f \in In(c) : At(f, "write") # {}}
      BY <3>3, <3>4
    <3> QED
      BY <3>2, <3>5
  <2> QED
    BY <2>6, <2>7, <2>8, <2>9, <2>10, <2>11, <2>12, <2>13, <2>14, <2>15, <2>16, <2>17, <2>18
<1> QED
  BY <1>1, AnswerInvHolds, PTL

-----------------------------------------------------------------------------
(* What a function calls through any number of calls: closed under calls   *)
(* when there are as many steps as functions, and the least such set.      *)

(* Sets that grow inside a finite one, each from the last, have settled    *)
(* after as many steps as it has elements.                                 *)
LEMMA Settles ==
  ASSUME NEW U, IsFiniteSet(U), NEW w, \A d \in Nat : w[d] \in SUBSET U /\ w[d] \subseteq w[d + 1],
         \A d \in Nat : w[d + 1] = w[d] => w[(d + 1) + 1] = w[d + 1]
  PROVE  w[Cardinality(U) + 1] = w[Cardinality(U)]
<1> DEFINE n == Cardinality(U)
           T == {d \in Nat : w[d + 1] = w[d] \/ Cardinality(w[d]) >= d}
<1>1. \A d \in Nat : w[d] \in SUBSET U /\ w[d] \subseteq w[d + 1]
  OBVIOUS
<1>2. n \in Nat /\ \A d \in Nat : IsFiniteSet(w[d]) /\ Cardinality(w[d]) \in Nat
  BY FS_Subset, FS_CardinalityType
<1> HIDE DEF n
<1>3. 0 \in T
  BY <1>2
<1>4. ASSUME NEW d \in T PROVE d + 1 \in T
  <2>1. d \in Nat /\ d + 1 \in Nat /\ (d + 1) + 1 \in Nat
    OBVIOUS
  <2>2. CASE w[d + 1] = w[d]
    <3>1. w[(d + 1) + 1] = w[d + 1]
      BY <2>1, <2>2
    <3> QED
      BY <2>1, <3>1
  <2>3. CASE w[d + 1] # w[d]
    <3>1. Cardinality(w[d]) >= d
      BY <2>3
    <3>2. w[d] \in SUBSET w[d + 1]
      BY <1>1, <2>1
    <3>3. Cardinality(w[d]) <= Cardinality(w[d + 1]) /\ Cardinality(w[d]) # Cardinality(w[d + 1])
      BY <1>2, <2>1, <2>3, <3>2, FS_Subset
    <3>4. Cardinality(w[d + 1]) >= d + 1
      <4>1. Cardinality(w[d]) \in Nat /\ Cardinality(w[d + 1]) \in Nat
        BY <1>2, <2>1
      <4> DEFINE a == Cardinality(w[d])
                 b == Cardinality(w[d + 1])
      <4>2. a \in Nat /\ b \in Nat /\ a >= d /\ a <= b /\ a # b
        BY <3>1, <3>3, <4>1
      <4> HIDE DEF a, b
      <4>3. b >= d + 1
        BY <2>1, <4>2
      <4> QED
        BY <4>3 DEF b
    <3> QED
      BY <2>1, <3>4
  <2> QED
    BY <2>2, <2>3
<1> HIDE DEF T
<1>5. T = Nat
  <2>1. T \subseteq Nat
    BY DEF T
  <2> QED
    BY <1>3, <1>4, <2>1, NatSet
<1>6. w[n + 1] = w[n]
  <2>1. w[n + 1] = w[n] \/ Cardinality(w[n]) >= n
    BY <1>2, <1>5 DEF T
  <2>2. CASE Cardinality(w[n]) >= n
    <3>1. w[n] \in SUBSET U /\ w[n + 1] \in SUBSET U /\ w[n] \subseteq w[n + 1]
      BY <1>1, <1>2
    <3>2. Cardinality(w[n]) <= Cardinality(U)
      BY <3>1, FS_Subset
    <3>3. Cardinality(w[n]) = Cardinality(U)
      BY <1>2, <2>2, <3>2 DEF n
    <3>4. w[n] = U
      BY <3>1, <3>3, FS_Subset
    <3> QED
      BY <3>1, <3>4
  <2> QED
    BY <2>1, <2>2
<1> QED
  BY <1>6 DEF n

LEMMA WithinClosed ==
  ASSUME NEW U, IsFiniteSet(U), NEW S \in SUBSET U,
         NEW next, \A u \in U : next[u] \in SUBSET U
  PROVE  LET W == Within(S, next)[Cardinality(U)]
         IN /\ S \subseteq W /\ W \subseteq U
            /\ \A g \in W : next[g] \subseteq W
            /\ \A X \in SUBSET U :
                  S \subseteq X /\ (\A g \in X : next[g] \subseteq X) => W \subseteq X
<1> DEFINE w == Within(S, next)
           n == Cardinality(U)
<1>1. w[0] = S /\ \A d \in Nat : w[d] \in SUBSET U /\ w[d + 1] = w[d] \cup UNION {next[g] : g \in w[d]}
  BY WithinLayers
<1>2. n \in Nat
  BY FS_CardinalityType
<1> HIDE DEF w
<1>6. w[n + 1] = w[n]
  <2>1. \A d \in Nat : w[d] \subseteq w[d + 1]
    BY <1>1
  <2>2. ASSUME NEW d \in Nat, w[d + 1] = w[d] PROVE w[(d + 1) + 1] = w[d + 1]
    <3> DEFINE On(W) == W \cup UNION {next[g] : g \in W}
    <3>1. \A k \in Nat : w[k + 1] = On(w[k])
      BY <1>1
    <3> HIDE DEF On
    <3>2. d + 1 \in Nat
      OBVIOUS
    <3> QED
      BY <2>2, <3>1, <3>2
  <2> QED
    BY <1>1, <2>1, <2>2, Settles
<1> HIDE DEF n
<1>7. \A g \in w[n] : next[g] \subseteq w[n]
  BY <1>1, <1>2, <1>6
<1>8. S \subseteq w[n] /\ w[n] \subseteq U
  BY <1>2, Included DEF w
<1>9. ASSUME NEW X \in SUBSET U, S \subseteq X, \A g \in X : next[g] \subseteq X
      PROVE  w[n] \subseteq X
  <2> DEFINE Q == {d \in Nat : w[d] \subseteq X}
  <2>1. 0 \in Q
    BY <1>1, <1>9
  <2>2. \A d \in Q : d + 1 \in Q
    BY <1>1, <1>9
  <2> HIDE DEF Q
  <2>3. Q \subseteq Nat
    BY DEF Q
  <2>4. Q = Nat
    BY <2>1, <2>2, <2>3, NatSet
  <2> QED
    BY <1>2, <2>4 DEF Q
<1> QED
  BY <1>7, <1>8, <1>9 DEF w, n

(* A function and the ones it calls, and what they write.                  *)
Reach(f)     == {f} \cup CalledFrom(f)
AllWrites(f) == UNION {WriteEdges(g) : g \in Reach(f)}

LEMMA CalledClosed ==
  ASSUME prog \in Programs, NEW f \in Fns
  PROVE  /\ CallEdges(f) \subseteq CalledFrom(f) /\ CalledFrom(f) \subseteq Fns
         /\ \A g \in CalledFrom(f) : CallEdges(g) \subseteq CalledFrom(f)
         /\ \A X \in SUBSET Fns :
               CallEdges(f) \subseteq X /\ (\A g \in X : CallEdges(g) \subseteq X)
                 => CalledFrom(f) \subseteq X
<1> DEFINE next == [g \in Fns |-> CallEdges(g)]
           S    == CallEdges(f)
           W    == Within(S, next)[Cardinality(Fns)]
<1>1. Len(prog.fun) \in Nat /\ Fns = 1..Len(prog.fun)
  BY FunctionList
<1>2. IsFiniteSet(Fns) /\ Cardinality(Fns) = Len(prog.fun)
  BY <1>1, FS_Interval
<1>3. \A g \in Fns : CallEdges(g) \in SUBSET Fns
  BY CallsOfProgram
<1>4. \A g \in Fns : next[g] \in SUBSET Fns
  BY <1>3
<1>5. S \in SUBSET Fns
  BY <1>3
<1>6. CalledFrom(f) = W
  BY <1>2 DEF CalledFrom
<1>7. \A g \in Fns : next[g] = CallEdges(g)
  OBVIOUS
<1> HIDE DEF next, S
<1>8. /\ S \subseteq W /\ W \subseteq Fns
      /\ \A g \in W : next[g] \subseteq W
      /\ \A X \in SUBSET Fns :
            S \subseteq X /\ (\A g \in X : next[g] \subseteq X) => W \subseteq X
  BY <1>2, <1>4, <1>5, WithinClosed
<1> HIDE DEF W
<1>9. \A X \in SUBSET Fns : \A g \in X : next[g] = CallEdges(g)
  BY <1>7
<1> QED
  BY <1>6, <1>7, <1>8, <1>9 DEF S

LEMMA CalledParts ==
  ASSUME prog \in Programs, NEW f \in Fns
  PROVE  /\ \A g \in CalledFrom(f) : Reach(g) \subseteq CalledFrom(f)
         /\ CalledFrom(f) = UNION {Reach(g) : g \in CallEdges(f)}
<1>1. CallEdges(f) \subseteq CalledFrom(f) /\ CalledFrom(f) \subseteq Fns
  BY CalledClosed
<1>2. \A g \in CalledFrom(f) : CallEdges(g) \subseteq CalledFrom(f)
  BY CalledClosed
<1>3. ASSUME NEW g \in CalledFrom(f) PROVE Reach(g) \subseteq CalledFrom(f)
  <2>1. CalledFrom(g) \subseteq CalledFrom(f)
    BY <1>1, <1>2, CalledClosed
  <2> QED
    BY <2>1 DEF Reach
<1> DEFINE X == UNION {Reach(g) : g \in CallEdges(f)}
<1>4. X \subseteq CalledFrom(f)
  BY <1>1, <1>3
<1>5. CallEdges(f) \subseteq X
  BY DEF Reach
<1>6. ASSUME NEW g \in X PROVE CallEdges(g) \subseteq X
  <2>1. PICK h \in CallEdges(f) : g \in Reach(h)
    OBVIOUS
  <2>2. h \in Fns
    BY <1>1
  <2>3. CallEdges(g) \subseteq CalledFrom(h)
    BY <2>1, <2>2, CalledClosed DEF Reach
  <2> QED
    BY <2>1, <2>3 DEF Reach
<1> HIDE DEF X
<1>7. CalledFrom(f) \subseteq X
  BY <1>1, <1>4, <1>5, <1>6, CalledClosed
<1> QED
  BY <1>3, <1>4, <1>7 DEF X

LEMMA WritesOfParts ==
  ASSUME prog \in Programs, NEW f \in Fns
  PROVE  /\ AllWrites(f) = WriteEdges(f) \cup UNION {AllWrites(g) : g \in CallEdges(f)}
         /\ AllWrites(f) \subseteq Svs
<1>1. Reach(f) = {f} \cup UNION {Reach(g) : g \in CallEdges(f)}
  BY CalledParts DEF Reach
<1>2. AllWrites(f) = WriteEdges(f) \cup UNION {AllWrites(g) : g \in CallEdges(f)}
  BY <1>1 DEF AllWrites
<1>3. Reach(f) \subseteq Fns
  BY CalledClosed DEF Reach
<1>4. AllWrites(f) \subseteq Svs
  BY <1>3, CallsOfProgram DEF AllWrites
<1> QED
  BY <1>2, <1>4

LEMMA AcyclicParts ==
  ASSUME prog \in Programs, NEW f \in Fns, Acyclic(f)
  PROVE  f \notin CalledFrom(f) /\ \A g \in CallEdges(f) : Acyclic(g)
<1>1. \A g \in Reach(f) : g \notin CalledFrom(g)
  BY DEF Acyclic, Reach
<1>2. \A g \in CallEdges(f) : Reach(g) \subseteq Reach(f)
  BY CalledClosed, CalledParts DEF Reach
<1> QED
  BY <1>1, <1>2 DEF Acyclic, Reach

-----------------------------------------------------------------------------
(* The search with a cache.  A result that is cached is exact unless the   *)
(* function is on a cycle, since a search without cycles never meets a     *)
(* function that it is on the way from.                                    *)

Searching ==
    prog \in Programs /\ \A f \in Fns : fn[f].direct = WriteEdges(f) /\ Callees(f) = CallEdges(f)

Findings == [found : SUBSET Svs, cache : Caches]

(* V is what f and the functions it calls write, or part of it when some   *)
(* of them call themselves.                                                *)
Exact(f, V) ==
    WriteEdges(f) \subseteq V /\ V \subseteq AllWrites(f) /\ (Acyclic(f) => V = AllWrites(f))

Sound(cache) ==
    /\ cache \in Caches
    /\ \A h \in Fns : cache[h] = {} \/ \E V \in SUBSET Svs : cache[h] = {V} /\ Exact(h, V)

Grows(old, new) == \A h \in Fns : old[h] # {} => new[h] # {}

OnTheWay(f, visited) == \A h \in visited : f \in CalledFrom(h)

Answered(f, visited, cache, r) ==
    /\ r \in Findings /\ Sound(r.cache) /\ Grows(cache, r.cache)
    /\ r.found \subseteq AllWrites(f) /\ (Acyclic(f) => r.found = AllWrites(f))
    /\ f \notin visited => r.cache[f] # {}

(* What the searches d of depth n answer.                                  *)
Answers(n, d) ==
    \A f \in Fns, visited \in SUBSET Fns, cache \in Caches :
        Sound(cache) /\ OnTheWay(f, visited) /\ Cardinality(Fns \ visited) < n
            => Answered(f, visited, cache, d[Search(f, visited, cache)])

(* The callees one after the other: what has been found, and the cache.    *)
CalleesThrough(T, f, visited, cache, d) ==
    /\ T \in [Nat -> Findings] /\ T[0] = Finds(WriteEdges(f), cache)
    /\ \A k \in Nat :
          IF k + 1 \notin CallEdges(f) THEN T[k + 1] = T[k]
          ELSE T[k + 1] = Finds(T[k].found \cup d[Search(k + 1, visited \cup {f}, T[k].cache)].found,
                                d[Search(k + 1, visited \cup {f}, T[k].cache)].cache)

LEMMA SearchTyped ==
  /\ \A f \in Fns, visited \in SUBSET Fns, cache \in Caches :
        /\ Search(f, visited, cache) \in Searches
        /\ Search(f, visited, cache).of = f /\ Search(f, visited, cache).visited = visited
        /\ Search(f, visited, cache).cache = cache
  /\ \A V \in SUBSET Svs, cache \in Caches :
        /\ Finds(V, cache) \in Findings
        /\ Finds(V, cache).found = V /\ Finds(V, cache).cache = cache
BY DEF Search, Searches, Finds, Findings

LEMMA SearchCalleesIs ==
  ASSUME Searching, NEW f \in Fns, NEW visited \in SUBSET Fns, NEW cache \in Caches,
         NEW d \in [Searches -> Findings]
  PROVE  \E T : /\ CalleesThrough(T, f, visited, cache, d)
                /\ SearchCallees(f, visited, cache, d) =
                      Finds(T[Len(prog.fun)].found,
                            [T[Len(prog.fun)].cache EXCEPT ![f] = {T[Len(prog.fun)].found}])
<1> DEFINE On(k, acc) ==
             IF k \notin Callees(f) THEN acc
             ELSE LET r == d[Search(k, visited \cup {f}, acc.cache)]
                  IN Finds(acc.found \cup r.found, r.cache)
           a == Finds(fn[f].direct, cache)
           IsThrough(T) == T = [k \in Nat |-> IF k = 0 THEN a ELSE On(k, T[k - 1])]
           F == [x \in Nat \X Findings |-> On(x[1] + 1, x[2])]
<1>1. fn[f].direct = WriteEdges(f) /\ Callees(f) = CallEdges(f) /\ CallEdges(f) \subseteq Fns
      /\ WriteEdges(f) \subseteq Svs
  BY CallsOfProgram DEF Searching
<1>2. a \in Findings
  BY <1>1, SearchTyped
<1>3. ASSUME NEW k, NEW acc \in Findings PROVE On(k, acc) \in Findings
  <2>1. acc.found \in SUBSET Svs /\ acc.cache \in Caches
    BY DEF Findings
  <2>2. CASE k \in Callees(f)
    <3>1. Search(k, visited \cup {f}, acc.cache) \in Searches
      BY <1>1, <2>1, <2>2, SearchTyped
    <3>2. d[Search(k, visited \cup {f}, acc.cache)] \in Findings
      BY <3>1
    <3>3. /\ d[Search(k, visited \cup {f}, acc.cache)].found \in SUBSET Svs
          /\ d[Search(k, visited \cup {f}, acc.cache)].cache \in Caches
      BY <3>2 DEF Findings
    <3> QED
      BY <2>1, <2>2, <3>3, SearchTyped
  <2> QED
    BY <2>2
<1> HIDE DEF On, a
<1>4. F \in [Nat \X Findings -> Findings] /\ \A k \in Nat, acc \in Findings : F[<<k, acc>>] = On(k + 1, acc)
  BY <1>3
<1>5. PICK T : T \in [Nat -> Findings] /\ T[0] = a /\ \A k \in Nat : T[k + 1] = F[<<k, T[k]>>]
  <2>1. Stepping(Findings, a, F)
    BY <1>2, <1>4 DEF Stepping
  <2> HIDE DEF F
  <2>2. \E T : Iterated(T, Findings, a, F)
    BY <2>1, Iterates
  <2> QED
    BY <2>2 DEF Iterated
<1>6. \A k \in Nat : T[k + 1] = On(k + 1, T[k])
  <2> HIDE DEF F
  <2> QED
    BY <1>4, <1>5
<1>7. IsThrough(T)
  <2>1. ASSUME NEW k \in Nat PROVE T[k] = IF k = 0 THEN a ELSE On(k, T[k - 1])
    <3>1. CASE k = 0
      BY <1>5, <3>1
    <3>2. CASE k # 0
      <4>1. k - 1 \in Nat /\ (k - 1) + 1 = k
        BY <3>2
      <4> QED
        BY <1>6, <3>2, <4>1
    <3> QED
      BY <3>1, <3>2
  <2> QED
    BY <1>5, <2>1
<1> DEFINE U == CHOOSE T_1 : IsThrough(T_1)
<1>8. IsThrough(U)
  <2> HIDE DEF IsThrough
  <2> QED
    BY <1>7
<1>9. SearchCallees(f, visited, cache, d) =
        Finds(U[Len(prog.fun)].found, [U[Len(prog.fun)].cache EXCEPT ![f] = {U[Len(prog.fun)].found}])
  BY DEF SearchCallees, On, a
<1> HIDE DEF U
<1>10. U = [k \in Nat |-> IF k = 0 THEN a ELSE On(k, U[k - 1])]
  BY <1>8
<1>11. U[0] = a /\ \A k \in Nat : U[k + 1] = On(k + 1, U[k])
  BY <1>10
<1>12. U \in [Nat -> Findings]
  <2> DEFINE Q == {k \in Nat : U[k] \in Findings}
  <2>1. 0 \in Q /\ \A k \in Q : k + 1 \in Q
    BY <1>2, <1>3, <1>11
  <2> HIDE DEF Q
  <2>2. Q \subseteq Nat
    BY DEF Q
  <2>3. Q = Nat
    BY <2>1, <2>2, NatSet
  <2>4. \A k \in Nat : U[k] \in Findings
    BY <2>3 DEF Q
  <2> QED
    BY <1>10, <2>4
<1>13. CalleesThrough(U, f, visited, cache, d)
  BY <1>1, <1>11, <1>12 DEF CalleesThrough, On, a
<1> QED
  BY <1>9, <1>13

LEMMA VisitTyped ==
  ASSUME Searching, NEW f \in Fns, NEW visited \in SUBSET Fns, NEW cache \in Caches,
         NEW d \in [Searches -> Findings]
  PROVE  Visit(f, visited, cache, d) \in Findings
<1> DEFINE N == Len(prog.fun)
<1>1. PICK T : /\ CalleesThrough(T, f, visited, cache, d)
               /\ SearchCallees(f, visited, cache, d)
                    = Finds(T[N].found, [T[N].cache EXCEPT ![f] = {T[N].found}])
  BY SearchCalleesIs
<1>2. N \in Nat
  BY FunctionList DEF Searching
<1> HIDE DEF N
<1>3. T[N].found \in SUBSET Svs /\ T[N].cache \in Caches
  BY <1>1, <1>2 DEF CalleesThrough, Findings
<1>4. [T[N].cache EXCEPT ![f] = {T[N].found}] \in Caches
  BY <1>3 DEF Caches
<1>5. SearchCallees(f, visited, cache, d) \in Findings
  BY <1>1, <1>3, <1>4, SearchTyped
<1>6. UNION cache[f] \in SUBSET Svs /\ {} \in SUBSET Svs
  BY DEF Caches
<1>7. Finds(UNION cache[f], cache) \in Findings /\ Finds({}, cache) \in Findings
  BY <1>6, SearchTyped
<1> QED
  BY <1>5, <1>7 DEF Visit

LEMMA DfsStep ==
  ASSUME Searching
  PROVE  /\ \A n \in Nat : Dfs[n] \in [Searches -> Findings]
         /\ \A n \in Nat : \A s \in Searches :
               Dfs[n + 1][s] = Visit(s.of, s.visited, s.cache, Dfs[n])
<1> DEFINE X == [Searches -> Findings]
           a == [s \in Searches |-> Finds({}, s.cache)]
           On(d) == [s \in Searches |-> Visit(s.of, s.visited, s.cache, d)]
           F == [x \in Nat \X X |-> On(x[2])]
           IsDfs(g) == g = [n \in Nat |-> [s \in Searches |->
                              IF n = 0 THEN Finds({}, s.cache)
                              ELSE Visit(s.of, s.visited, s.cache, g[n - 1])]]
<1>1. \A s \in Searches : s.of \in Fns /\ s.visited \in SUBSET Fns /\ s.cache \in Caches
  BY DEF Searches
<1>2. a \in X
  BY <1>1, SearchTyped
<1>3. ASSUME NEW d \in X PROVE On(d) \in X
  BY <1>1, VisitTyped
<1>4. PICK g : g \in [Nat -> X] /\ g[0] = a /\ \A n \in Nat : g[n + 1] = On(g[n])
  <2> HIDE DEF X, a, On
  <2>1. F \in [Nat \X X -> X] /\ \A n \in Nat, d \in X : F[<<n, d>>] = On(d)
    BY <1>3
  <2>2. Stepping(X, a, F)
    BY <1>2, <2>1 DEF Stepping
  <2> HIDE DEF F
  <2>3. \E g : Iterated(g, X, a, F)
    BY <2>2, Iterates
  <2> QED
    BY <2>1, <2>3 DEF Iterated
<1>5. IsDfs(g)
  <2>1. ASSUME NEW n \in Nat
        PROVE  g[n] = [s \in Searches |-> IF n = 0 THEN Finds({}, s.cache)
                                          ELSE Visit(s.of, s.visited, s.cache, g[n - 1])]
    <3>1. CASE n = 0
      BY <1>4, <3>1
    <3>2. CASE n # 0
      <4>1. n - 1 \in Nat /\ (n - 1) + 1 = n
        BY <3>2
      <4>2. g[n] = On(g[n - 1])
        BY <1>4, <4>1
      <4> QED
        BY <3>2, <4>2
    <3> QED
      BY <3>1, <3>2
  <2>2. g = [n \in Nat |-> g[n]]
    BY <1>4
  <2> QED
    BY <2>1, <2>2
<1>6. Dfs = CHOOSE h : IsDfs(h)
  BY DEF Dfs
<1>7. IsDfs(Dfs)
  <2> HIDE DEF IsDfs
  <2> QED
    BY <1>5, <1>6
<1> DEFINE D == Dfs
<1> HIDE DEF D
<1>8. D = [n \in Nat |-> [s \in Searches |-> IF n = 0 THEN Finds({}, s.cache)
                                            ELSE Visit(s.of, s.visited, s.cache, D[n - 1])]]
  BY <1>7 DEF D
<1>9. D[0] = a
  BY <1>8
<1>10. ASSUME NEW n \in Nat PROVE D[n + 1] = On(D[n])
  <2>1. n + 1 \in Nat /\ n + 1 # 0 /\ (n + 1) - 1 = n
    OBVIOUS
  <2>2. D[n + 1] = [s \in Searches |-> IF n + 1 = 0 THEN Finds({}, s.cache)
                                       ELSE Visit(s.of, s.visited, s.cache, D[(n + 1) - 1])]
    BY <1>8, <2>1
  <2> QED
    BY <2>1, <2>2
<1>11. \A n \in Nat : D[n] \in X
  <2> DEFINE Q == {n \in Nat : D[n] \in X}
  <2> HIDE DEF X, On, a
  <2>1. 0 \in Q /\ \A n \in Q : n + 1 \in Q
    BY <1>2, <1>3, <1>9, <1>10
  <2> HIDE DEF Q
  <2>2. Q \subseteq Nat
    BY DEF Q
  <2>3. Q = Nat
    BY <2>1, <2>2, NatSet
  <2> QED
    BY <2>3 DEF Q
<1>12. \A n \in Nat : \A s \in Searches : D[n + 1][s] = Visit(s.of, s.visited, s.cache, D[n])
  BY <1>10
<1> QED
  BY <1>11, <1>12 DEF D

LEMMA DeeperSearch ==
  ASSUME Searching, NEW f \in Fns, NEW visited \in SUBSET Fns, f \notin visited,
         NEW n \in Nat, Cardinality(Fns \ visited) < n + 1, OnTheWay(f, visited),
         NEW h \in CallEdges(f)
  PROVE  /\ h \in Fns /\ visited \cup {f} \in SUBSET Fns /\ OnTheWay(h, visited \cup {f})
         /\ Cardinality(Fns \ (visited \cup {f})) < n
<1>1. h \in Fns /\ visited \cup {f} \in SUBSET Fns
  BY CallsOfProgram DEF Searching
<1>2. OnTheWay(h, visited \cup {f})
  <2>1. h \in CalledFrom(f)
    BY CalledClosed DEF Searching
  <2>2. ASSUME NEW g \in visited PROVE h \in CalledFrom(g)
    <3>1. g \in Fns /\ f \in CalledFrom(g)
      BY DEF OnTheWay
    <3> QED
      BY <3>1, CalledClosed DEF Searching
  <2> QED
    BY <2>1, <2>2 DEF OnTheWay
<1>3. Cardinality(Fns \ (visited \cup {f})) < n
  <2> DEFINE left == Fns \ visited
  <2>1. IsFiniteSet(left)
    <3>1. IsFiniteSet(Fns)
      BY FunctionList, FS_Interval DEF Searching
    <3> QED
      BY <3>1, FS_Subset
  <2>2. f \in left /\ Fns \ (visited \cup {f}) = left \ {f}
    OBVIOUS
  <2> HIDE DEF left
  <2>3. Cardinality(left \ {f}) = Cardinality(left) - 1 /\ Cardinality(left) \in Nat
    BY <2>1, <2>2, FS_RemoveElement, FS_CardinalityType
  <2>4. Cardinality(left) < n + 1
    BY DEF left
  <2> QED
    BY <2>2, <2>3, <2>4
<1> QED
  BY <1>1, <1>2, <1>3

LEMMA SearchAnswers ==
  ASSUME Searching, NEW n \in Nat, NEW d \in [Searches -> Findings], Answers(n, d),
         NEW f \in Fns, NEW visited \in SUBSET Fns, NEW cache \in Caches,
         Sound(cache), OnTheWay(f, visited), Cardinality(Fns \ visited) < n + 1,
         f \notin visited
  PROVE  Answered(f, visited, cache, SearchCallees(f, visited, cache, d))
<1> DEFINE N == Len(prog.fun)
<1>1. PICK T : /\ CalleesThrough(T, f, visited, cache, d)
               /\ SearchCallees(f, visited, cache, d)
                    = Finds(T[N].found, [T[N].cache EXCEPT ![f] = {T[N].found}])
  BY SearchCalleesIs
<1>2. N \in Nat /\ Fns = 1..N /\ prog \in Programs
  BY FunctionList DEF Searching
<1> HIDE DEF N
<1>3. /\ AllWrites(f) = WriteEdges(f) \cup UNION {AllWrites(g) : g \in CallEdges(f)}
      /\ AllWrites(f) \subseteq Svs /\ CallEdges(f) \subseteq Fns
      /\ Acyclic(f) => \A g \in CallEdges(f) : Acyclic(g)
  BY <1>2, WritesOfParts, AcyclicParts, CallsOfProgram
<1> DEFINE Fine(k) ==
             /\ Sound(T[k].cache) /\ Grows(cache, T[k].cache)
             /\ T[k].found \subseteq AllWrites(f) /\ WriteEdges(f) \subseteq T[k].found
             /\ Acyclic(f) => \A g \in CallEdges(f) : g <= k => AllWrites(g) \subseteq T[k].found
           Q == {k \in Nat : Fine(k)}
<1>4. Fine(0)
  <2>1. T[0].found = WriteEdges(f) /\ T[0].cache = cache
    BY <1>1 DEF CalleesThrough, Finds
  <2>2. \A g \in CallEdges(f) : ~(g <= 0)
    BY <1>2, <1>3
  <2> QED
    BY <1>3, <2>1, <2>2 DEF Grows
<1>5. ASSUME NEW k \in Nat, Fine(k) PROVE Fine(k + 1)
  <2>1. CASE k + 1 \notin CallEdges(f)
    <3>1. T[k + 1] = T[k]
      BY <1>1, <2>1 DEF CalleesThrough
    <3>2. \A g \in CallEdges(f) : g <= k + 1 => g <= k
      BY <1>2, <1>3, <2>1
    <3> QED
      BY <1>5, <3>1, <3>2
  <2>2. CASE k + 1 \in CallEdges(f)
    <3> DEFINE h == k + 1
               r == d[Search(h, visited \cup {f}, T[k].cache)]
    <3>1. h \in CallEdges(f) /\ h \in Fns
      BY <1>3, <2>2
    <3>2. T[k + 1] = Finds(T[k].found \cup r.found, r.cache)
      BY <1>1, <2>2 DEF CalleesThrough
    <3> HIDE DEF h
    <3>3. Answered(h, visited \cup {f}, T[k].cache, r)
      <4>1. /\ visited \cup {f} \in SUBSET Fns /\ OnTheWay(h, visited \cup {f})
            /\ Cardinality(Fns \ (visited \cup {f})) < n
        BY <3>1, DeeperSearch
      <4>2. T[k].cache \in Caches /\ Sound(T[k].cache)
        BY <1>5 DEF Sound
      <4> QED
        BY <3>1, <4>1, <4>2 DEF Answers
    <3> HIDE DEF r
    <3>4. T[k + 1].found = T[k].found \cup r.found /\ T[k + 1].cache = r.cache
      BY <3>2 DEF Finds
    <3>5. Sound(r.cache) /\ Grows(T[k].cache, r.cache) /\ r.found \subseteq AllWrites(h)
          /\ (Acyclic(h) => r.found = AllWrites(h))
      BY <3>3 DEF Answered
    <3>6. Grows(cache, r.cache)
      BY <1>5, <3>5 DEF Grows
    <3>7. r.found \subseteq AllWrites(f)
      BY <1>3, <3>1, <3>5
    <3>8. ASSUME Acyclic(f), NEW g \in CallEdges(f), g <= k + 1
          PROVE  AllWrites(g) \subseteq T[k].found \cup r.found
      <4>1. CASE g = h
        BY <1>3, <3>5, <3>8, <4>1
      <4>2. CASE g # h
        <5>1. g <= k
          BY <1>2, <1>3, <3>8, <4>2 DEF h
        <5> QED
          BY <1>5, <3>8, <5>1
      <4> QED
        BY <4>1, <4>2
    <3> QED
      BY <1>5, <3>4, <3>5, <3>6, <3>7, <3>8
  <2> QED
    BY <2>1, <2>2
<1>6. Fine(N)
  <2> HIDE DEF Fine
  <2>1. 0 \in Q /\ \A k \in Q : k + 1 \in Q
    BY <1>4, <1>5
  <2> HIDE DEF Q
  <2>2. Q \subseteq Nat
    BY DEF Q
  <2>3. Q = Nat
    BY <2>1, <2>2, NatSet
  <2> QED
    BY <1>2, <2>3 DEF Q
<1> DEFINE V   == T[N].found
           new == [T[N].cache EXCEPT ![f] = {V}]
<1>7. /\ Sound(T[N].cache) /\ Grows(cache, T[N].cache)
      /\ V \subseteq AllWrites(f) /\ WriteEdges(f) \subseteq V
  BY <1>6
<1>8. ASSUME Acyclic(f) PROVE V = AllWrites(f)
  <2>1. \A g \in CallEdges(f) : g <= N
    BY <1>2, <1>3
  <2>2. \A g \in CallEdges(f) : AllWrites(g) \subseteq V
    BY <1>6, <1>8, <2>1
  <2> HIDE DEF V
  <2> QED
    BY <1>3, <1>7, <2>2
<1>9. Exact(f, V) /\ V \in SUBSET Svs
  BY <1>3, <1>7, <1>8 DEF Exact
<1>10. T[N].cache \in Caches /\ DOMAIN T[N].cache = Fns
  BY <1>7 DEF Sound, Caches
<1> HIDE DEF V
<1>11. /\ new \in Caches /\ new[f] = {V}
       /\ \A g \in Fns : g # f => new[g] = T[N].cache[g]
  BY <1>9, <1>10 DEF Caches
<1> HIDE DEF new
<1>12. Sound(new)
  BY <1>7, <1>9, <1>11 DEF Sound
<1>13. Grows(cache, new)
  BY <1>7, <1>11 DEF Grows
<1>14. SearchCallees(f, visited, cache, d) = Finds(V, new)
  BY <1>1 DEF V, new
<1>15. Finds(V, new) \in Findings /\ Finds(V, new).found = V /\ Finds(V, new).cache = new
  BY <1>9, <1>11, SearchTyped
<1> QED
  BY <1>7, <1>8, <1>11, <1>12, <1>13, <1>14, <1>15 DEF Answered

LEMMA VisitAnswers ==
  ASSUME Searching, NEW n \in Nat, NEW d \in [Searches -> Findings], Answers(n, d),
         NEW f \in Fns, NEW visited \in SUBSET Fns, NEW cache \in Caches,
         Sound(cache), OnTheWay(f, visited), Cardinality(Fns \ visited) < n + 1
  PROVE  Answered(f, visited, cache, Visit(f, visited, cache, d))
<1>1. Grows(cache, cache)
  BY DEF Grows
<1>2. CASE cache[f] # {}
  <2>1. PICK V \in SUBSET Svs : cache[f] = {V} /\ Exact(f, V)
    BY <1>2 DEF Sound
  <2>2. UNION cache[f] = V
    BY <2>1
  <2>3. Visit(f, visited, cache, d) = Finds(V, cache)
    BY <1>2, <2>2 DEF Visit
  <2>4. Finds(V, cache) \in Findings /\ Finds(V, cache).found = V /\ Finds(V, cache).cache = cache
    BY SearchTyped
  <2> QED
    BY <1>1, <1>2, <2>1, <2>3, <2>4 DEF Answered, Exact
<1>3. CASE cache[f] = {} /\ f \in visited
  <2>1. Visit(f, visited, cache, d) = Finds({}, cache)
    BY <1>3 DEF Visit
  <2>2. ~Acyclic(f)
    BY <1>3, AcyclicParts DEF OnTheWay, Searching
  <2>3. {} \in SUBSET Svs
    OBVIOUS
  <2>4. Finds({}, cache) \in Findings /\ Finds({}, cache).found = {} /\ Finds({}, cache).cache = cache
    BY <2>3, SearchTyped
  <2> QED
    BY <1>1, <1>3, <2>1, <2>2, <2>4 DEF Answered
<1>4. CASE cache[f] = {} /\ f \notin visited
  <2>1. Visit(f, visited, cache, d) = SearchCallees(f, visited, cache, d)
    BY <1>4 DEF Visit
  <2> QED
    BY <1>4, <2>1, SearchAnswers
<1> QED
  BY <1>2, <1>3, <1>4

LEMMA DfsAnswers ==
  ASSUME Searching
  PROVE  \A n \in Nat : Answers(n, Dfs[n])
<1> DEFINE Q == {n \in Nat : Answers(n, Dfs[n])}
<1>1. Answers(0, Dfs[0])
  <2>1. ASSUME NEW visited \in SUBSET Fns PROVE ~(Cardinality(Fns \ visited) < 0)
    <3>1. IsFiniteSet(Fns)
      BY FunctionList, FS_Interval DEF Searching
    <3>2. Cardinality(Fns \ visited) \in Nat
      BY <3>1, FS_Subset, FS_CardinalityType
    <3> QED
      BY <3>2
  <2> QED
    BY <2>1 DEF Answers
<1>2. ASSUME NEW n \in Nat, Answers(n, Dfs[n]) PROVE Answers(n + 1, Dfs[n + 1])
  <2>1. Dfs[n] \in [Searches -> Findings]
    BY DfsStep
  <2> SUFFICES ASSUME NEW f \in Fns, NEW visited \in SUBSET Fns, NEW cache \in Caches,
                      Sound(cache), OnTheWay(f, visited), Cardinality(Fns \ visited) < n + 1
               PROVE  Answered(f, visited, cache, Dfs[n + 1][Search(f, visited, cache)])
    BY DEF Answers
  <2>2. Dfs[n + 1][Search(f, visited, cache)] = Visit(f, visited, cache, Dfs[n])
    <3> DEFINE s == Search(f, visited, cache)
    <3>1. s \in Searches /\ s.of = f /\ s.visited = visited /\ s.cache = cache
      BY SearchTyped
    <3> HIDE DEF s
    <3>2. Dfs[n + 1][s] = Visit(s.of, s.visited, s.cache, Dfs[n])
      BY <3>1, DfsStep
    <3> QED
      BY <3>1, <3>2 DEF s
  <2> QED
    BY <1>2, <2>1, <2>2, VisitAnswers
<1>3. 0 \in Q /\ \A n \in Q : n + 1 \in Q
  BY <1>1, <1>2
<1> HIDE DEF Q
<1>4. Q \subseteq Nat
  BY DEF Q
<1>5. Q = Nat
  BY <1>3, <1>4, NatSet
<1> QED
  BY <1>5 DEF Q

LEMMA CacheIs ==
  ASSUME Searching
  PROVE  /\ CacheAfter[0] = Unknown
         /\ \A k \in Nat : k + 1 \in Fns =>
               CacheAfter[k + 1]
                 = Dfs[Len(prog.fun) + 1][Search(k + 1, {}, CacheAfter[k])].cache
<1> DEFINE N == Len(prog.fun)
           d == Dfs[N + 1]
           On(k, c) == d[Search(k, {}, c)].cache
           F == [x \in Nat \X Caches |-> IF x[1] + 1 \in Fns THEN On(x[1] + 1, x[2]) ELSE x[2]]
           IsCache(g) == g = [k \in 0..N |-> IF k = 0 THEN Unknown ELSE On(k, g[k - 1])]
<1>1. N \in Nat /\ Fns = 1..N
  BY FunctionList DEF Searching
<1>2. d \in [Searches -> Findings]
  BY <1>1, DfsStep
<1> HIDE DEF N, d
<1>3. ASSUME NEW k \in Fns, NEW c \in Caches PROVE On(k, c) \in Caches
  <2>1. Search(k, {}, c) \in Searches
    BY SearchTyped
  <2>2. d[Search(k, {}, c)] \in Findings
    BY <1>2, <2>1
  <2> QED
    BY <2>2 DEF Findings
<1> HIDE DEF On
<1>4. Unknown \in Caches
  BY DEF Unknown, Caches
<1>5. F \in [Nat \X Caches -> Caches]
      /\ \A k \in Nat, c \in Caches : k + 1 \in Fns => F[<<k, c>>] = On(k + 1, c)
  BY <1>3
<1>6. PICK g : g \in [Nat -> Caches] /\ g[0] = Unknown
               /\ \A k \in Nat : k + 1 \in Fns => g[k + 1] = On(k + 1, g[k])
  <2>1. Stepping(Caches, Unknown, F)
    BY <1>4, <1>5 DEF Stepping
  <2> HIDE DEF F
  <2>2. \E g : Iterated(g, Caches, Unknown, F)
    BY <2>1, Iterates
  <2> QED
    BY <1>5, <2>2 DEF Iterated
<1> DEFINE h == [k \in 0..N |-> g[k]]
<1>7. IsCache(h)
  <2>1. ASSUME NEW k \in 0..N PROVE h[k] = IF k = 0 THEN Unknown ELSE On(k, h[k - 1])
    <3>1. CASE k = 0
      BY <1>6, <3>1
    <3>2. CASE k # 0
      <4>1. k - 1 \in Nat /\ k - 1 \in 0..N /\ (k - 1) + 1 = k /\ k \in Fns
        BY <1>1, <3>2
      <4>2. g[k] = On(k, g[k - 1])
        BY <1>6, <4>1
      <4> QED
        BY <3>2, <4>1, <4>2
    <3> QED
      BY <3>1, <3>2
  <2>2. h = [k \in 0..N |-> h[k]]
    OBVIOUS
  <2> HIDE DEF h
  <2> QED
    BY <2>1, <2>2
<1>8. CacheAfter = CHOOSE c : IsCache(c)
  BY DEF CacheAfter, On, d, N
<1>9. IsCache(CacheAfter)
  <2> HIDE DEF IsCache, h
  <2> QED
    BY <1>7, <1>8
<1> DEFINE C == CacheAfter
<1> HIDE DEF C
<1>10. C = [k \in 0..N |-> IF k = 0 THEN Unknown ELSE On(k, C[k - 1])]
  BY <1>9 DEF C
<1>11. C[0] = Unknown
  BY <1>1, <1>10
<1>12. ASSUME NEW k \in Nat, k + 1 \in Fns PROVE C[k + 1] = On(k + 1, C[k])
  <2>1. k + 1 \in 0..N /\ k + 1 # 0 /\ (k + 1) - 1 = k
    BY <1>1, <1>12
  <2>2. C[k + 1] = IF k + 1 = 0 THEN Unknown ELSE On(k + 1, C[(k + 1) - 1])
    BY <1>10, <2>1
  <2> QED
    BY <2>1, <2>2
<1> QED
  BY <1>11, <1>12 DEF C, On, d, N

(* What every function is left with after all the searches.                *)
LEMMA PropagatedAnswers ==
  ASSUME Searching
  PROVE  \A f \in Fns : Exact(f, PropagatedAll[f])
<1> DEFINE N == Len(prog.fun)
           C(k) == CacheAfter[k]
           Q == {k \in Nat : k <= N => Sound(C(k)) /\ \A h \in Fns : h <= k => C(k)[h] # {}}
<1>1. N \in Nat /\ Fns = 1..N
  BY FunctionList DEF Searching
<1>2. Answers(N + 1, Dfs[N + 1])
  BY <1>1, DfsAnswers
<1>3. Cardinality(Fns \ {}) < N + 1
  <2>1. Fns \ {} = 1..N
    BY <1>1
  <2>2. Cardinality(1..N) = N
    BY <1>1, FS_Interval
  <2> HIDE DEF N
  <2> QED
    BY <1>1, <2>1, <2>2
<1>4. /\ C(0) = Unknown
      /\ \A k \in Nat : k + 1 \in Fns => C(k + 1) = Dfs[N + 1][Search(k + 1, {}, C(k))].cache
  BY CacheIs
<1> HIDE DEF N, C
<1>5. 0 \in Q
  <2>1. Sound(Unknown)
    BY DEF Sound, Unknown, Caches
  <2>2. \A h \in Fns : ~(h <= 0)
    BY <1>1
  <2> QED
    BY <1>4, <2>1, <2>2
<1>6. ASSUME NEW k \in Q PROVE k + 1 \in Q
  <2> SUFFICES ASSUME k + 1 <= N
               PROVE  Sound(C(k + 1)) /\ \A h \in Fns : h <= k + 1 => C(k + 1)[h] # {}
    OBVIOUS
  <2>1. k \in Nat /\ k <= N /\ k + 1 \in Fns
    BY <1>1
  <2>2. Sound(C(k)) /\ \A h \in Fns : h <= k => C(k)[h] # {}
    BY <2>1
  <2> DEFINE f == k + 1
             r == Dfs[N + 1][Search(f, {}, C(k))]
  <2>3. C(k + 1) = r.cache /\ f \in Fns
    BY <1>4, <2>1
  <2> HIDE DEF f
  <2>4. Answered(f, {}, C(k), r)
    <3>1. OnTheWay(f, {}) /\ {} \in SUBSET Fns /\ C(k) \in Caches
      BY <2>2 DEF OnTheWay, Sound
    <3> QED
      BY <1>2, <1>3, <2>2, <2>3, <3>1 DEF Answers
  <2> HIDE DEF r
  <2>5. Sound(r.cache) /\ Grows(C(k), r.cache) /\ r.cache[f] # {}
    BY <2>4 DEF Answered
  <2>6. ASSUME NEW h \in Fns, h <= k + 1 PROVE r.cache[h] # {}
    <3>1. CASE h = f
      BY <2>5, <3>1
    <3>2. CASE h # f
      <4>1. h <= k
        BY <1>1, <2>1, <2>6, <3>2 DEF f
      <4> QED
        BY <2>2, <2>5, <4>1 DEF Grows
    <3> QED
      BY <3>1, <3>2
  <2> QED
    BY <2>3, <2>5, <2>6
<1>7. Sound(C(N)) /\ \A h \in Fns : C(N)[h] # {}
  <2> HIDE DEF Q
  <2>1. Q \subseteq Nat
    BY DEF Q
  <2>2. Q = Nat
    BY <1>5, <1>6, <2>1, NatSet
  <2>3. N \in Q
    BY <1>1, <2>2
  <2> QED
    BY <1>1, <2>3 DEF Q
<1> TAKE f \in Fns
<1>8. PICK V \in SUBSET Svs : C(N)[f] = {V} /\ Exact(f, V)
  BY <1>7 DEF Sound
<1>9. PropagatedAll[f] = UNION C(N)[f]
  BY DEF PropagatedAll, C, N
<1>10. UNION C(N)[f] = V
  BY <1>8
<1> QED
  BY <1>8, <1>9, <1>10

-----------------------------------------------------------------------------
(* The writes that a function is given stay exact, and no chain is there   *)
(* before the pass that makes them.                                        *)

Propagation ==
    /\ pass > 3 => \A f \in Fns : Exact(f, fn[f].propagated)
    /\ pass <= 32 => \A f \in Fns : fn[f].chains = {}

LEMMA SameReach ==
  ASSUME prog' = prog
  PROVE  /\ \A f : CalledFrom(f)' = CalledFrom(f) /\ AllWrites(f)' = AllWrites(f)
                   /\ (Acyclic(f)' <=> Acyclic(f))
         /\ \A f, V : Exact(f, V)' <=> Exact(f, V')
<1>1. /\ Fns' = Fns
      /\ \A f : WriteEdges(f)' = WriteEdges(f) /\ CallEdges(f)' = CallEdges(f)
  BY SameProgram
<1> DEFINE next == [g \in Fns |-> CallEdges(g)]
<1>2. next' = next
  BY <1>1
<1>3. \A f : CalledFrom(f) = Within(CallEdges(f), next)[Len(prog.fun)]
  BY DEF CalledFrom
<1>4. \A f : CalledFrom(f)' = Within(CallEdges(f)', next')[Len(prog'.fun)]
  BY DEF CalledFrom
<1> HIDE DEF next
<1>5. \A f : CalledFrom(f)' = CalledFrom(f)
  BY <1>1, <1>2, <1>3, <1>4
<1>6. \A f : Acyclic(f)' <=> Acyclic(f)
  BY <1>5 DEF Acyclic
<1>7. \A f : AllWrites(f)' = AllWrites(f)
  BY <1>1, <1>5 DEF AllWrites, Reach
<1>8. \A f, V : Exact(f, V)' <=> Exact(f, V')
  BY <1>1, <1>6, <1>7 DEF Exact
<1> QED
  BY <1>5, <1>6, <1>7, <1>8

LEMMA PropagationInductive ==
  /\ Init => Propagation
  /\ GuardInv /\ Propagation /\ [Next]_<<vars, hotspots>> => Propagation'
<1>1. Init => Propagation
  <2>1. \A f : NewFn(f).chains = {}
    BY DEF NewFn
  <2> QED
    BY <2>1 DEF Init, Propagation
<1>2. ASSUME GuardInv, Propagation, Next PROVE Propagation'
  <2>1. /\ prog' = prog /\ pass \in 1..38 /\ pass' = pass + 1 /\ Fns' = Fns /\ Shape
        /\ prog \in Programs
    BY <1>2, Unassigned, SameProgram DEF GuardInv
  <2>2. \A f, V : Exact(f, V)' <=> Exact(f, V')
    BY <2>1, SameReach
  <2>3. ASSUME NEW f \in Fns, pass' > 3 PROVE Exact(f, fn'[f].propagated)
    <3>1. CASE pass = 3
      <4>1. Searching
        <5>1. \A g \in Fns : fn[g].direct = WriteEdges(g)
          BY <1>2, <3>1 DEF GuardInv, GuardFacts
        <5>2. \A g \in Fns : Callees(g) = CallEdges(g)
          BY <1>2, <2>1, <3>1, CalleesOf DEF GuardInv
        <5> QED
          BY <2>1, <5>1, <5>2 DEF Searching
      <4>2. PropagateWrites
        BY <1>2, <3>1, Acts
      <4> DEFINE all == PropagatedAll
                 Indirect(g) == all[g] \ fn[g].direct # {}
      <4>3. fn'[f] = [fn[f] EXCEPT !.propagated = all[f], !.indirect = Indirect(f),
                                   !.depth = IF Indirect(f) THEN Nearest(f) ELSE 0]
        BY <4>2 DEF PropagateWrites, FnPass
      <4>4. "propagated" \in DOMAIN fn[f]
        BY <2>1, Attributes DEF Shape
      <4> HIDE DEF all, Indirect
      <4>5. fn'[f].propagated = all[f]
        BY <4>3, <4>4
      <4> QED
        BY <4>1, <4>5, PropagatedAnswers DEF all
    <3>2. CASE pass > 3
      <4>1. fn'[f].propagated = fn[f].propagated
        BY <1>2, <2>1, <3>2, Unassigned
      <4> QED
        BY <1>2, <3>2, <4>1 DEF Propagation
    <3> QED
      BY <2>1, <2>3, <3>1, <3>2
  <2>4. ASSUME NEW f \in Fns, pass' <= 32 PROVE fn'[f].chains = {}
    <3>1. CASE pass = 1
      <4>1. fn'[f] = NewFn(f)
        BY <1>2, <3>1, Acts DEF AddNodes
      <4> QED
        BY <4>1 DEF NewFn
    <3>2. CASE pass \in 2..31
      <4>1. fn'[f].chains = fn[f].chains
        BY <1>2, <2>1, <3>2, Unassigned
      <4> QED
        BY <1>2, <3>2, <4>1 DEF Propagation
    <3> QED
      BY <2>1, <2>4, <3>1, <3>2
  <2>5. \A f \in Fns : Exact(f, fn[f].propagated)' <=> Exact(f, fn'[f].propagated)
    BY <2>2
  <2> QED
    BY <2>1, <2>3, <2>4, <2>5 DEF Propagation
<1>3. ASSUME Propagation, UNCHANGED <<vars, hotspots>> PROVE Propagation'
  <2>1. prog' = prog /\ fn' = fn /\ pass' = pass
    BY <1>3 DEF vars
  <2>2. Fns' = Fns /\ \A f, V : Exact(f, V)' <=> Exact(f, V')
    BY <2>1, SameProgram, SameReach
  <2>3. \A f \in Fns : Exact(f, fn[f].propagated)' <=> Exact(f, fn'[f].propagated)
    BY <2>2
  <2> QED
    BY <1>3, <2>1, <2>2, <2>3 DEF Propagation
<1> QED
  BY <1>1, <1>2, <1>3

LEMMA PropagationHolds == Spec => [](GuardInv /\ Propagation)
BY GuardInvInductive, PropagationInductive, PTL DEF Spec

(* The search with one cache for all functions gives a function only what  *)
(* it or a function that it calls writes, and all of it unless one of them *)
(* calls itself, in whatever order the functions are searched and whatever *)
(* the program.                                                            *)
THEOREM PropagationIsExact == Spec => []PropagatedExact
<1>1. GuardInv /\ Propagation => PropagatedExact
  <2> SUFFICES ASSUME GuardInv, Propagation, After("propagate_writes"), NEW f \in Fns
               PROVE  LET all == UNION {WriteEdges(g) : g \in {f} \cup CalledFrom(f)}
                      IN /\ fn[f].propagated \subseteq all
                         /\ Acyclic(f) => fn[f].propagated = all
    BY DEF PropagatedExact
  <2>1. pass > 3
    BY Through DEF GuardInv
  <2>2. Exact(f, fn[f].propagated)
    BY <2>1 DEF Propagation
  <2>3. AllWrites(f) = UNION {WriteEdges(g) : g \in {f} \cup CalledFrom(f)}
    BY DEF AllWrites, Reach
  <2> QED
    BY <2>2, <2>3 DEF Exact
<1> QED
  BY <1>1, PropagationHolds, PTL

(* A chain of exploit steps is one that an attacker could follow, from the *)
(* pass that makes it on and whatever the program: reachable functions of  *)
(* one contract, none twice, each writing what the next one uses.          *)
THEOREM ChainsCanBeFollowed == Spec => []ChainsAreSteps
<1>1. AnswerInv /\ Propagation => ChainsAreSteps
  <2> SUFFICES ASSUME AnswerInv, Propagation, NEW f \in Fns, NEW c \in fn[f].chains
               PROVE  /\ Len(c.steps) \in 2..MaxDepth /\ IsInjective(c.steps)
                      /\ c.feasibility \in 0..100
                      /\ \A i \in 1..(Len(c.steps) - 1) :
                            LET a == c.steps[i]
                                b == c.steps[i + 1]
                            IN /\ Src(a).contract = Src(b).contract
                               /\ fn[b].entries # {}
                               /\ fn[a].propagated \cap (ReadEdges(b) \cup fn[b].propagated) # {}
    BY DEF ChainsAreSteps
  <2>1. pass \in 1..39 /\ pass > 32
    BY DEF Propagation, AnswerInv, GuardInv
  <2>2. Stepwise(c)
    <3>1. FnAnswers(f)
      BY DEF AnswerInv
    <3> QED
      BY <2>1, <3>1 DEF FnAnswers
  <2>3. ASSUME NEW a, NEW b, Linked(a, b)
        PROVE  /\ Src(a).contract = Src(b).contract
               /\ fn[b].entries # {}
               /\ fn[a].propagated \cap (ReadEdges(b) \cup fn[b].propagated) # {}
    <3>1. a \in Fns /\ b \in Fns /\ fn[b].entries # {} /\ rel[a][b] = "STATE_DEPENDENCY"
      BY <2>3 DEF Linked
    <3>2. Depends(a, b)
      BY <2>1, <3>1 DEF AnswerInv, Depended
    <3>3. WriteEdges(a) \subseteq fn[a].propagated /\ WriteEdges(b) \subseteq fn[b].propagated
      BY <2>1, <3>1 DEF Propagation, Exact
    <3>4. StateWrites(a) = fn[a].propagated /\ StateWrites(b) = fn[b].propagated
      BY <3>3 DEF StateWrites
    <3> QED
      BY <3>1, <3>2, <3>4 DEF Depends, Shared, StateReads
  <2>4. \A i \in 1..(Len(c.steps) - 1) : Linked(c.steps[i], c.steps[i + 1])
    BY <2>2 DEF Stepwise
  <2>5. Len(c.steps) \in 2..MaxDepth /\ IsInjective(c.steps) /\ c.feasibility \in 0..100
    BY <2>2 DEF Stepwise
  <2> QED
    BY <2>3, <2>4, <2>5
<1> QED
  BY <1>1, AnswerInvHolds, PropagationHolds, PTL

-----------------------------------------------------------------------------
(* Numbers: the greatest of a finite set, the sum of the weights of one,   *)
(* and the order that places give it.                                      *)

LEMMA Greatest ==
  ASSUME NEW S \in SUBSET Int, IsFiniteSet(S), S # {}
  PROVE  Max(S) \in S /\ \A x \in S : x <= Max(S)
<1> DEFINE T == {n \in Nat : \A V \in SUBSET Int :
                    IsFiniteSet(V) /\ V # {} /\ Cardinality(V) = n
                      => \E x \in V : \A y \in V : x >= y}
<1>1. 0 \in T
  BY FS_EmptySet
<1>2. ASSUME NEW n \in T PROVE n + 1 \in T
  <2>1. n \in Nat /\ \A V \in SUBSET Int : IsFiniteSet(V) /\ V # {} /\ Cardinality(V) = n
                                              => \E x \in V : \A y \in V : x >= y
    OBVIOUS
  <2>2. ASSUME NEW V \in SUBSET Int, IsFiniteSet(V), V # {}, Cardinality(V) = n + 1
        PROVE  \E x \in V : \A y \in V : x >= y
    <3>1. PICK a \in V : TRUE
      BY <2>2
    <3>2. IsFiniteSet(V \ {a}) /\ Cardinality(V \ {a}) = n
      <4>1. IsFiniteSet(V \ {a}) /\ Cardinality(V \ {a}) = Cardinality(V) - 1
        BY <2>2, <3>1, FS_RemoveElement
      <4>2. (n + 1) - 1 = n
        BY <2>1
      <4> QED
        BY <2>2, <4>1, <4>2
    <3>3. CASE V \ {a} = {}
      BY <3>1, <3>3
    <3>4. CASE V \ {a} # {}
      <4>1. PICK x \in V \ {a} : \A y \in V \ {a} : x >= y
        BY <2>1, <3>2, <3>4
      <4>2. CASE x >= a
        BY <4>1, <4>2
      <4>3. CASE ~(x >= a)
        BY <3>1, <4>1, <4>3
      <4> QED
        BY <4>2, <4>3
    <3> QED
      BY <3>3, <3>4
  <2> QED
    BY <2>1, <2>2
<1>3. T = Nat
  <2> HIDE DEF T
  <2>1. T \subseteq Nat
    BY DEF T
  <2> QED
    BY <1>1, <1>2, <2>1, NatSet
<1>4. Cardinality(S) \in T
  BY <1>3, FS_CardinalityType
<1>5. \E x \in S : \A y \in S : x >= y
  BY <1>4
<1>6. Max(S) \in S /\ \A y \in S : Max(S) >= y
  BY <1>5 DEF Max
<1>7. \A y \in S : Max(S) \in Int /\ y \in Int
  BY <1>6
<1> QED
  BY <1>6, <1>7

LEMMA GreaterOf ==
  ASSUME NEW a \in Int, NEW b \in Int
  PROVE  Max({a, b}) = IF a >= b THEN a ELSE b
<1>1. CASE a >= b
  <2>1. \A x \in {a, b} : (\A y \in {a, b} : x >= y) => x = a
    BY <1>1
  <2>2. a \in {a, b} /\ \A y \in {a, b} : a >= y
    BY <1>1
  <2> QED
    BY <1>1, <2>1, <2>2 DEF Max
<1>2. CASE ~(a >= b)
  <2>1. \A x \in {a, b} : (\A y \in {a, b} : x >= y) => x = b
    BY <1>2
  <2>2. b \in {a, b} /\ \A y \in {a, b} : b >= y
    BY <1>2
  <2> QED
    BY <1>2, <2>1, <2>2 DEF Max
<1> QED
  BY <1>1, <1>2

LEMMA LesserOf ==
  ASSUME NEW a \in Int, NEW b \in Int
  PROVE  Min({a, b}) = IF a <= b THEN a ELSE b
<1>1. CASE a <= b
  <2>1. \A x \in {a, b} : (\A y \in {a, b} : x <= y) => x = a
    BY <1>1
  <2>2. a \in {a, b} /\ \A y \in {a, b} : a <= y
    BY <1>1
  <2> QED
    BY <1>1, <2>1, <2>2 DEF Min
<1>2. CASE ~(a <= b)
  <2>1. \A x \in {a, b} : (\A y \in {a, b} : x <= y) => x = b
    BY <1>2
  <2>2. b \in {a, b} /\ \A y \in {a, b} : b <= y
    BY <1>2
  <2> QED
    BY <1>2, <2>1, <2>2 DEF Min
<1> QED
  BY <1>1, <1>2

(* Sums over the subsets of S: one element's weight and the sum of the rest. *)
Summing(weights, S, h) ==
    h = [s \in SUBSET S |->
           IF s = {} THEN 0
           ELSE weights[CHOOSE x \in s : TRUE] + h[s \ {CHOOSE x \in s : TRUE}]]

LEMMA SumsExist ==
  ASSUME NEW S, IsFiniteSet(S), NEW weights, \A k \in S : weights[k] \in Nat
  PROVE  \E h : Summing(weights, S, h)
<1> DEFINE c(s) == CHOOSE x \in s : TRUE
           X == [SUBSET S -> Nat]
           On(h) == [s \in SUBSET S |-> IF s = {} THEN 0 ELSE weights[c(s)] + h[s \ {c(s)}]]
           a == [s \in SUBSET S |-> 0]
           F == [p \in Nat \X X |-> On(p[2])]
<1>1. \A s \in SUBSET S : s # {} => c(s) \in s
  OBVIOUS
<1> HIDE DEF c
<1>2. ASSUME NEW h \in X PROVE On(h) \in X
  BY <1>1
<1>3. a \in X
  OBVIOUS
<1> HIDE DEF X, On, a
<1>4. F \in [Nat \X X -> X] /\ \A n \in Nat, h \in X : F[<<n, h>>] = On(h)
  BY <1>2
<1> HIDE DEF F
<1>5. PICK g : g \in [Nat -> X] /\ g[0] = a /\ \A n \in Nat : g[n + 1] = On(g[n])
  <2>1. \E g : Iterated(g, X, a, F)
    BY <1>3, <1>4, Iterates DEF Stepping
  <2> QED
    BY <1>4, <2>1 DEF Iterated
<1> DEFINE T == {n \in Nat : \A s \in SUBSET S : Cardinality(s) <= n => g[n + 1][s] = g[n][s]}
<1>6. \A s \in SUBSET S : /\ IsFiniteSet(s) /\ Cardinality(s) \in Nat
                          /\ s # {} => /\ s \ {c(s)} \in SUBSET S
                                       /\ Cardinality(s \ {c(s)}) = Cardinality(s) - 1
                                       /\ Cardinality(s) # 0
  <2>1. ASSUME NEW s \in SUBSET S PROVE IsFiniteSet(s) /\ Cardinality(s) \in Nat
    BY FS_Subset, FS_CardinalityType
  <2>2. ASSUME NEW s \in SUBSET S, s # {}
        PROVE  Cardinality(s \ {c(s)}) = Cardinality(s) - 1 /\ Cardinality(s) # 0
    BY <1>1, <2>1, <2>2, FS_RemoveElement, FS_EmptySet
  <2> QED
    BY <2>1, <2>2
<1>7. 0 \in T
  <2>1. ASSUME NEW s \in SUBSET S, Cardinality(s) <= 0 PROVE g[0 + 1][s] = g[0][s]
    <3>1. s = {}
      <4>1. IsFiniteSet(s) /\ Cardinality(s) \in Nat
        BY <1>6, <2>1
      <4>2. Cardinality(s) = 0
        BY <2>1, <4>1
      <4> QED
        BY <4>1, <4>2, FS_EmptySet
    <3>2. g[0 + 1] = On(a)
      BY <1>5
    <3> QED
      BY <1>5, <3>1, <3>2 DEF On, a
  <2> QED
    BY <2>1
<1>8. ASSUME NEW n \in T PROVE n + 1 \in T
  <2>1. n \in Nat /\ \A s \in SUBSET S : Cardinality(s) <= n => g[n + 1][s] = g[n][s]
    OBVIOUS
  <2>2. ASSUME NEW s \in SUBSET S, Cardinality(s) <= n + 1
        PROVE  g[(n + 1) + 1][s] = g[n + 1][s]
    <3>1. g[(n + 1) + 1] = On(g[n + 1]) /\ g[n + 1] = On(g[n])
      BY <1>5, <2>1
    <3>2. CASE s = {}
      BY <3>1, <3>2 DEF On
    <3>3. CASE s # {}
      <4>1. Cardinality(s \ {c(s)}) <= n /\ s \ {c(s)} \in SUBSET S
        BY <1>6, <2>1, <2>2, <3>3
      <4>2. g[n + 1][s \ {c(s)}] = g[n][s \ {c(s)}]
        BY <2>1, <4>1
      <4> QED
        BY <3>1, <3>3, <4>2 DEF On
    <3> QED
      BY <3>2, <3>3
  <2> QED
    BY <2>1, <2>2
<1>9. T = Nat
  <2> HIDE DEF T
  <2>1. T \subseteq Nat
    BY DEF T
  <2> QED
    BY <1>7, <1>8, <2>1, NatSet
<1> DEFINE n == Cardinality(S)
<1>20. n \in Nat
  BY FS_CardinalityType
<1>10. n \in T /\ \A s \in SUBSET S : Cardinality(s) <= n
  BY <1>6, <1>9, FS_Subset
<1>11. g[n + 1] = g[n]
  <2>1. n \in Nat /\ g[n + 1] \in X /\ g[n] \in X
    BY <1>5, <1>20
  <2>2. \A s \in SUBSET S : g[n + 1][s] = g[n][s]
    BY <1>10
  <2> HIDE DEF n, T
  <2> QED
    BY <2>1, <2>2 DEF X
<1>12. Summing(weights, S, g[n])
  <2>1. g[n] = On(g[n])
    BY <1>5, <1>6, <1>11
  <2> QED
    BY <2>1 DEF Summing, On, c
<1> QED
  BY <1>12

LEMMA TotalIsNat ==
  ASSUME NEW S, IsFiniteSet(S), NEW weights, \A k \in S : weights[k] \in Nat
  PROVE  Total(weights, S) \in Nat
<1> DEFINE c(s) == CHOOSE x \in s : TRUE
           n == Cardinality(S)
<1>1. \A s \in SUBSET S : s # {} => c(s) \in s
  OBVIOUS
<1> HIDE DEF c
<1>6. \A s \in SUBSET S : /\ IsFiniteSet(s) /\ Cardinality(s) \in Nat
                          /\ s # {} => /\ s \ {c(s)} \in SUBSET S
                                       /\ Cardinality(s \ {c(s)}) = Cardinality(s) - 1
                                       /\ Cardinality(s) # 0
  <2>1. ASSUME NEW s \in SUBSET S PROVE IsFiniteSet(s) /\ Cardinality(s) \in Nat
    BY FS_Subset, FS_CardinalityType
  <2>2. ASSUME NEW s \in SUBSET S, s # {}
        PROVE  Cardinality(s \ {c(s)}) = Cardinality(s) - 1 /\ Cardinality(s) # 0
    BY <1>1, <2>1, <2>2, FS_RemoveElement, FS_EmptySet
  <2> QED
    BY <2>1, <2>2
<1>20. n \in Nat
  BY FS_CardinalityType
<1> DEFINE H == CHOOSE h : Summing(weights, S, h)
<1>13. Summing(weights, S, H)
  BY SumsExist
<1>14. Total(weights, S) = H[S]
  BY Zenon DEF Total, MapThenSumSet, MapThenFoldSet, Summing
<1> HIDE DEF H
<1> DEFINE V == {k \in Nat : \A s \in SUBSET S : Cardinality(s) = k => H[s] \in Nat}
<1>15. \A s \in SUBSET S : H[s] = IF s = {} THEN 0 ELSE weights[c(s)] + H[s \ {c(s)}]
  BY <1>13 DEF Summing, c
<1>16. 0 \in V
  BY <1>6, <1>15
<1>17. ASSUME NEW k \in V PROVE k + 1 \in V
  <2>1. k \in Nat /\ \A s \in SUBSET S : Cardinality(s) = k => H[s] \in Nat
    OBVIOUS
  <2>2. ASSUME NEW s \in SUBSET S, Cardinality(s) = k + 1 PROVE H[s] \in Nat
    <3>1. s # {}
      <4>1. k + 1 # 0
        BY <2>1
      <4> QED
        BY <2>2, <4>1, FS_EmptySet
    <3>2. s \ {c(s)} \in SUBSET S /\ Cardinality(s \ {c(s)}) = k /\ c(s) \in S
      BY <1>1, <1>6, <2>1, <2>2, <3>1
    <3>3. weights[c(s)] \in Nat /\ H[s \ {c(s)}] \in Nat
      BY <2>1, <3>2
    <3> QED
      BY <1>15, <3>1, <3>3
  <2> QED
    BY <2>1, <2>2
<1>18. V = Nat
  <2> HIDE DEF V
  <2>1. V \subseteq Nat
    BY DEF V
  <2> QED
    BY <1>16, <1>17, <2>1, NatSet
<1>19. n \in V
  BY <1>18, <1>20
<1> QED
  BY <1>14, <1>19

(* An order without ties puts every element of a finite set at one place,  *)
(* the earlier ones ahead of the later.                                    *)
Ordered(S, R) ==
    /\ \A x \in S : <<x, x>> \notin R
    /\ \A x, y \in S : x # y => <<x, y>> \in R \/ <<y, x>> \in R
    /\ \A x, y, z \in S : <<x, y>> \in R /\ <<y, z>> \in R => <<x, z>> \in R

LEMMA Places ==
  ASSUME NEW S, IsFiniteSet(S), NEW R, Ordered(S, R)
  PROVE  LET q == InOrder(S, R)
         IN /\ q \in [1..Cardinality(S) -> S] /\ Cardinality(S) \in Nat
            /\ \A x \in S : \E i \in 1..Cardinality(S) : q[i] = x
            /\ \A i, j \in 1..Cardinality(S) : i < j => <<q[i], q[j]>> \in R
<1> DEFINE n == Cardinality(S)
           Ahead(x) == {y \in S : <<y, x>> \in R}
           r(x) == Cardinality(Ahead(x))
           q == InOrder(S, R)
<1>1. n \in Nat
  BY FS_CardinalityType
<1>2. ASSUME NEW x \in S PROVE IsFiniteSet(Ahead(x)) /\ r(x) \in 0..(n - 1)
  <2>1. Ahead(x) \in SUBSET (S \ {x})
    BY DEF Ordered
  <2>2. IsFiniteSet(S \ {x}) /\ Cardinality(S \ {x}) = n - 1
    BY FS_RemoveElement
  <2> HIDE DEF Ahead
  <2>3. IsFiniteSet(Ahead(x)) /\ r(x) <= n - 1
    BY <2>1, <2>2, FS_Subset
  <2>4. r(x) \in Nat
    BY <2>3, FS_CardinalityType
  <2> QED
    BY <1>1, <2>3, <2>4
<1>3. ASSUME NEW x \in S, NEW y \in S, <<x, y>> \in R PROVE r(x) < r(y)
  <2>1. x \in Ahead(y) /\ Ahead(x) \in SUBSET (Ahead(y) \ {x})
    BY <1>3 DEF Ordered
  <2> HIDE DEF Ahead
  <2>2. IsFiniteSet(Ahead(y) \ {x}) /\ Cardinality(Ahead(y) \ {x}) = r(y) - 1
    BY <1>2, <2>1, FS_RemoveElement
  <2>3. r(x) <= r(y) - 1
    BY <2>1, <2>2, FS_Subset
  <2> QED
    BY <1>1, <1>2, <2>3
<1> DEFINE rank == [x \in S |-> r(x)]
<1> HIDE DEF r, Ahead
<1>10. \A x \in S : r(x) \in Int
  BY <1>1, <1>2
<1>4. rank \in Injection(S, 0..(n - 1))
  <2>1. rank \in [S -> 0..(n - 1)]
    BY <1>2
  <2>2. ASSUME NEW x \in S, NEW y \in S, rank[x] = rank[y] PROVE x = y
    <3>1. r(x) = r(y) /\ r(x) \in Int /\ r(y) \in Int
      BY <1>10, <2>2
    <3>2. ~(r(x) < r(y)) /\ ~(r(y) < r(x))
      BY <3>1
    <3> QED
      BY <1>3, <3>2 DEF Ordered
  <2> HIDE DEF rank
  <2> QED
    BY <2>1, <2>2 DEF Injection, IsInjective
<1>5. \A k \in 0..(n - 1) : \E x \in S : r(x) = k
  <2>1. IsFiniteSet(0..(n - 1)) /\ Cardinality(0..(n - 1)) = n
    <3>1. 0 \in Int /\ n - 1 \in Int
      BY <1>1
    <3>2. /\ IsFiniteSet(0..(n - 1))
          /\ Cardinality(0..(n - 1)) = IF 0 > n - 1 THEN 0 ELSE (n - 1) - 0 + 1
      BY <3>1, FS_Interval
    <3>3. (IF 0 > n - 1 THEN 0 ELSE (n - 1) - 0 + 1) = n
      BY <1>1
    <3> QED
      BY <3>2, <3>3
  <2>2. rank \in Surjection(S, 0..(n - 1))
    BY <1>4, <2>1, FS_Injection
  <2> QED
    BY <2>2 DEF Surjection
<1>6. \A i \in 1..n : q[i] \in S /\ r(q[i]) = i - 1
  <2>1. q = [i \in 1..n |-> CHOOSE x \in S : r(x) = i - 1]
    BY DEF InOrder, r, Ahead
  <2>2. ASSUME NEW i \in 1..n PROVE \E x \in S : r(x) = i - 1
    <3>1. i - 1 \in 0..(n - 1)
      BY <1>1
    <3> QED
      BY <1>5, <3>1
  <2> HIDE DEF n, q
  <2> QED
    BY <2>1, <2>2
<1>7. q \in [1..n -> S]
  <2>1. q = [i \in 1..n |-> CHOOSE x \in S : Cardinality({y \in S : <<y, x>> \in R}) = i - 1]
    BY DEF InOrder
  <2> HIDE DEF q, n
  <2> QED
    BY <1>6, <2>1
<1>8. ASSUME NEW x \in S PROVE \E i \in 1..n : q[i] = x
  <2>1. r(x) + 1 \in 1..n /\ (r(x) + 1) - 1 = r(x)
    <3>1. r(x) \in 0..(n - 1) /\ r(x) \in Int
      BY <1>2, <1>10
    <3> HIDE DEF n
    <3> QED
      BY <1>1, <3>1
  <2>2. q[r(x) + 1] \in S /\ r(q[r(x) + 1]) = r(x)
    BY <1>6, <2>1
  <2>3. q[r(x) + 1] = x
    <3>1. rank[q[r(x) + 1]] = rank[x]
      BY <2>2
    <3> HIDE DEF q, n, rank
    <3> QED
      BY <1>4, <2>2, <3>1 DEF Injection, IsInjective
  <2> QED
    BY <2>1, <2>3
<1>9. ASSUME NEW i \in 1..n, NEW j \in 1..n, i < j PROVE <<q[i], q[j]>> \in R
  <2>1. q[i] \in S /\ q[j] \in S /\ r(q[i]) = i - 1 /\ r(q[j]) = j - 1
    BY <1>6
  <2>2. r(q[i]) # r(q[j]) /\ ~(r(q[j]) < r(q[i]))
    BY <1>1, <1>9, <2>1
  <2> HIDE DEF q, n
  <2> QED
    BY <1>3, <2>1, <2>2 DEF Ordered
<1> QED
  BY <1>1, <1>7, <1>8, <1>9

LEMMA Few ==
  ASSUME NEW a, NEW b, NEW c
  PROVE  IsFiniteSet({a, b, c})
<1>1. IsFiniteSet({a} \cup {b} \cup {c})
  BY FS_Singleton, FS_Union
<1>2. {a, b, c} = {a} \cup {b} \cup {c}
  OBVIOUS
<1> QED
  BY <1>1, <1>2

(* What the passes add up: the weights of the names a record has.          *)
Weighing(w) == IsFiniteSet(DOMAIN w) /\ \A k \in DOMAIN w : w[k] \in Nat

LEMMA TotalOfWeights ==
  ASSUME NEW w, Weighing(w), NEW S \in SUBSET DOMAIN w
  PROVE  Total(w, S) \in Nat
<1>1. IsFiniteSet(S) /\ \A k \in S : w[k] \in Nat
  BY FS_Subset DEF Weighing
<1> QED
  BY <1>1, TotalIsNat

LEMMA AllWeighing ==
  /\ Weighing(FlashWeights) /\ Weighing(TaintWeights) /\ Weighing(DangerWeights)
  /\ Weighing(FlagWeights) /\ Weighing(Severity) /\ Weighing(SafetyWeights)
<1>1. Weighing(FlashWeights)
  <2> DEFINE names ==
          {"spot", "division", "collateral"}
          \cup {"price", "price", "price"}
  <2>1. DOMAIN FlashWeights = names
    BY DEF FlashWeights
  <2>2. IsFiniteSet(names)
    BY Few, FS_Union
  <2>3. \A k \in DOMAIN FlashWeights : FlashWeights[k] \in Nat
    BY DEF FlashWeights
  <2> HIDE DEF names
  <2> QED
    BY <2>1, <2>2, <2>3 DEF Weighing
<1>2. Weighing(TaintWeights)
  <2> DEFINE names ==
          {"ACCOUNTING", "CAP", "REWARD"}
          \cup {"ACCESS", "LIQUIDITY", "MATH"}
          \cup {"UNCHECKED", "UNCHECKED", "UNCHECKED"}
  <2>1. DOMAIN TaintWeights = names
    BY DEF TaintWeights
  <2>2. IsFiniteSet(names)
    BY Few, FS_Union
  <2>3. \A k \in DOMAIN TaintWeights : TaintWeights[k] \in Nat
    BY DEF TaintWeights
  <2> HIDE DEF names
  <2> QED
    BY <2>1, <2>2, <2>3 DEF Weighing
<1>3. Weighing(DangerWeights)
  <2> DEFINE names ==
          {"ACCOUNTING_MANIPULATION", "PRIVILEGE_CHAIN", "REWARD_INFLATION"}
          \cup {"CAP_BYPASS_SEQUENCE", "INVARIANT_BREAK", "UNGUARDED_STATE_INFLUENCE"}
  <2>1. DOMAIN DangerWeights = names
    BY DEF DangerWeights
  <2>2. IsFiniteSet(names)
    BY Few, FS_Union
  <2>3. \A k \in DOMAIN DangerWeights : DangerWeights[k] \in Nat
    BY DEF DangerWeights
  <2> HIDE DEF names
  <2> QED
    BY <2>1, <2>2, <2>3 DEF Weighing
<1>4. Weighing(FlagWeights)
  <2> DEFINE names ==
          {"SUPPLY_BALANCE_MISMATCH", "BALANCE_SUPPLY_MISMATCH", "MISSING_CAP_ENFORCEMENT"}
          \cup {"BORROW_CAP_BYPASS", "REWARD_INDEX_RESET", "REWARD_INDEX_INFLATION"}
          \cup {"REWARD_EDGECASE_MANIPULATION", "NON_MONOTONIC_INDEX", "UNGUARDED_INDEX_MUTATION"}
  <2>1. DOMAIN FlagWeights = names
    BY DEF FlagWeights
  <2>2. IsFiniteSet(names)
    BY Few, FS_Union
  <2>3. \A k \in DOMAIN FlagWeights : FlagWeights[k] \in Nat
    BY DEF FlagWeights
  <2> HIDE DEF names
  <2> QED
    BY <2>1, <2>2, <2>3 DEF Weighing
<1>5. Weighing(Severity)
  <2> DEFINE names ==
          {"SUPPLY_BALANCE_DESYNC", "MINT_BURN_ASYMMETRY", "SHARE_PRICE_MANIPULATION"}
          \cup {"INDEX_UPDATE_MISSING", "INDEX_UPDATE_MISSING", "INDEX_UPDATE_MISSING"}
  <2>1. DOMAIN Severity = names
    BY DEF Severity
  <2>2. IsFiniteSet(names)
    BY Few, FS_Union
  <2>3. \A k \in DOMAIN Severity : Severity[k] \in Nat
    BY DEF Severity
  <2> HIDE DEF names
  <2> QED
    BY <2>1, <2>2, <2>3 DEF Weighing
<1>6. Weighing(SafetyWeights)
  <2> DEFINE names ==
          {"role", "no_call", "no_mutation"}
          \cup {"no_taint", "no_critical", "no_critical"}
  <2>1. DOMAIN SafetyWeights = names
    BY DEF SafetyWeights
  <2>2. IsFiniteSet(names)
    BY Few, FS_Union
  <2>3. \A k \in DOMAIN SafetyWeights : SafetyWeights[k] \in Nat
    BY DEF SafetyWeights
  <2> HIDE DEF names
  <2> QED
    BY <2>1, <2>2, <2>3 DEF Weighing
<1> QED
  BY <1>1, <1>2, <1>3, <1>4, <1>5, <1>6

LEMMA NamesWeighed ==
  ASSUME NEW f, NEW g, NEW r, NEW R
  PROVE  /\ FlashFactors(f) \subseteq DOMAIN FlashWeights
         /\ R \cap DOMAIN TaintWeights \subseteq DOMAIN TaintWeights
         /\ Dangers(f, g) \subseteq DOMAIN DangerWeights
         /\ Flags(r, f) \subseteq DOMAIN FlagWeights
         /\ Violations(r, f) \subseteq DOMAIN Severity
         /\ SafetySigns(f) \subseteq DOMAIN SafetyWeights
<1>1. FlashFactors(f) \subseteq DOMAIN FlashWeights
  BY DEF FlashFactors, FlashWeights
<1>2. Dangers(f, g) \subseteq DOMAIN DangerWeights
  BY DEF Dangers, DangerWeights
<1>3. Flags(r, f) \subseteq DOMAIN FlagWeights
  <2>1. SupplyFlags(r, f) \subseteq DOMAIN FlagWeights
    BY DEF SupplyFlags, FlagWeights
  <2>2. CapFlags(r, f) \subseteq DOMAIN FlagWeights
    BY DEF CapFlags, FlagWeights
  <2>3. RewardFlags(r, f) \subseteq DOMAIN FlagWeights
    BY DEF RewardFlags, FlagWeights
  <2>4. MonotonicFlags(r, f) \subseteq DOMAIN FlagWeights
    BY DEF MonotonicFlags, FlagWeights
  <2> QED
    BY <2>1, <2>2, <2>3, <2>4 DEF Flags
<1>4. Violations(r, f) \subseteq DOMAIN Severity
  BY DEF Violations, Severity
<1>5. SafetySigns(f) \subseteq DOMAIN SafetyWeights
  BY DEF SafetySigns, SafetyWeights
<1> QED
  BY <1>1, <1>2, <1>3, <1>4, <1>5

LEMMA SumsOfWeights ==
  ASSUME NEW f, NEW g, NEW r, NEW R
  PROVE  /\ FlashScore(f) \in Int /\ TaintScore(R) \in Int /\ DangerScore(f, g) \in Int
         /\ FlagScore(r, f) \in Int /\ Total(Severity, Violations(r, f)) \in Int
         /\ ExternalScore(f) \in Int /\ Safety(f) \in Int
<1>1. /\ Total(FlashWeights, FlashFactors(f)) \in Nat
      /\ Total(TaintWeights, R \cap DOMAIN TaintWeights) \in Nat
      /\ Total(DangerWeights, Dangers(f, g)) \in Nat
      /\ Total(FlagWeights, Flags(r, f)) \in Nat
      /\ Total(Severity, Violations(r, f)) \in Nat
      /\ Total(SafetyWeights, SafetySigns(f)) \in Nat
  BY NamesWeighed, AllWeighing, TotalOfWeights
<1>2. FlashScore(f) \in Int
  BY <1>1 DEF FlashScore
<1>3. TaintScore(R) \in Int
  BY <1>1 DEF TaintScore
<1>4. DangerScore(f, g) \in Int
  BY <1>1 DEF DangerScore
<1>5. FlagScore(r, f) \in Int
  BY <1>1 DEF FlagScore
<1>6. ExternalScore(f) \in Int
  BY DEF ExternalScore
<1>7. Safety(f) \in Int
  BY <1>1 DEF Safety
<1> QED
  BY <1>1, <1>2, <1>3, <1>4, <1>5, <1>6, <1>7

LEMMA WorstSequence ==
  ASSUME prog \in Programs, NEW f
  PROVE  Max({0} \cup {s.score : s \in SequencesFrom(f)}) \in Int
<1> DEFINE S == {0} \cup {s.score : s \in SequencesFrom(f)}
           D == {h \in Out(f, "STATE_DEPENDENCY") : Reachable(f) /\ Reachable(h) /\ Dangers(f, h) # {}}
           W == {DangerScore(f, g) : g \in D}
<1>1. {s.score : s \in SequencesFrom(f)} = W
  <2> DEFINE Made(g) == [reader |-> g, shared |-> Shared(f, g), tags |-> TagsOf(Shared(f, g)),
                          dangers |-> Dangers(f, g), score |-> DangerScore(f, g)]
  <2>1. SequencesFrom(f) = {Made(g) : g \in D}
    BY DEF SequencesFrom
  <2>2. \A g : Made(g).score = DangerScore(f, g)
    OBVIOUS
  <2> HIDE DEF Made, D
  <2> QED
    BY <2>1, <2>2
<1>2. IsFiniteSet(D)
  <2>1. D \subseteq 1..Len(prog.fun) /\ 1 \in Int /\ Len(prog.fun) \in Int
    BY FunctionList DEF Out
  <2> HIDE DEF D
  <2> QED
    BY <2>1, FS_Interval, FS_Subset
<1>3. IsFiniteSet(W)
  <2> DEFINE score == [g \in D |-> DangerScore(f, g)]
  <2>1. score \in [D -> W] /\ \A n \in W : \E g \in D : score[g] = n
    OBVIOUS
  <2> HIDE DEF D, W, score
  <2>2. score \in Surjection(D, W)
    BY <2>1 DEF Surjection
  <2> QED
    BY <1>2, <2>2, FS_Surjection
<1>4. W \subseteq Int
  BY SumsOfWeights
<1>5. S = {0} \cup W
  BY <1>1
<1> HIDE DEF W, S
<1>6. S \subseteq Int /\ IsFiniteSet(S) /\ S # {}
  <2>1. IsFiniteSet({0} \cup W)
    BY <1>3, FS_Singleton, FS_Union
  <2> QED
    BY <1>4, <1>5, <2>1
<1>7. Max(S) \in S
  BY <1>6, Greatest
<1> QED
  BY <1>6, <1>7 DEF S

(* The numbers that the risk score is made of, and the score.              *)
ScoreNames ==
  {"conf", "flash", "taintScore", "seqScore", "accounting", "extScore", "safety", "final"}

Numbers(f) == \A a \in ScoreNames : fn[f][a] \in Int

Scoring == {1, 5, 8, 23, 24, 25, 29, 31, 33, 34, 35, 36}

LEMMA ScoreSetters ==
  /\ \A k \in 1..38 \ Scoring : FnSet[k] \cap ScoreNames = {}
  /\ \A k \in {5, 23, 24, 25} : FnSet[k] \cap ScoreNames = {"conf"}
  /\ FnSet[8] \cap ScoreNames = {"flash"} /\ FnSet[29] \cap ScoreNames = {"taintScore"}
  /\ FnSet[31] \cap ScoreNames = {"seqScore"} /\ FnSet[33] \cap ScoreNames = {"accounting"}
  /\ FnSet[34] \cap ScoreNames = {"extScore"} /\ FnSet[35] \cap ScoreNames = {"safety"}
  /\ FnSet[36] \cap ScoreNames = {"final"}
  /\ ScoreNames \subseteq FnAttributes
<1>1. \A k \in 1..38 \ Scoring : FnSet[k] \cap ScoreNames = {}
  BY DEF FnSet, ScoreNames, Scoring
<1>2. \A k \in {5, 23, 24, 25} : FnSet[k] \cap ScoreNames = {"conf"}
  BY DEF FnSet, ScoreNames
<1>3. FnSet[8] \cap ScoreNames = {"flash"} /\ FnSet[29] \cap ScoreNames = {"taintScore"}
  BY DEF FnSet, ScoreNames
<1>4. FnSet[31] \cap ScoreNames = {"seqScore"} /\ FnSet[33] \cap ScoreNames = {"accounting"}
  BY DEF FnSet, ScoreNames
<1>5. FnSet[34] \cap ScoreNames = {"extScore"} /\ FnSet[35] \cap ScoreNames = {"safety"}
  BY DEF FnSet, ScoreNames
<1>6. FnSet[36] \cap ScoreNames = {"final"}
  BY DEF FnSet, ScoreNames
<1>7. ScoreNames \subseteq FnAttributes
  BY DEF ScoreNames, FnAttributes
<1> QED
  BY <1>1, <1>2, <1>3, <1>4, <1>5, <1>6, <1>7

LEMMA OneNumber ==
  ASSUME Shape, Next, NEW f \in Fns, Numbers(f), NEW a,
         FnSet[pass] \cap ScoreNames = {a}, fn'[f][a] \in Int
  PROVE  Numbers(f)'
<1>1. FnOnly(FnSet[pass])
  BY Frame DEF Sets
<1>2. \A x \in ScoreNames \ {a} : x \in FnAttributes \ FnSet[pass]
  BY ScoreSetters
<1>3. \A x \in ScoreNames \ {a} : fn'[f][x] = fn[f][x]
  BY <1>1, <1>2 DEF FnOnly
<1> QED
  BY <1>3 DEF Numbers

LEMMA Numeric ==
  /\ \A a \in Int, b \in Int : Min({a, b}) \in Int /\ Max({a, b}) \in Int
  /\ \A n \in Int : \A c : If(c, n) \in Int
  /\ \A n \in Int, d \in Int \ {0} : d > 0 => Rounded(n, d) \in Int
<1>1. \A a \in Int, b \in Int : Min({a, b}) \in Int /\ Max({a, b}) \in Int
  BY LesserOf, GreaterOf
<1>2. \A n \in Int : \A c : If(c, n) \in Int
  BY DEF If
<1>3. \A n \in Int, d \in Int \ {0} : d > 0 => Rounded(n, d) \in Int
  BY DEF Rounded
<1> QED
  BY <1>1, <1>2, <1>3

(* Those bounds that the scores have.                                      *)
LEMMA Clipped ==
  \A n \in Int : /\ Max({0, n}) \in Int /\ Min({30, n}) \in Int /\ Min({n, 60}) \in Int
                 /\ Min({n, 50}) \in Int /\ Min({n, 100}) \in Int /\ Min({n, 45}) \in Int
                 /\ Min({n, 70}) \in Int /\ Min({60, n}) \in Int /\ Min({80, n}) \in Int
<1>1. {0, 30, 45, 50, 60, 70, 80, 100} \subseteq Int
  OBVIOUS
<1> QED
  BY <1>1, Numeric, Zenon

LEMMA ConfidenceWeighs ==
  ASSUME NEW f, fn[f].conf \in Int
  PROVE  \A n \in Int : Weighed(n, f) \in Int
<1>1. \A n \in Int, m \in Int : n * m \in Int
  OBVIOUS
<1>2. \A n \in Int : n \div 1000 \in Int
  OBVIOUS
<1>3. 1000 - fn[f].conf \in Int
  OBVIOUS
<1> QED
  BY <1>1, <1>2, <1>3 DEF Weighed

LEMMA StructuralIsNumber ==
  ASSUME NEW f, Numbers(f)
  PROVE  Structural(f) \in Int
<1> DEFINE a == fn[f]
           strict == a.acType \in StrictTypes
           asked == a.acType \in {"require-based", "both"} \/ a.conf >= 800
<1>1. /\ a.conf \in Int /\ a.flash \in Int /\ a.taintScore \in Int /\ a.seqScore \in Int
      /\ a.accounting \in Int /\ a.extScore \in Int
  BY DEF Numbers, ScoreNames
<1>2. (IF asked THEN 10 ELSE Weighed(40, f)) \in Int
  BY <1>1, ConfidenceWeighs
<1>3. /\ If(a.reentrancy, IF a.reGuard THEN 10 ELSE 50) \in Int
      /\ If(a.escalate, IF a.safeInit \/ strict THEN 10 ELSE 50) \in Int
      /\ If(a.ceiOnly \/ (a.cei /\ ~a.reentrancy), 15) \in Int
      /\ If(a.lengthMutation, 40) \in Int /\ If(a.delegateRisk, 50) \in Int
      /\ If(a.readOnly, 35) \in Int /\ If(fn[f].design, 30) \in Int
  BY DEF If
<1>4. If(a.unprotected, IF asked THEN 10 ELSE Weighed(40, f)) \in Int
  BY <1>2, Numeric
<1>5. /\ Min({a.taintScore, 60}) \in Int /\ Min({a.seqScore, 50}) \in Int
      /\ Min({a.accounting, 100}) \in Int /\ Min({a.extScore, 45}) \in Int
      /\ Min({a.flash, 70}) \in Int
  BY <1>1, Clipped, Zenon
<1>6. StructuralOf(f) \in Int
  BY <1>3, <1>4, <1>5 DEF StructuralOf
<1>7. StructuralOf(f) - If(fn[f].design, 30) \in Int
  BY <1>3, <1>6
<1> QED
  BY <1>7, Clipped, Zenon DEF Structural

LEMMA ExploitabilityIsNumber ==
  ASSUME NEW f, Numbers(f)
  PROVE  Exploitability(f) \in Int
<1>1. fn[f].conf \in Int
  BY DEF Numbers, ScoreNames
<1>2. /\ If(Reachable(f), 30) \in Int /\ If(HasReentrantEdge(f), 30) \in Int
      /\ If(Entry(f), 10) \in Int
      /\ If(fn[f].acType = "require-based" \/ fn[f].conf >= 800, 5) \in Int
      /\ If(fn[f].chainEntry /\ fn[f].longest >= 3, 15) \in Int
      /\ If(AttackerInput(f), 15) \in Int
  BY DEF If
<1>3. Weighed(15, f) \in Int
  BY <1>1, ConfidenceWeighs
<1> QED
  BY <1>2, <1>3 DEF Exploitability

LEMMA ImpactIsNumber ==
  ASSUME NEW f, Numbers(f), Cardinality(fn[f].propagated) \in Nat
  PROVE  Impact(f) \in Int
<1> DEFINE tags == IF HasTaintRisk(f) THEN TagsOf(fn[f].taintedWrites) ELSE {}
           tier == ct[Src(f).contract].tier
           high == IF fn[f].level = "HIGH" THEN 20 ELSE 10
           sum == Min({30, 5 * Cardinality(fn[f].propagated)}) + If(Src(f).payable, 20)
                     + If(fn[f].escalate, 30)
                     + If(fn[f].unprotected, Weighed(high, f))
                     + SequenceBoost(f)
                     + If("ACCOUNTING" \in tags, 25) + If("CAP" \in tags, 20) + If("ACCESS" \in tags, 30)
                     + If(tier = "CORE", 20) - If(tier = "FACTORY", 25)
<1>1. Impact(f) = Max({0, sum})
  BY DEF Impact
<1>2. fn[f].conf \in Int
  BY DEF Numbers, ScoreNames
<1>3. If(fn[f].unprotected, Weighed(high, f)) \in Int
  <2>1. high \in Int
    OBVIOUS
  <2> HIDE DEF high
  <2> QED
    BY <1>2, <2>1, ConfidenceWeighs, Numeric
<1>4. Min({30, 5 * Cardinality(fn[f].propagated)}) \in Int
  <2>1. 5 * Cardinality(fn[f].propagated) \in Int
    OBVIOUS
  <2> QED
    BY <2>1, Clipped, Zenon
<1> HIDE DEF tags, tier, high
<1>5. /\ If(Src(f).payable, 20) \in Int /\ If(fn[f].escalate, 30) \in Int
      /\ SequenceBoost(f) \in Int
      /\ If("ACCOUNTING" \in tags, 25) \in Int /\ If("CAP" \in tags, 20) \in Int
      /\ If("ACCESS" \in tags, 30) \in Int
      /\ If(tier = "CORE", 20) \in Int /\ If(tier = "FACTORY", 25) \in Int
  BY DEF If, SequenceBoost
<1>6. sum \in Int
  BY <1>3, <1>4, <1>5
<1> HIDE DEF sum
<1> QED
  BY <1>1, <1>6, Clipped, Zenon

LEMMA FinalIsNumber ==
  ASSUME NEW f, Numbers(f), Cardinality(fn[f].propagated) \in Nat
  PROVE  Final(f) \in Int
<1> DEFINE sum == 40 * Structural(f) + 35 * Exploitability(f) + 25 * Impact(f)
<1>1. sum \in Int
  BY StructuralIsNumber, ExploitabilityIsNumber, ImpactIsNumber
<1>2. Base(f) = Rounded(IF Evidence(f) THEN sum ELSE Min({sum, 5500}), 100)
  BY DEF Base
<1> HIDE DEF sum
<1>3. (IF Evidence(f) THEN sum ELSE Min({sum, 5500})) \in Int
  BY <1>1, Numeric
<1>4. Base(f) \in Int
  BY <1>2, <1>3, Numeric
<1>5. fn[f].safety \in Int
  BY DEF Numbers, ScoreNames
<1>6. Base(f) - fn[f].safety \in Int
  BY <1>4, <1>5
<1> QED
  BY <1>6, Clipped, Zenon DEF Final

ScoreInv == \A f \in Fns : Numbers(f)

LEMMA ConfidenceStep ==
  ASSUME Shape, Next, NEW f \in Fns, fn[f].conf \in Int, pass \in {5, 23, 24, 25}
  PROVE  fn'[f].conf \in Int
<1>1. "conf" \in DOMAIN fn[f] /\ "guardCall" \in DOMAIN fn[f] /\ "roleGuard" \in DOMAIN fn[f]
      /\ "acType" \in DOMAIN fn[f] /\ "protected" \in DOMAIN fn[f]
  BY Attributes DEF Shape
<1>2. \A n \in Int : Max({fn[f].conf, n}) \in Int
  BY Numeric
<1>3. ASSUME NEW n \in Int, NEW type PROVE Update(fn[f], n, type).conf \in Int
  BY <1>1, <1>2 DEF Update
<1>4. CASE pass = 5
  <2> DEFINE Conf == IF Guarding(f) = {} THEN 0
                     ELSE IF \E n \in Guarding(f) : IsLocal(f, n) THEN 1000 ELSE 900
             Inline == IF InlineCheck(f) THEN 950 ELSE 0
             three == {fn[f].conf, Conf, Inline}
  <2>1. AccessControl
    BY <1>4, Acts
  <2>2. fn'[f].conf = Max(three)
    BY <1>1, <2>1 DEF AccessControl, FnPass
  <2>3. Conf \in Int /\ Inline \in Int
    OBVIOUS
  <2> HIDE DEF Conf, Inline
  <2>4. three \subseteq Int /\ IsFiniteSet(three) /\ three # {}
    BY <2>3, Few
  <2> HIDE DEF three
  <2>5. Max(three) \in three
    BY <2>4, Greatest
  <2> QED
    BY <2>2, <2>4, <2>5
<1>5. CASE pass = 23
  <2>1. GuardCalls
    BY <1>5, Acts
  <2>2. fn'[f] = IF CallsGuard(f)
                 THEN [Update(fn[f], 850, "internal-guard") EXCEPT !.guardCall = TRUE]
                 ELSE fn[f]
    BY <2>1 DEF GuardCalls, FnPass
  <2>3. Update(fn[f], 850, "internal-guard").conf \in Int
    BY <1>3
  <2>4. [Update(fn[f], 850, "internal-guard") EXCEPT !.guardCall = TRUE].conf
           = Update(fn[f], 850, "internal-guard").conf
    BY <1>1, Updates
  <2> QED
    BY <2>2, <2>3, <2>4
<1>6. CASE pass = 24
  <2>1. RoleRegistry
    BY <1>6, Acts
  <2>2. fn'[f] = IF AsksRegistry(f)
                 THEN [Update(fn[f], 800, "external-role") EXCEPT !.roleGuard = TRUE]
                 ELSE fn[f]
    BY <2>1 DEF RoleRegistry, FnPass
  <2>3. Update(fn[f], 800, "external-role").conf \in Int
    BY <1>3
  <2>4. [Update(fn[f], 800, "external-role") EXCEPT !.roleGuard = TRUE].conf
           = Update(fn[f], 800, "external-role").conf
    BY <1>1, Updates
  <2> QED
    BY <2>2, <2>3, <2>4
<1>7. CASE pass = 25
  <2>1. SsaDampening
    BY <1>7, Acts
  <2>2. fn'[f].conf = IF SsaFailed(Src(f).contract) THEN (fn[f].conf * 7) \div 10 ELSE fn[f].conf
    BY <1>1, <2>1 DEF SsaDampening
  <2> QED
    BY <2>2
<1> QED
  BY <1>4, <1>5, <1>6, <1>7

LEMMA ScoresStep ==
  ASSUME GuardInv, Propagation, Next, NEW f \in Fns, Numbers(f),
         pass \in {8, 29, 31, 33, 34, 35, 36}
  PROVE  \A a \in FnSet[pass] \cap ScoreNames : fn'[f][a] \in Int
<1>1. Shape /\ prog \in Programs /\ DOMAIN fn[f] = FnAttributes
  BY DEF GuardInv, Shape
<1>2. /\ {"flash", "taintScore", "seqScore", "accounting"} \subseteq DOMAIN fn[f]
      /\ {"extScore", "safety", "final"} \subseteq DOMAIN fn[f]
  BY <1>1, ScoreSetters DEF ScoreNames
<1>3. CASE pass = 8
  <2>1. FlashLoan
    BY <1>3, Acts
  <2>2. fn'[f].flash = FlashScore(f)
    BY <1>2, <2>1 DEF FlashLoan, FnPass
  <2> QED
    BY <1>3, <2>2, SumsOfWeights, ScoreSetters
<1>4. CASE pass = 29
  <2>1. Taint
    BY <1>4, Acts
  <2>2. \E R : fn'[f].taintScore = TaintScore(R)
    BY <1>2, <2>1 DEF Taint
  <2> QED
    BY <1>4, <2>2, SumsOfWeights, ScoreSetters
<1>5. CASE pass = 31
  <2>1. DangerousSequences
    BY <1>5, Acts
  <2>2. fn'[f].seqScore = Max({0} \cup {s.score : s \in SequencesFrom(f)})
    BY <1>2, <2>1 DEF DangerousSequences, FnPass
  <2>3. Max({0} \cup {s.score : s \in SequencesFrom(f)}) \in Int
    BY <1>1, WorstSequence
  <2> QED
    BY <1>5, <2>2, <2>3, ScoreSetters
<1>6. CASE pass = 33
  <2>1. Accounting
    BY <1>6, Acts
  <2>2. \E r : fn'[f].accounting = Min({60, FlagScore(r, f)})
                                     + Min({80, Total(Severity, Violations(r, f))})
    BY <1>2, <2>1 DEF Accounting
  <2>3. \A r : /\ Min({60, FlagScore(r, f)}) \in Int
               /\ Min({80, Total(Severity, Violations(r, f))}) \in Int
    BY SumsOfWeights, Clipped, Zenon
  <2>4. fn'[f].accounting \in Int
    BY <2>2, <2>3
  <2> QED
    BY <1>6, <2>4, ScoreSetters
<1>7. CASE pass = 34
  <2>1. ExternalCallRisks
    BY <1>7, Acts
  <2>2. fn'[f].extScore = ExternalScore(f)
    BY <1>2, <2>1 DEF ExternalCallRisks, FnPass
  <2> QED
    BY <1>7, <2>2, SumsOfWeights, ScoreSetters
<1>8. CASE pass = 35
  <2>1. NegativeSafety
    BY <1>8, Acts
  <2>2. fn'[f].safety = Safety(f)
    BY <1>2, <2>1 DEF NegativeSafety, FnPass
  <2> QED
    BY <1>8, <2>2, SumsOfWeights, ScoreSetters
<1>9. CASE pass = 36
  <2>1. RiskScores
    BY <1>9, Acts
  <2>2. fn'[f].final = Final(f)
    BY <1>2, <2>1 DEF RiskScores, FnPass
  <2>3. Cardinality(fn[f].propagated) \in Nat
    <3>1. fn[f].propagated \subseteq AllWrites(f)
      BY <1>9 DEF Propagation, Exact
    <3>2. AllWrites(f) \subseteq Svs
      BY <1>1, WritesOfParts
    <3>3. IsFiniteSet(Svs)
      BY <1>1, ProgramAssumption DEF WellFormed, Svs
    <3> QED
      BY <3>1, <3>2, <3>3, FS_Subset, FS_CardinalityType
  <2>4. Final(f) \in Int
    BY <2>3, FinalIsNumber
  <2> QED
    BY <1>9, <2>2, <2>4, ScoreSetters
<1> QED
  BY <1>3, <1>4, <1>5, <1>6, <1>7, <1>8, <1>9

LEMMA ScoreInvInductive ==
  /\ Init => ScoreInv
  /\ GuardInv /\ Propagation /\ ScoreInv /\ [Next]_<<vars, hotspots>> => ScoreInv'
<1>1. \A f : \A a \in ScoreNames : NewFn(f)[a] = 0
  BY DEF NewFn, ScoreNames
<1>2. ASSUME Init PROVE ScoreInv
  <2>1. \A f \in Fns : fn[f] = NewFn(f)
    BY <1>2 DEF Init
  <2> QED
    BY <1>1, <2>1 DEF ScoreInv, Numbers
<1>3. ASSUME GuardInv, Propagation, ScoreInv, Next PROVE ScoreInv'
  <2>1. /\ prog' = prog /\ pass \in 1..38 /\ Fns' = Fns /\ Shape
    BY <1>3, Unassigned, SameProgram DEF GuardInv
  <2>2. ASSUME NEW f \in Fns PROVE Numbers(f)'
    <3>1. Numbers(f) /\ fn[f].conf \in Int
      BY <1>3 DEF ScoreInv, Numbers, ScoreNames
    <3>2. CASE pass = 1
      <4>1. fn'[f] = NewFn(f)
        BY <1>3, <3>2, Acts DEF AddNodes
      <4> QED
        BY <1>1, <4>1 DEF Numbers
    <3>3. CASE pass \in {5, 23, 24, 25}
      <4>1. fn'[f].conf \in Int /\ FnSet[pass] \cap ScoreNames = {"conf"}
        BY <1>3, <2>1, <3>1, <3>3, ConfidenceStep, ScoreSetters
      <4> QED
        BY <1>3, <2>1, <3>1, <4>1, OneNumber
    <3>4. CASE pass \in {8, 29, 31, 33, 34, 35, 36}
      <4>1. \A a \in FnSet[pass] \cap ScoreNames : fn'[f][a] \in Int
        BY <1>3, <3>1, <3>4, ScoresStep
      <4>2. \E a : FnSet[pass] \cap ScoreNames = {a}
        BY <3>4, ScoreSetters
      <4> QED
        BY <1>3, <2>1, <3>1, <4>1, <4>2, OneNumber
    <3>5. CASE pass \notin Scoring
      <4>1. FnOnly(FnSet[pass]) /\ FnSet[pass] \cap ScoreNames = {}
        BY <1>3, <2>1, <3>5, Frame, ScoreSetters DEF Sets
      <4>2. \A a \in ScoreNames : a \in FnAttributes \ FnSet[pass]
        BY <4>1, ScoreSetters
      <4>3. \A a \in ScoreNames : fn'[f][a] = fn[f][a]
        BY <4>1, <4>2 DEF FnOnly
      <4> QED
        BY <3>1, <4>3 DEF Numbers
    <3> QED
      BY <3>2, <3>3, <3>4, <3>5 DEF Scoring
  <2> QED
    BY <2>1, <2>2 DEF ScoreInv
<1>4. ASSUME ScoreInv, UNCHANGED <<vars, hotspots>> PROVE ScoreInv'
  <2>1. prog' = prog /\ fn' = fn
    BY <1>4 DEF vars
  <2> QED
    BY <1>4, <2>1, SameProgram DEF ScoreInv, Numbers
<1> QED
  BY <1>2, <1>3, <1>4

-----------------------------------------------------------------------------
(* The hotspots.                                                           *)

(* q keeps the highest of S, each once and the highest first.              *)
Keeps(q, S) ==
    /\ Len(q) <= Budget /\ IsInjective(q) /\ ToSet(q) \subseteq S
    /\ S # {} => q # <<>>
    /\ \A f \in S \ ToSet(q), g \in ToSet(q) : fn[f].final <= fn[g].final
    /\ \A i \in 1..(Len(q) - 1) : fn[q[i]].final >= fn[q[i + 1]].final

LEMMA ListKeeps ==
  ASSUME prog \in Programs, ScoreInv, NEW S \in SUBSET Fns
  PROVE  Keeps(Capped(ByRisk(S)), S)
<1> DEFINE R == {p \in S \X S : Riskier(p[1], p[2])}
           n == Cardinality(S)
           p == ByRisk(S)
           m == Min({Budget, n})
           q == Capped(p)
<1>1. IsFiniteSet(S) /\ S \subseteq Int /\ n \in Nat
  <2>1. S \subseteq 1..Len(prog.fun) /\ 1 \in Int /\ Len(prog.fun) \in Int
    BY FunctionList
  <2>2. IsFiniteSet(S)
    BY <2>1, FS_Interval, FS_Subset
  <2> QED
    BY <2>1, <2>2, FS_CardinalityType
<1>2. \A f \in S : fn[f].final \in Int
  BY DEF ScoreInv, Numbers, ScoreNames
<1>3. \A f \in S, g \in S : <<f, g>> \in R <=> Riskier(f, g)
  OBVIOUS
<1> HIDE DEF R
<1>4. Ordered(S, R)
  <2>1. \A f \in S, g \in S :
           Riskier(f, g) <=> \/ fn[f].final > fn[g].final
                             \/ fn[f].final = fn[g].final /\ f < g
    BY DEF Riskier
  <2>2. \A x \in S : <<x, x>> \notin R
    BY <1>1, <1>2, <1>3, <2>1
  <2>3. \A x, y \in S : x # y => <<x, y>> \in R \/ <<y, x>> \in R
    BY <1>1, <1>2, <1>3, <2>1
  <2>4. \A x, y, z \in S : <<x, y>> \in R /\ <<y, z>> \in R => <<x, z>> \in R
    BY <1>1, <1>2, <1>3, <2>1
  <2> QED
    BY <2>2, <2>3, <2>4 DEF Ordered
<1>5. p = InOrder(S, R)
  BY DEF ByRisk, R
<1> HIDE DEF p
<1>6. /\ p \in [1..n -> S]
      /\ \A x \in S : \E i \in 1..n : p[i] = x
      /\ \A i, j \in 1..n : i < j => <<p[i], p[j]>> \in R
  BY <1>1, <1>4, <1>5, Places
<1> HIDE DEF n
<1>7. \A i, j \in 1..n : i <= j => fn[p[i]].final >= fn[p[j]].final
  <2> SUFFICES ASSUME NEW i \in 1..n, NEW j \in 1..n, i <= j
               PROVE  fn[p[i]].final >= fn[p[j]].final
    OBVIOUS
  <2>1. p[i] \in S /\ p[j] \in S
    BY <1>6
  <2>2. fn[p[i]].final \in Int /\ fn[p[j]].final \in Int
    BY <1>2, <2>1
  <2>3. CASE i = j
    BY <2>2, <2>3
  <2>4. CASE i < j
    <3>1. Riskier(p[i], p[j])
      BY <1>3, <1>6, <2>1, <2>4
    <3> QED
      BY <2>2, <3>1 DEF Riskier
  <2> QED
    BY <1>1, <2>3, <2>4
<1>8. Len(p) = n
  BY <1>1, <1>6
<1>9. m \in Nat /\ m <= n /\ m <= Budget /\ (n > 0 => m > 0)
  <2>1. Budget \in Nat \ {0}
    BY ThresholdAssumption
  <2>2. m = IF Budget <= n THEN Budget ELSE n
    BY <1>1, <2>1, LesserOf
  <2> HIDE DEF m
  <2> QED
    BY <1>1, <2>1, <2>2
<1>10. q = SubSeq(p, 1, m)
  BY <1>8 DEF Capped
<1> HIDE DEF m, q
<1>11. Len(q) = m /\ DOMAIN q = 1..m /\ \A i \in 1..m : q[i] = p[i] /\ i \in 1..n
  <2>1. p \in Seq(S)
    BY <1>1, <1>6
  <2> QED
    BY <1>1, <1>8, <1>9, <1>10, <2>1
<1>12. ToSet(q) = {p[i] : i \in 1..m}
  BY <1>11 DEF ToSet
<1>13. IsInjective(q)
  <2> SUFFICES ASSUME NEW i \in 1..m, NEW j \in 1..m, q[i] = q[j] PROVE i = j
    BY <1>11 DEF IsInjective
  <2>1. i \in 1..n /\ j \in 1..n /\ p[i] = p[j] /\ p[i] \in S
    BY <1>6, <1>11
  <2>2. ~(i < j) /\ ~(j < i)
    BY <1>4, <1>6, <2>1 DEF Ordered
  <2> QED
    BY <1>9, <2>2
<1>14. ToSet(q) \subseteq S /\ (S # {} => q # <<>>)
  <2>1. ToSet(q) \subseteq S
    BY <1>6, <1>11, <1>12
  <2>2. ASSUME S # {} PROVE q # <<>>
    <3>1. n > 0
      <4>1. PICK x \in S : TRUE
        BY <2>2
      <4>2. PICK i \in 1..n : p[i] = x
        BY <1>6
      <4> QED
        BY <1>1, <4>2
    <3>2. m > 0
      BY <1>9, <3>1
    <3> QED
      BY <1>9, <1>11, <3>2
  <2> QED
    BY <2>1, <2>2
<1>15. ASSUME NEW f \in S \ ToSet(q), NEW g \in ToSet(q) PROVE fn[f].final <= fn[g].final
  <2>1. PICK j \in 1..n : p[j] = f
    BY <1>6
  <2>2. PICK i \in 1..m : p[i] = g
    BY <1>12
  <2>3. ~(j <= m)
    BY <1>9, <1>12, <2>1
  <2>4. i \in 1..n /\ i <= j
    BY <1>1, <1>9, <2>1, <2>2, <2>3
  <2>5. fn[g].final >= fn[f].final
    BY <1>7, <2>1, <2>2, <2>4
  <2> QED
    BY <1>2, <1>14, <2>5
<1>16. ASSUME NEW i \in 1..(Len(q) - 1) PROVE fn[q[i]].final >= fn[q[i + 1]].final
  <2>1. i \in 1..m /\ i + 1 \in 1..m /\ i <= i + 1
    BY <1>9, <1>11
  <2>2. q[i] = p[i] /\ q[i + 1] = p[i + 1] /\ i \in 1..n /\ i + 1 \in 1..n
    BY <1>11, <2>1
  <2> QED
    BY <1>7, <2>1, <2>2
<1>17. Len(q) <= Budget
  BY <1>9, <1>11
<1> QED
  BY <1>13, <1>14, <1>15, <1>16, <1>17 DEF Keeps, q, p

HotspotInv == (pass <= 38 => hotspots = <<>>) /\ HotspotsAreWorst

LEMMA HotspotInvInductive ==
  /\ Init => HotspotInv
  /\ GuardInv /\ ScoreInv /\ HotspotInv /\ [Next]_<<vars, hotspots>> => HotspotInv'
<1> DEFINE Worst(q, targets, open) ==
              LET kept == ToSet(q)
                  pool == IF targets # {} THEN targets ELSE open
              IN /\ Len(q) <= Budget /\ IsInjective(q)
                 /\ Done /\ targets # {} => q # <<>>
                 /\ q # <<>> =>
                       /\ kept \subseteq pool
                       /\ \A f \in pool \ kept, g \in kept : fn[f].final <= fn[g].final
                       /\ \A i \in 1..(Len(q) - 1) : fn[q[i]].final >= fn[q[i + 1]].final
           T == {f \in Fns : Hot(f, TRUE)}
           F == {f \in Fns : Hot(f, FALSE)}
<1>1. HotspotsAreWorst <=> Worst(hotspots, T, F)
  BY DEF HotspotsAreWorst
<1>2. ASSUME hotspots = <<>>, pass <= 38, pass \in Nat PROVE HotspotsAreWorst
  <2>1. ~Done
    BY <1>2 DEF Done, Passes
  <2>2. Len(<<>>) <= Budget
    BY ThresholdAssumption
  <2>3. IsInjective(<<>>)
    BY DEF IsInjective
  <2> HIDE DEF T, F
  <2> QED
    BY <1>1, <1>2, <2>1, <2>2, <2>3
<1>3. Init => HotspotInv
  BY <1>2 DEF Init, HotspotInv
<1>4. ASSUME GuardInv, ScoreInv, HotspotInv, Next PROVE HotspotInv'
  <2>1. pass \in 1..38 /\ pass' = pass + 1 /\ hotspots = <<>>
    <3>1. pass \in 1..38 /\ pass' = pass + 1
      BY <1>4, Unassigned DEF GuardInv
    <3> QED
      BY <1>4, <3>1 DEF HotspotInv
  <2>2. CASE pass # 38
    <3>1. hotspots' = <<>> /\ pass' <= 38 /\ pass' \in Nat
      <4>1. ~AskHotspots
        <5>1. AskHotspots => Turn("hotspots")
          BY DEF AskHotspots
        <5> QED
          BY <2>2, <5>1, Numbered
      <4> QED
        BY <1>4, <2>1, <2>2, <4>1 DEF Next
    <3>2. (hotspots = <<>> /\ pass <= 38 /\ pass \in Nat => HotspotsAreWorst)'
      BY <1>2, PTL
    <3> QED
      BY <3>1, <3>2 DEF HotspotInv
  <2>3. CASE pass = 38
    <3>1. AskHotspots
      BY <1>4, <2>3, Acts
    <3>2. prog' = prog /\ fn' = fn /\ ct' = ct /\ prog \in Programs
      BY <1>4, <3>1 DEF AskHotspots, GuardInv
    <3>3. hotspots' \in {Hotspots(TRUE), Hotspots(FALSE)}
          /\ (hotspots' # Hotspots(TRUE) => Hotspots(TRUE) = <<>>)
      BY <3>1 DEF AskHotspots
    <3>4. Keeps(Hotspots(TRUE), T) /\ Keeps(Hotspots(FALSE), F)
      BY <1>4, <3>2, ListKeeps DEF Hotspots
    <3>5. Worst(hotspots', T, F) /\ (T # {} => hotspots' # <<>>)
      <4>1. CASE hotspots' = Hotspots(TRUE)
        <5> HIDE DEF T, F
        <5> QED
          BY <3>4, <4>1 DEF Keeps
      <4>2. CASE hotspots' # Hotspots(TRUE)
        <5>1. hotspots' = Hotspots(FALSE) /\ T = {}
          BY <3>3, <3>4, <4>2 DEF Keeps
        <5> HIDE DEF T, F
        <5> QED
          BY <3>4, <5>1 DEF Keeps
      <4> QED
        BY <4>1, <4>2
    <3>6. T' = T /\ F' = F
      BY <3>2, SameProgram DEF Hot, Src
    <3>7. HotspotsAreWorst'
      <4>1. HotspotsAreWorst' <=> Worst(hotspots, T, F)'
        BY <1>1, PTL
      <4> HIDE DEF T, F
      <4> QED
        BY <3>2, <3>5, <3>6, <4>1
    <3> QED
      BY <2>1, <2>3, <3>7 DEF HotspotInv
  <2> QED
    BY <2>2, <2>3
<1>5. ASSUME HotspotInv, UNCHANGED <<vars, hotspots>> PROVE HotspotInv'
  <2>1. prog' = prog /\ fn' = fn /\ ct' = ct /\ pass' = pass /\ hotspots' = hotspots
    BY <1>5 DEF vars
  <2>2. T' = T /\ F' = F
    BY <2>1, SameProgram DEF Hot, Src
  <2>3. HotspotsAreWorst' <=> Worst(hotspots, T, F)'
    BY <1>1, PTL
  <2>4. Done' <=> Done
    BY <2>1 DEF Done
  <2> HIDE DEF T, F
  <2>5. Worst(hotspots, T, F)
    BY <1>1, <1>5 DEF HotspotInv
  <2> QED
    BY <1>5, <2>1, <2>2, <2>3, <2>4, <2>5 DEF HotspotInv
<1> QED
  BY <1>3, <1>4, <1>5

(* Whatever the budget, the thresholds and the program, the hotspots are   *)
(* the highest risks, each once and the highest first: nothing dropped has *)
(* more risk than anything kept, also where the tool asks a second time.   *)
THEOREM HotspotsKeepWorst == Spec => []HotspotsAreWorst
<1>1. Init => GuardInv /\ Propagation /\ ScoreInv /\ HotspotInv
  BY GuardInvInductive, PropagationInductive, ScoreInvInductive, HotspotInvInductive
<1>2. GuardInv /\ Propagation /\ ScoreInv /\ HotspotInv /\ [Next]_<<vars, hotspots>>
         => (GuardInv /\ Propagation /\ ScoreInv /\ HotspotInv)'
  BY GuardInvInductive, PropagationInductive, ScoreInvInductive, HotspotInvInductive
<1>3. HotspotInv => HotspotsAreWorst
  BY DEF HotspotInv
<1> QED
  BY <1>1, <1>2, <1>3, PTL DEF Spec

-----------------------------------------------------------------------------
(* The coordinates of events and the order of the nodes.                   *)

(* The events of E are those of run, in the same order.                    *)
InStep(e, E, run) ==
    /\ e \in [DOMAIN run -> E]
    /\ \A x \in E : \E i \in DOMAIN run : e[i] = x
    /\ \A i \in DOMAIN run : e[i][3] = run[i]
    /\ \A i, j \in DOMAIN run : i < j => Before(e[i], e[j])
Lists(E, run) == \E e : InStep(e, E, run)

LEMMA ListsJoined ==
  ASSUME NEW Z, NEW D, NEW E, NEW r \in Seq(Z), NEW s \in Seq(Z), Lists(D, r), Lists(E, s),
         \A x \in D, y \in E : Before(x, y)
  PROVE  r \o s \in Seq(Z) /\ Lists(D \cup E, r \o s)
<1>1. PICK d : InStep(d, D, r)
  BY DEF Lists
<1>2. PICK e : InStep(e, E, s)
  BY DEF Lists
<1> DEFINE n == Len(r)
           m == Len(s)
           both == [i \in 1..(n + m) |-> IF i <= n THEN d[i] ELSE e[i - n]]
<1>3. /\ n \in Nat /\ m \in Nat /\ DOMAIN r = 1..n /\ DOMAIN s = 1..m
      /\ r \o s \in Seq(Z) /\ DOMAIN (r \o s) = 1..(n + m)
      /\ \A i \in 1..n : (r \o s)[i] = r[i]
      /\ \A i \in 1..m : (r \o s)[n + i] = s[i]
  OBVIOUS
<1>4. /\ \A i \in 1..n : d[i] \in D /\ d[i][3] = r[i]
      /\ \A i \in 1..m : e[i] \in E /\ e[i][3] = s[i]
  BY <1>1, <1>2, <1>3 DEF InStep
<1> HIDE DEF n, m
<1>5. /\ \A i \in 1..n : i \in 1..(n + m) /\ both[i] = d[i]
      /\ \A i \in 1..m : n + i \in 1..(n + m) /\ both[n + i] = e[i]
      /\ \A k \in 1..(n + m) : k \in 1..n \/ (k - n \in 1..m /\ n + (k - n) = k)
  BY <1>3
<1>6. both \in [1..(n + m) -> D \cup E]
  <2>1. \A k \in 1..(n + m) : (IF k <= n THEN d[k] ELSE e[k - n]) \in D \cup E
    <3> SUFFICES ASSUME NEW k \in 1..(n + m)
                 PROVE  (IF k <= n THEN d[k] ELSE e[k - n]) \in D \cup E
      OBVIOUS
    <3>1. CASE k \in 1..n
      BY <1>4, <3>1
    <3>2. CASE k - n \in 1..m
      <4>1. e[k - n] \in E /\ ~(k <= n)
        BY <1>3, <1>4, <3>2
      <4> QED
        BY <4>1
    <3> QED
      BY <1>5, <3>1, <3>2
  <2> QED
    BY <2>1
<1> HIDE DEF both
<1>7. \A x \in D \cup E : \E k \in 1..(n + m) : both[k] = x
  <2>1. ASSUME NEW x \in D PROVE \E k \in 1..(n + m) : both[k] = x
    <3>1. PICK i \in 1..n : d[i] = x
      BY <1>1, <1>3 DEF InStep
    <3> QED
      BY <1>5, <3>1
  <2>2. ASSUME NEW x \in E PROVE \E k \in 1..(n + m) : both[k] = x
    <3>1. PICK i \in 1..m : e[i] = x
      BY <1>2, <1>3 DEF InStep
    <3> QED
      BY <1>5, <3>1
  <2> QED
    BY <2>1, <2>2
<1>8. ASSUME NEW k \in 1..(n + m) PROVE both[k][3] = (r \o s)[k]
  <2>1. CASE k \in 1..n
    BY <1>3, <1>4, <1>5, <2>1
  <2>2. CASE k - n \in 1..m /\ n + (k - n) = k
    <3>1. both[k] = e[k - n] /\ (r \o s)[k] = s[k - n]
      BY <1>3, <1>5, <2>2, Zenon
    <3> QED
      BY <1>4, <2>2, <3>1
  <2> QED
    BY <1>5, <2>1, <2>2
<1>9. ASSUME NEW k \in 1..(n + m), NEW l \in 1..(n + m), k < l PROVE Before(both[k], both[l])
  <2>1. CASE k \in 1..n /\ l \in 1..n
    BY <1>1, <1>3, <1>5, <1>9, <2>1 DEF InStep
  <2>2. CASE k \in 1..n /\ l - n \in 1..m /\ n + (l - n) = l
    BY <1>4, <1>5, <2>2
  <2>3. CASE /\ k - n \in 1..m /\ n + (k - n) = k
             /\ l - n \in 1..m /\ n + (l - n) = l
    <3>1. k - n < l - n
      BY <1>3, <1>9
    <3>2. Before(e[k - n], e[l - n])
      BY <1>2, <1>3, <2>3, <3>1 DEF InStep
    <3>3. both[k] = e[k - n] /\ both[l] = e[l - n]
      BY <1>5, <2>3
    <3> QED
      BY <3>2, <3>3
  <2>4. ~(k \notin 1..n /\ l \in 1..n)
    BY <1>3, <1>9
  <2> QED
    BY <1>5, <2>1, <2>2, <2>3, <2>4
<1>10. InStep(both, D \cup E, r \o s)
  BY <1>3, <1>6, <1>7, <1>8, <1>9 DEF InStep
<1> QED
  BY <1>3, <1>10 DEF Lists

LEMMA PlacedLists ==
  ASSUME NEW Z, NEW events \in Seq(Z), NEW phase \in Nat, NEW k \in Nat
  PROVE  /\ Lists(Placed(events, phase, k), events)
         /\ \A x \in Placed(events, phase, k) :
               \E i \in 1..Len(events) :
                  /\ x[1] = phase /\ x[2] = (k - 1) * Width + i /\ x[3] = events[i]
                  /\ x[2] \in Int
<1> DEFINE e == [i \in DOMAIN events |-> <<phase, (k - 1) * Width + i, events[i]>>]
<1>1. DOMAIN events = 1..Len(events) /\ Len(events) \in Nat
  OBVIOUS
<1>2. /\ e \in [DOMAIN events -> Placed(events, phase, k)]
      /\ \A x \in Placed(events, phase, k) : \E i \in DOMAIN events : e[i] = x
  BY DEF Placed
<1>3. \A i \in DOMAIN events : /\ e[i][1] = phase /\ e[i][2] = (k - 1) * Width + i
                               /\ e[i][3] = events[i]
  OBVIOUS
<1> HIDE DEF e
<1>4. \A i \in DOMAIN events : e[i][2] \in Int
  BY <1>1, <1>3 DEF Width
<1>5. \A i, j \in DOMAIN events : i < j => Before(e[i], e[j])
  BY <1>1, <1>3 DEF Width, Before
<1>6. InStep(e, Placed(events, phase, k), events)
  BY <1>2, <1>3, <1>5 DEF InStep
<1> QED
  BY <1>1, <1>2, <1>3, <1>4, <1>6 DEF Lists

(* The modifiers around f are modifiers of the program, in a sequence.     *)
LEMMA ModifiersAround ==
  ASSUME prog \in Programs, NEW f \in Fns
  PROVE  /\ Len(ModSeq(f)) \in Nat
         /\ ModSeq(f) \in [1..Len(ModSeq(f)) -> Mods]
<1> DEFINE names == Src(f).mods
           local == [name \in ToSet(names) |-> Local(f, name)]
           K == {i \in DOMAIN names : local[names[i]] # {}}
           R == {p \in K \X K : p[1] < p[2]}
           own == Ascending(K)
           n == Cardinality(K)
<1>1. names \in Seq(ToSet(names))
  BY ProgramAssumption DEF WellFormed, IsList, Fns, Src
<1>2. K \subseteq 1..Len(names) /\ Len(names) \in Int /\ 1 \in Int
  <2> HIDE DEF local
  <2> QED
    BY <1>1
<1>3. \A i \in K : local[names[i]] # {} /\ local[names[i]] \subseteq Mods
  <2>1. \A i \in DOMAIN names : names[i] \in ToSet(names)
    BY DEF ToSet
  <2>2. \A name \in ToSet(names) : local[name] \subseteq Mods
    BY DEF Local, Nodes
  <2> HIDE DEF local
  <2> QED
    BY <2>1, <2>2
<1>4. ModSeq(f) = [k \in DOMAIN own |-> CHOOSE m \in local[names[own[k]]] : TRUE]
  BY DEF ModSeq, Chosen
<1> HIDE DEF local
<1>5. IsFiniteSet(K) /\ K \subseteq Int
  <2>1. IsFiniteSet(1..Len(names))
    BY <1>2, FS_Interval
  <2> HIDE DEF K
  <2>2. IsFiniteSet(K)
    BY <1>2, <2>1, FS_Subset
  <2> QED
    BY <1>2, <2>2
<1>6. Ordered(K, R)
  <2>1. \A x \in K, y \in K : <<x, y>> \in R <=> x < y
    OBVIOUS
  <2> HIDE DEF K, R
  <2> QED
    BY <1>5, <2>1 DEF Ordered
<1>7. own \in [1..n -> K] /\ n \in Nat
  <2>1. own = InOrder(K, R)
    BY DEF Ascending
  <2> HIDE DEF own, R, K
  <2> QED
    BY <1>5, <1>6, <2>1, Places
<1> HIDE DEF own, n, K
<1>8. ModSeq(f) \in [1..n -> Mods]
  <2>1. \A k \in 1..n : (CHOOSE m \in local[names[own[k]]] : TRUE) \in Mods
    BY <1>3, <1>7
  <2>2. DOMAIN own = 1..n
    BY <1>7
  <2> QED
    BY <1>4, <2>1, <2>2
<1>9. Len(ModSeq(f)) = n
  BY <1>7, <1>8
<1> QED
  BY <1>7, <1>8, <1>9

(* The k innermost modifiers around a body, in the order of execution.     *)
Wraps(w, f, k) ==
    LET m == prog.mod[ModSeq(f)[Len(ModSeq(f)) + 1 - k]] IN m.pre \o w \o m.post

LEMMA UnfoldedSteps ==
  ASSUME prog \in Programs, NEW f \in Fns, NEW Z,
         Body(f) \in Seq(Z),
         \A m \in Mods : prog.mod[m].pre \in Seq(Z) /\ prog.mod[m].post \in Seq(Z)
  PROVE  LET n == Len(ModSeq(f))
         IN \E w : /\ w \in [0..n -> Seq(Z)] /\ w[0] = Body(f) /\ w[n] = Unfolded(f)
                   /\ \A k \in 1..n : w[k] = Wraps(w[k - 1], f, k)
<1> DEFINE ms == ModSeq(f)
           n == Len(ms)
           X == Seq(Z)
           a == Body(f)
           On(k, v) == Wraps(v, f, k)
           F == [x \in (1..n) \X X |-> On(x[1], x[2])]
           IsRun(w) == w = [k \in 0..n |-> IF k = 0 THEN a ELSE On(k, w[k - 1])]
<1>1. n \in Nat /\ ms \in [1..n -> Mods]
  BY ModifiersAround
<1>2. Unfolded(f) = (CHOOSE w : IsRun(w))[n]
  BY DEF Unfolded, Wraps
<1> HIDE DEF n
<1>3. \A k \in 1..n, v \in X : On(k, v) \in X
  <2> SUFFICES ASSUME NEW k \in 1..n, NEW v \in X PROVE Wraps(v, f, k) \in X
    OBVIOUS
  <2>1. n + 1 - k \in 1..n
    BY <1>1
  <2>2. ms[n + 1 - k] \in Mods
    BY <1>1, <2>1
  <2>3. prog.mod[ms[n + 1 - k]].pre \in X /\ prog.mod[ms[n + 1 - k]].post \in X
    BY <2>2
  <2> QED
    BY <2>3 DEF Wraps, n
<1> HIDE DEF X, On
<1>4. F \in [(1..n) \X X -> X] /\ \A k \in 1..n, v \in X : F[<<k, v>>] = On(k, v)
  BY <1>3
<1>5. a \in X
  BY DEF X
<1> HIDE DEF F, a
<1>6. PICK w : Unrolled(w, X, a, n, F) /\ Only(w, X, a, n, F)
  BY <1>1, <1>4, <1>5, Unrolls
<1>7. /\ w \in [0..n -> X] /\ w[0] = a
      /\ \A k \in 1..n : k - 1 \in 0..n /\ w[k - 1] \in X /\ w[k] = On(k, w[k - 1])
  <2>1. \A k \in 1..n : k - 1 \in 0..n
    BY <1>1
  <2> QED
    BY <1>4, <1>6, <2>1 DEF Unrolled
<1>8. IsRun(w)
  <2>1. \A k \in 0..n : k = 0 \/ k \in 1..n
    BY <1>1
  <2>2. \A k \in 0..n : w[k] = IF k = 0 THEN a ELSE On(k, w[k - 1])
    BY <1>1, <1>7, <2>1
  <2> QED
    BY <1>7, <2>2
<1>9. \A u : IsRun(u) => u[n] = w[n]
  <2> SUFFICES ASSUME NEW u, IsRun(u) PROVE u[n] = w[n]
    OBVIOUS
  <2>1. u[0] = a /\ \A k \in 1..n : u[k] = On(k, u[k - 1])
    BY <1>1
  <2> HIDE DEF IsRun
  <2>2. \A k \in 0..n : u[k] = w[k]
    BY <1>4, <1>6, <2>1 DEF Only
  <2> QED
    BY <1>1, <2>2
<1>10. Unfolded(f) = w[n]
  <2> HIDE DEF IsRun
  <2> QED
    BY <1>2, <1>8, <1>9
<1> QED
  BY <1>7, <1>10 DEF a, n, X, On

Pre(f, j)  == Placed(prog.mod[ModSeq(f)[j]].pre, 0, j)
Post(f, j) == Placed(prog.mod[ModSeq(f)[Len(ModSeq(f)) + 1 - j]].post, 2, j)

\* The events of the body and of the k innermost modifiers.
Pres(f, k)  == UNION {Pre(f, j) : j \in (Len(ModSeq(f)) + 1 - k)..Len(ModSeq(f))}
Posts(f, k) == UNION {Post(f, j) : j \in 1..k}
Inner(f, k) == Pres(f, k) \cup Placed(Body(f), 1, 1) \cup Posts(f, k)

(* Where the events of each segment stand.                                 *)
Stands(x, phase, j) == x[1] = phase /\ x[2] \in Int /\ (j - 1) * Width < x[2] /\ x[2] <= j * Width

LEMMA SegmentsPlaced ==
  ASSUME prog \in Programs, NEW f \in Fns, Fits(f), NEW Z, Body(f) \in Seq(Z),
         \A m \in Mods : prog.mod[m].pre \in Seq(Z) /\ prog.mod[m].post \in Seq(Z),
         NEW j \in 1..Len(ModSeq(f))
  PROVE  LET n == Len(ModSeq(f))
         IN /\ ModSeq(f)[j] \in Mods /\ ModSeq(f)[n + 1 - j] \in Mods
            /\ Lists(Pre(f, j), prog.mod[ModSeq(f)[j]].pre)
            /\ Lists(Post(f, j), prog.mod[ModSeq(f)[n + 1 - j]].post)
            /\ \A x \in Pre(f, j) : Stands(x, 0, j)
            /\ \A x \in Post(f, j) : Stands(x, 2, j)
<1> DEFINE n == Len(ModSeq(f))
           p == prog.mod[ModSeq(f)[j]].pre
           q == prog.mod[ModSeq(f)[n + 1 - j]].post
<1>1. n \in Nat /\ ModSeq(f) \in [1..n -> Mods]
  BY ModifiersAround
<1> HIDE DEF n
<1>2. j \in 1..n /\ n + 1 - j \in 1..n /\ j \in Nat
  BY <1>1 DEF n
<1>3. ModSeq(f)[j] \in Mods /\ ModSeq(f)[n + 1 - j] \in Mods
  BY <1>1, <1>2
<1>4. p \in Seq(Z) /\ q \in Seq(Z)
  BY <1>3
<1>5. Len(p) <= Width /\ Len(q) <= Width
  BY <1>1, <1>2 DEF Fits
<1> HIDE DEF p, q
<1>6. /\ Lists(Placed(p, 0, j), p)
      /\ \A x \in Placed(p, 0, j) : \E i \in 1..Len(p) :
            x[1] = 0 /\ x[2] = (j - 1) * Width + i /\ x[2] \in Int
  BY <1>2, <1>4, PlacedLists
<1>7. /\ Lists(Placed(q, 2, j), q)
      /\ \A x \in Placed(q, 2, j) : \E i \in 1..Len(q) :
            x[1] = 2 /\ x[2] = (j - 1) * Width + i /\ x[2] \in Int
  BY <1>2, <1>4, PlacedLists
<1>8. Len(p) \in Nat /\ Len(q) \in Nat
  BY <1>4
<1>9. \A x \in Placed(p, 0, j) : Stands(x, 0, j)
  BY <1>2, <1>5, <1>6, <1>8 DEF Stands, Width
<1>10. \A x \in Placed(q, 2, j) : Stands(x, 2, j)
  BY <1>2, <1>5, <1>7, <1>8 DEF Stands, Width
<1> QED
  BY <1>3, <1>6, <1>7, <1>9, <1>10 DEF Pre, Post, p, q, n

LEMMA InnerLists ==
  ASSUME prog \in Programs, NEW f \in Fns, Fits(f), NEW Z, Body(f) \in Seq(Z),
         \A m \in Mods : prog.mod[m].pre \in Seq(Z) /\ prog.mod[m].post \in Seq(Z)
  PROVE  Lists(Inner(f, Len(ModSeq(f))), Unfolded(f))
<1> DEFINE n == Len(ModSeq(f))
           p(j) == prog.mod[ModSeq(f)[j]].pre
           q(j) == prog.mod[ModSeq(f)[n + 1 - j]].post
           B == Placed(Body(f), 1, 1)
<1>1. n \in Nat
  BY ModifiersAround
<1>2. PICK w : /\ w \in [0..n -> Seq(Z)] /\ w[0] = Body(f) /\ w[n] = Unfolded(f)
               /\ \A k \in 1..n : w[k] = Wraps(w[k - 1], f, k)
  BY UnfoldedSteps
<1>3. Lists(B, Body(f)) /\ \A x \in B : x[1] = 1
  BY PlacedLists
<1>4. \A j \in 1..n : /\ Lists(Pre(f, j), p(j)) /\ Lists(Post(f, j), q(j))
                      /\ ModSeq(f)[j] \in Mods /\ ModSeq(f)[n + 1 - j] \in Mods
                      /\ \A x \in Pre(f, j) : Stands(x, 0, j)
                      /\ \A x \in Post(f, j) : Stands(x, 2, j)
  BY SegmentsPlaced
<1>5. \A j \in 1..n : p(j) \in Seq(Z) /\ q(j) \in Seq(Z)
  BY <1>4
<1>6. \A k \in 1..n : w[k] = p(n + 1 - k) \o w[k - 1] \o q(k)
  BY <1>2 DEF Wraps
<1>7. ASSUME NEW k, NEW x
      PROVE  x \in Inner(f, k) <=> \/ x \in B
                                   \/ \E j \in (n + 1 - k)..n : x \in Pre(f, j)
                                   \/ \E j \in 1..k : x \in Post(f, j)
  <2>1. x \in Pres(f, k) <=> \E j \in (n + 1 - k)..n : x \in Pre(f, j)
    BY Zenon DEF Pres
  <2>2. x \in Posts(f, k) <=> \E j \in 1..k : x \in Post(f, j)
    BY Zenon DEF Posts
  <2>3. x \in Inner(f, k) <=> x \in Pres(f, k) \/ x \in B \/ x \in Posts(f, k)
    BY Zenon DEF Inner
  <2> HIDE DEF n, B
  <2> QED
    BY <2>1, <2>2, <2>3, Zenon
<1> HIDE DEF n, p, q, B
<1> DEFINE T == {k \in Nat : k <= n => Lists(Inner(f, k), w[k])}
<1>8. 0 \in T
  <2>1. (n + 1 - 0)..n = {} /\ 1..0 = {}
    BY <1>1
  <2>2. \A x : x \in Inner(f, 0) <=> x \in B
    BY <1>7, <2>1
  <2>3. Inner(f, 0) = B
    BY <2>2
  <2> QED
    BY <1>2, <1>3, <2>3
<1>9. ASSUME NEW k \in T PROVE k + 1 \in T
  <2> SUFFICES ASSUME k + 1 <= n PROVE Lists(Inner(f, k + 1), w[k + 1])
    OBVIOUS
  <2>1. /\ k \in Nat /\ k \in 0..n /\ k <= n /\ k + 1 \in 1..n /\ (k + 1) - 1 = k
        /\ n + 1 - (k + 1) = n - k /\ n - k \in 1..n
    BY <1>1
  <2>2. Lists(Inner(f, k), w[k]) /\ w[k] \in Seq(Z)
    BY <1>2, <2>1
  <2>3. w[k + 1] = p(n - k) \o w[k] \o q(k + 1)
    BY <1>6, <2>1
  <2>4. Inner(f, k + 1) = (Pre(f, n - k) \cup Inner(f, k)) \cup Post(f, k + 1)
    <3>1. (n + 1 - (k + 1))..n = {n - k} \cup ((n + 1 - k)..n)
      BY <1>1, <2>1
    <3>2. 1..(k + 1) = {k + 1} \cup (1..k)
      BY <2>1
    <3>3. \A x : x \in Inner(f, k + 1) <=> \/ x \in Pre(f, n - k)
                                           \/ x \in Inner(f, k)
                                           \/ x \in Post(f, k + 1)
      <4> SUFFICES ASSUME NEW x
                   PROVE  x \in Inner(f, k + 1) <=> \/ x \in Pre(f, n - k)
                                                    \/ x \in Inner(f, k)
                                                    \/ x \in Post(f, k + 1)
        OBVIOUS
      <4>1. x \in Inner(f, k + 1) <=>
               \/ x \in B
               \/ \E j \in {n - k} \cup ((n + 1 - k)..n) : x \in Pre(f, j)
               \/ \E j \in {k + 1} \cup (1..k) : x \in Post(f, j)
        BY <1>7, <3>1, <3>2
      <4>2. x \in Inner(f, k) <=> \/ x \in B
                                  \/ \E j \in (n + 1 - k)..n : x \in Pre(f, j)
                                  \/ \E j \in 1..k : x \in Post(f, j)
        BY <1>7
      <4>3. (\E j \in {n - k} \cup ((n + 1 - k)..n) : x \in Pre(f, j))
              <=> x \in Pre(f, n - k) \/ \E j \in (n + 1 - k)..n : x \in Pre(f, j)
        BY Zenon
      <4>4. (\E j \in {k + 1} \cup (1..k) : x \in Post(f, j))
              <=> x \in Post(f, k + 1) \/ \E j \in 1..k : x \in Post(f, j)
        BY Zenon
      <4> QED
        BY <4>1, <4>2, <4>3, <4>4, Zenon
    <3> QED
      BY <3>3
  <2>5. ASSUME NEW y \in Inner(f, k)
        PROVE  \/ y \in B
               \/ \E j \in (n + 1 - k)..n : y \in Pre(f, j)
               \/ \E j \in 1..k : y \in Post(f, j)
    BY <1>7
  <2>6. \A x \in Pre(f, n - k) : Stands(x, 0, n - k)
    BY <1>4, <2>1
  <2>7. ASSUME NEW x \in Pre(f, n - k), NEW y \in Inner(f, k) PROVE Before(x, y)
    <3>1. Stands(x, 0, n - k)
      BY <2>6
    <3>2. CASE y \in B
      BY <1>3, <3>1, <3>2 DEF Stands, Before
    <3>3. CASE \E j \in (n + 1 - k)..n : y \in Pre(f, j)
      <4>1. PICK j \in (n + 1 - k)..n : y \in Pre(f, j)
        BY <3>3
      <4>2. j \in 1..n /\ j >= n - k + 1 /\ j \in Int /\ n - k \in Int
        BY <1>1, <2>1
      <4>3. Stands(y, 0, j)
        BY <1>4, <4>1, <4>2
      <4> QED
        BY <3>1, <4>2, <4>3 DEF Stands, Before, Width
    <3>4. CASE \E j \in 1..k : y \in Post(f, j)
      <4>1. PICK j \in 1..k : y \in Post(f, j)
        BY <3>4
      <4>2. j \in 1..n
        BY <1>1, <2>1
      <4>3. Stands(y, 2, j)
        BY <1>4, <4>1, <4>2
      <4> QED
        BY <3>1, <4>3 DEF Stands, Before
    <3> QED
      BY <2>5, <3>2, <3>3, <3>4
  <2>8. ASSUME NEW x \in Pre(f, n - k) \cup Inner(f, k), NEW y \in Post(f, k + 1) PROVE Before(x, y)
    <3>1. Stands(y, 2, k + 1)
      BY <1>4, <2>1
    <3>2. CASE x \in Pre(f, n - k)
      BY <2>6, <3>1, <3>2 DEF Stands, Before
    <3>3. CASE x \in B
      BY <1>3, <3>1, <3>3 DEF Stands, Before
    <3>4. CASE \E j \in (n + 1 - k)..n : x \in Pre(f, j)
      <4>1. PICK j \in (n + 1 - k)..n : x \in Pre(f, j)
        BY <3>4
      <4>2. j \in 1..n
        BY <1>1, <2>1
      <4>3. Stands(x, 0, j)
        BY <1>4, <4>1, <4>2
      <4> QED
        BY <3>1, <4>3 DEF Stands, Before
    <3>5. CASE \E j \in 1..k : x \in Post(f, j)
      <4>1. PICK j \in 1..k : x \in Post(f, j)
        BY <3>5
      <4>2. j \in 1..n /\ j <= k /\ j \in Int
        BY <1>1, <2>1
      <4>3. Stands(x, 2, j)
        BY <1>4, <4>1, <4>2
      <4> QED
        BY <2>1, <3>1, <4>2, <4>3 DEF Stands, Before, Width
    <3> QED
      BY <2>5, <3>2, <3>3, <3>4, <3>5
  <2>9. Lists(Pre(f, n - k), p(n - k)) /\ Lists(Post(f, k + 1), q(k + 1))
        /\ p(n - k) \in Seq(Z) /\ q(k + 1) \in Seq(Z)
    BY <1>4, <1>5, <2>1
  <2>10. /\ p(n - k) \o w[k] \in Seq(Z)
         /\ Lists(Pre(f, n - k) \cup Inner(f, k), p(n - k) \o w[k])
    BY <2>2, <2>7, <2>9, ListsJoined
  <2>11. Lists((Pre(f, n - k) \cup Inner(f, k)) \cup Post(f, k + 1), (p(n - k) \o w[k]) \o q(k + 1))
    BY <2>8, <2>9, <2>10, ListsJoined
  <2>12. w[k + 1] = (p(n - k) \o w[k]) \o q(k + 1)
    BY <2>3
  <2> QED
    BY <2>4, <2>11, <2>12
<1>10. n \in T
  <2> HIDE DEF T
  <2>1. T \subseteq Nat
    BY DEF T
  <2> QED
    BY <1>1, <1>8, <1>9, <2>1, NatSet
<1> QED
  BY <1>1, <1>2, <1>10 DEF n

LEMMA EventsAround ==
  ASSUME prog \in Programs, NEW f \in Fns
  PROVE  Events(f) = Inner(f, Len(ModSeq(f)))
<1> DEFINE ms == ModSeq(f)
           n  == Len(ms)
           back == Reverse(ms)
<1>1. n \in Nat /\ ms \in [1..n -> Mods]
  BY ModifiersAround
<1>2. DOMAIN ms = 1..n /\ DOMAIN back = 1..n /\ (n + 1 - n)..n = 1..n
  BY <1>1 DEF Reverse
<1>3. \A k \in 1..n : back[k] = ms[n + 1 - k]
  <2>1. \A k \in 1..n : back[k] = ms[(n - k) + 1]
    BY <1>1 DEF Reverse
  <2>2. \A k \in 1..n : (n - k) + 1 = n + 1 - k
    BY <1>1
  <2> HIDE DEF back, n, ms
  <2> QED
    BY <2>1, <2>2
<1>4. \A k : Pre(f, k) = Placed(prog.mod[ms[k]].pre, 0, k)
  BY DEF Pre
<1>5. \A k \in 1..n : Post(f, k) = Placed(prog.mod[back[k]].post, 2, k)
  BY <1>3 DEF Post
<1>6. ASSUME NEW x PROVE x \in Preludes(ms) <=> x \in Pres(f, n)
  <2>1. x \in Pres(f, n) <=> \E k \in (n + 1 - n)..n : x \in Pre(f, k)
    BY Zenon DEF Pres
  <2>2. x \in Preludes(ms) <=> \E k \in DOMAIN ms : x \in Placed(prog.mod[ms[k]].pre, 0, k)
    BY Zenon DEF Preludes
  <2> HIDE DEF n, ms
  <2> QED
    BY <1>2, <1>4, <2>1, <2>2, Zenon
<1>7. ASSUME NEW x PROVE x \in Postludes(back) <=> x \in Posts(f, n)
  <2>1. x \in Posts(f, n) <=> \E k \in 1..n : x \in Post(f, k)
    BY Zenon DEF Posts
  <2> HIDE DEF back
  <2>2. x \in Postludes(back) <=> \E k \in DOMAIN back : x \in Placed(prog.mod[back[k]].post, 2, k)
    BY Zenon DEF Postludes
  <2> HIDE DEF n, ms
  <2> QED
    BY <1>2, <1>5, <2>1, <2>2, Zenon
<1>8. Preludes(ms) = Pres(f, n) /\ Postludes(back) = Posts(f, n)
  BY <1>6, <1>7
<1> QED
  BY <1>8 DEF Events, Inner

LEMMA SequenceIn ==
  ASSUME NEW q, IsList(q), NEW Z, \A i \in DOMAIN q : q[i] \in Z
  PROVE  q \in Seq(Z)
BY DEF IsList

(* The events of f are those of f unfolded, in the same order.             *)
LEMMA OrderOfEvents ==
  ASSUME prog \in Programs, NEW f \in Fns, Fits(f)
  PROVE  /\ Lists(Events(f), Unfolded(f))
         /\ DOMAIN Unfolded(f) = 1..Len(Unfolded(f)) /\ Len(Unfolded(f)) \in Nat
         /\ \A i \in DOMAIN Unfolded(f) :
               Unfolded(f)[i].op = "internal" => Unfolded(f)[i].to \in Fns
         /\ \A x \in Events(f) : x[1] \in Int /\ x[2] \in Int
<1> DEFINE Around(m) == ToSet(prog.mod[m].pre) \cup ToSet(prog.mod[m].post)
           all == ToSet(Body(f)) \cup UNION {Around(m) : m \in Mods}
           Z == {e \in all : e.op = "internal" => e.to \in Fns}
           n == Len(ModSeq(f))
<1>1. /\ WellPlaced(prog, Body(f))
      /\ \A m \in Mods : WellPlaced(prog, prog.mod[m].pre) /\ WellPlaced(prog, prog.mod[m].post)
  BY ProgramAssumption DEF WellFormed, Fns, Body, Src, Mods
<1>2. ASSUME NEW q, WellPlaced(prog, q), ToSet(q) \subseteq all PROVE q \in Seq(Z)
  <2>1. \A i \in DOMAIN q : q[i] \in ToSet(q)
    BY DEF ToSet
  <2> HIDE DEF all
  <2>2. \A i \in DOMAIN q : q[i] \in Z
    BY <1>2, <2>1 DEF WellPlaced, Fns
  <2> HIDE DEF Z
  <2> QED
    BY <1>2, <2>2, SequenceIn DEF WellPlaced
<1>3. /\ ToSet(Body(f)) \subseteq all
      /\ \A m \in Mods : ToSet(prog.mod[m].pre) \subseteq all /\ ToSet(prog.mod[m].post) \subseteq all
  <2> HIDE DEF Around
  <2>1. \A m \in Mods : Around(m) \subseteq UNION {Around(k) : k \in Mods}
    BY Zenon
  <2> QED
    BY <2>1 DEF Around
<1>4. Body(f) \in Seq(Z)
  BY <1>1, <1>2, <1>3
<1>5. \A m \in Mods : prog.mod[m].pre \in Seq(Z) /\ prog.mod[m].post \in Seq(Z)
  BY <1>1, <1>2, <1>3
<1>6. \A e \in Z : e.op = "internal" => e.to \in Fns
  OBVIOUS
<1> HIDE DEF Z
<1>7. Lists(Events(f), Unfolded(f))
  BY <1>4, <1>5, InnerLists, EventsAround
<1>8. Unfolded(f) \in Seq(Z)
  <2>1. PICK w : w \in [0..n -> Seq(Z)] /\ w[n] = Unfolded(f)
    BY <1>4, <1>5, UnfoldedSteps
  <2> QED
    BY <2>1, ModifiersAround
<1>9. ASSUME NEW x \in Events(f) PROVE x[1] \in Int /\ x[2] \in Int
  <2>1. Events(f) = Pres(f, n) \cup Placed(Body(f), 1, 1) \cup Posts(f, n)
    BY EventsAround DEF Inner
  <2>2. CASE x \in Placed(Body(f), 1, 1)
    BY <1>4, <2>2, PlacedLists
  <2>3. n \in Nat /\ n + 1 - n = 1
    BY ModifiersAround
  <2>4. \A j \in 1..n : /\ \A y \in Pre(f, j) : Stands(y, 0, j)
                        /\ \A y \in Post(f, j) : Stands(y, 2, j)
    BY <1>4, <1>5, SegmentsPlaced
  <2>5. CASE x \in Pres(f, n)
    <3>1. PICK j \in (n + 1 - n)..n : x \in Pre(f, j)
      BY <2>5, Zenon DEF Pres
    <3> QED
      BY <2>3, <2>4, <3>1 DEF Stands
  <2>6. CASE x \in Posts(f, n)
    <3>1. PICK j \in 1..n : x \in Post(f, j)
      BY <2>6, Zenon DEF Posts
    <3> QED
      BY <2>4, <3>1 DEF Stands
  <2> QED
    BY <2>1, <2>2, <2>5, <2>6
<1>10. /\ DOMAIN Unfolded(f) = 1..Len(Unfolded(f)) /\ Len(Unfolded(f)) \in Nat
       /\ \A i \in DOMAIN Unfolded(f) : Unfolded(f)[i] \in Z
  BY <1>8
<1> QED
  BY <1>6, <1>7, <1>9, <1>10

(* What the pass reads off the coordinates is what the nodes have.         *)
CallThenWrite(f) ==
    LET run == Unfolded(f)
    IN \E i, j \in DOMAIN run :
          /\ \E k \in (i + 1)..j : ~Joined(run[k])
          /\ run[i].op = "external" /\ Reentrant(run[i].kind)
          /\ WritesInside(run[j])

LEMMA OrderIsExact ==
  ASSUME prog \in Programs, NEW f \in Fns, Fits(f),
         \A i \in DOMAIN Unfolded(f) :
            Unfolded(f)[i].op = "internal" =>
               (Mutates(Unfolded(f)[i].to) <=> AllWrites(Unfolded(f)[i].to) # {})
  PROVE  SomeWriteAfter(f, {c \in Calls(f) : Reentrant(c[3].kind)}) <=> CallThenWrite(f)
<1> DEFINE run == Unfolded(f)
           E == Events(f)
           IsCall(x)  == x.op = "external" /\ Reentrant(x.kind)
           IsWrite(x) == x.op = "write" \/ (x.op = "internal" /\ Mutates(x.to))
<1>1. PICK e : InStep(e, E, run)
  BY OrderOfEvents DEF Lists
<1>2. \A x \in E : x[1] \in Int /\ x[2] \in Int
  BY OrderOfEvents
<1>3. SomeWriteAfter(f, {c \in Calls(f) : Reentrant(c[3].kind)})
        <=> \E c \in E, w \in E : IsCall(c[3]) /\ IsWrite(w[3]) /\ Before(c, w) /\ ~OneNode(f, c, w)
  BY DEF SomeWriteAfter, Calls, WritesIn
<1>4. \A i \in DOMAIN run : IsWrite(run[i]) <=> WritesInside(run[i])
  <2>1. \A g : AllWrites(g) # {} <=> \E h \in {g} \cup CalledFrom(g) : WriteEdges(h) # {}
    BY DEF AllWrites, Reach
  <2> QED
    BY <2>1 DEF WritesInside
<1>5. CallThenWrite(f) <=> \E i, j \in DOMAIN run : /\ \E k \in (i + 1)..j : ~Joined(run[k])
                                                     /\ IsCall(run[i]) /\ WritesInside(run[j])
  BY DEF CallThenWrite
<1>6. DOMAIN run = 1..Len(run) /\ Len(run) \in Nat
  BY OrderOfEvents
<1>7. \A c, w : ~OneNode(f, c, w) <=> \E x \in E : Before(c, x) /\ ~Before(w, x) /\ ~Joined(x[3])
  BY DEF OneNode
<1> HIDE DEF run, E, IsCall, IsWrite
<1>8. /\ \A x \in E : \E i \in DOMAIN run : e[i] = x
      /\ \A i \in DOMAIN run : e[i] \in E /\ e[i][3] = run[i]
      /\ \A i, j \in DOMAIN run : i < j => Before(e[i], e[j])
  BY <1>1 DEF InStep
<1>9. \A i, j \in DOMAIN run : Before(e[i], e[j]) <=> i < j
  <2> SUFFICES ASSUME NEW i \in DOMAIN run, NEW j \in DOMAIN run, Before(e[i], e[j]) PROVE i < j
    BY <1>8
  <2>1. e[i] # e[j] /\ ~Before(e[j], e[i])
    BY <1>2, <1>8 DEF Before
  <2> QED
    BY <1>6, <1>8, <2>1
<1>10. ASSUME NEW i \in DOMAIN run, NEW j \in DOMAIN run
       PROVE  Before(e[i], e[j]) /\ ~OneNode(f, e[i], e[j]) <=> \E k \in (i + 1)..j : ~Joined(run[k])
  <2>1. ~OneNode(f, e[i], e[j])
          <=> \E k \in DOMAIN run : Before(e[i], e[k]) /\ ~Before(e[j], e[k]) /\ ~Joined(run[k])
    BY <1>7, <1>8
  <2>2. \A k \in DOMAIN run : Before(e[i], e[k]) /\ ~Before(e[j], e[k]) <=> k \in (i + 1)..j
    BY <1>6, <1>9
  <2>3. (i + 1)..j \subseteq DOMAIN run
    BY <1>6
  <2>4. ~OneNode(f, e[i], e[j]) <=> \E k \in (i + 1)..j : ~Joined(run[k])
    BY <2>1, <2>2, <2>3
  <2>5. (\E k \in (i + 1)..j : ~Joined(run[k])) => i < j
    BY <1>6
  <2> QED
    BY <1>9, <2>4, <2>5
<1>11. (\E c \in E, w \in E : IsCall(c[3]) /\ IsWrite(w[3]) /\ Before(c, w) /\ ~OneNode(f, c, w))
         <=> CallThenWrite(f)
  BY <1>4, <1>5, <1>8, <1>10
<1> QED
  BY <1>3, <1>11

\* The sequence of events of a program p, a list of its modifiers and a body.
RunOf(p, ms, body) ==
    LET Wrapped[k \in 0..Len(ms)] ==
            IF k = 0 THEN body
            ELSE LET m == ms[Len(ms) + 1 - k] IN p.mod[m].pre \o Wrapped[k - 1] \o p.mod[m].post
    IN Wrapped[Len(ms)]

(* Whether a re-entrant call comes before a write of f.                    *)
Ordering(f, flag) ==
    Fits(f) /\ (\A i \in DOMAIN Unfolded(f) :
                   Unfolded(f)[i].op = "internal" => Acyclic(Unfolded(f)[i].to))
      => (flag <=> CallThenWrite(f))

LEMMA SameOrdering ==
  ASSUME prog' = prog
  PROVE  \A f, flag : Ordering(f, flag)' <=> Ordering(f, flag')
<1> SUFFICES ASSUME NEW f, NEW flag PROVE Ordering(f, flag)' <=> Ordering(f, flag')
  OBVIOUS
<1>1. \A c, name : Defined(c, name)' = Defined(c, name)
  BY DEF Defined, Mods
<1>2. ModSeq(f)' = ModSeq(f)
  BY <1>1 DEF ModSeq, Local, Src, Nodes, Mods
<1>3. Body(f)' = Body(f)
  BY DEF Body, Src
<1>4. Unfolded(f)' = Unfolded(f)
  <2>1. Unfolded(f) = RunOf(prog, ModSeq(f), Body(f))
    BY DEF Unfolded, RunOf
  <2>2. Unfolded(f)' = RunOf(prog', ModSeq(f)', Body(f)')
    BY DEF Unfolded, RunOf
  <2> QED
    BY <1>2, <1>3, <2>1, <2>2
<1>5. Fits(f)' <=> Fits(f)
  BY <1>2 DEF Fits
<1>6. \A g : (Acyclic(g)' <=> Acyclic(g)) /\ CalledFrom(g)' = CalledFrom(g)
  BY SameReach
<1>7. \A g : WriteEdges(g)' = WriteEdges(g)
  BY SameProgram
<1>8. \A x : WritesInside(x)' <=> WritesInside(x')
  BY <1>6, <1>7 DEF WritesInside
<1>9. CallThenWrite(f)' <=> CallThenWrite(f)
  BY <1>4, <1>8 DEF CallThenWrite
<1> QED
  BY <1>4, <1>5, <1>6, <1>9 DEF Ordering

OrderInv == pass > 6 => \A f \in Fns : Ordering(f, fn[f].ceiReentrant)

(* When the calls are recorded, a function is known to write exactly when  *)
(* it or one that it calls does, unless one of them is recursive.          *)
LEMMA OrderInvInductive ==
  /\ Init => OrderInv
  /\ GuardInv /\ Propagation /\ OrderInv /\ [Next]_<<vars, hotspots>> => OrderInv'
<1>1. Init => OrderInv
  BY DEF Init, OrderInv
<1>2. ASSUME GuardInv, Propagation, OrderInv, Next PROVE OrderInv'
  <2>1. /\ prog' = prog /\ pass \in 1..38 /\ pass' = pass + 1 /\ Fns' = Fns /\ Shape
        /\ prog \in Programs
    BY <1>2, Unassigned, SameProgram DEF GuardInv
  <2>2. ASSUME NEW f \in Fns, pass' > 6 PROVE Ordering(f, fn'[f].ceiReentrant)
    <3>1. CASE pass = 6
      <4>1. ExternalCalls
        BY <1>2, <3>1, Acts
      <4> DEFINE flag == SomeWriteAfter(f, {c \in Calls(f) : Reentrant(c[3].kind)})
                 cei  == SomeWriteAfter(f, Calls(f))
      <4>2. fn'[f] = [fn[f] EXCEPT !.extEdges = Calls(f), !.cei = cei, !.ceiReentrant = flag]
        BY <4>1 DEF ExternalCalls
      <4>3. "ceiReentrant" \in DOMAIN fn[f]
        BY <2>1, Attributes DEF Shape
      <4> HIDE DEF flag, cei
      <4>4. fn'[f].ceiReentrant = flag
        BY <4>2, <4>3
      <4> SUFFICES ASSUME Fits(f), \A i \in DOMAIN Unfolded(f) :
                                      Unfolded(f)[i].op = "internal"
                                        => Acyclic(Unfolded(f)[i].to)
                   PROVE  flag <=> CallThenWrite(f)
        BY <4>4 DEF Ordering
      <4>5. ASSUME NEW g \in Fns, Acyclic(g) PROVE Mutates(g) <=> AllWrites(g) # {}
        <5>1. fn[g].direct = WriteEdges(g) /\ fn[g].propagated = AllWrites(g)
          BY <1>2, <3>1, <4>5 DEF GuardInv, GuardFacts, Propagation, Exact
        <5>2. WriteEdges(g) \subseteq AllWrites(g)
          BY DEF AllWrites, Reach
        <5> QED
          BY <5>1, <5>2 DEF Mutates
      <4>6. \A i \in DOMAIN Unfolded(f) :
               Unfolded(f)[i].op = "internal" =>
                  (Mutates(Unfolded(f)[i].to) <=> AllWrites(Unfolded(f)[i].to) # {})
        BY <2>1, <4>5, OrderOfEvents
      <4> QED
        BY <2>1, <4>6, OrderIsExact DEF flag
    <3>2. CASE pass > 6
      <4>1. fn'[f].ceiReentrant = fn[f].ceiReentrant
        BY <1>2, <2>1, <3>2, UnassignedLater
      <4> QED
        BY <1>2, <3>2, <4>1 DEF OrderInv
    <3> QED
      BY <2>1, <2>2, <3>1, <3>2
  <2>3. \A f \in Fns : Ordering(f, fn[f].ceiReentrant)' <=> Ordering(f, fn'[f].ceiReentrant)
    BY <2>1, SameOrdering
  <2> QED
    BY <2>1, <2>2, <2>3 DEF OrderInv
<1>3. ASSUME OrderInv, UNCHANGED <<vars, hotspots>> PROVE OrderInv'
  <2>1. prog' = prog /\ fn' = fn /\ pass' = pass
    BY <1>3 DEF vars
  <2>2. Fns' = Fns
    BY <2>1, SameProgram
  <2>3. \A f \in Fns : Ordering(f, fn[f].ceiReentrant)' <=> Ordering(f, fn'[f].ceiReentrant)
    BY <2>1, SameOrdering
  <2> QED
    BY <1>3, <2>1, <2>2, <2>3 DEF OrderInv
<1> QED
  BY <1>1, <1>2, <1>3

(* The coordinates tell a re-entrant call before a write exactly when the  *)
(* nodes of the function, unfolded with its modifiers', have the call in   *)
(* one node and the write in a later one, whatever the program, where no   *)
(* segment outgrows its coordinates and no function that is called is      *)
(* recursive.  That the order of the nodes is the order of an execution is *)
(* neither stated nor true of branches and loops.                          *)
THEOREM CallOrderIsExact == Spec => []CallsBeforeWrites
<1>1. Init => GuardInv /\ Propagation /\ OrderInv
  BY GuardInvInductive, PropagationInductive, OrderInvInductive
<1>2. GuardInv /\ Propagation /\ OrderInv /\ [Next]_<<vars, hotspots>>
         => (GuardInv /\ Propagation /\ OrderInv)'
  BY GuardInvInductive, PropagationInductive, OrderInvInductive
<1>3. GuardInv /\ OrderInv => CallsBeforeWrites
  <2> SUFFICES ASSUME GuardInv, OrderInv, After("external_calls") PROVE CallsBeforeWrites
    BY DEF CallsBeforeWrites
  <2>1. pass > 6
    BY Through DEF GuardInv
  <2> QED
    BY <2>1 DEF OrderInv, Ordering, CallThenWrite, CallsBeforeWrites
<1> QED
  BY <1>1, <1>2, <1>3, PTL DEF Spec

-----------------------------------------------------------------------------
(* Taint within one function.                                              *)

Values == {"param", "ret", "local"}

(* What f taints by its first k events.                                    *)
ReturnedBy(f, k) == \E j \in Externals(f) : j <= k /\ Body(f)[j].kind \notin {"transfer", "send"}
ComputedAt(f, given, i) == \/ Body(f)[i].from = "sender"
                           \/ Body(f)[i].from = "param" /\ given
                           \/ Body(f)[i].from = "ret" /\ ReturnedBy(f, i - 1)
TaintingTo(f, given, k) ==
    {v \in Values : \/ v = "param" /\ given
                    \/ v = "ret" /\ ReturnedBy(f, k)
                    \/ v = "local" /\ \E i \in At(f, "assign") : i <= k /\ ComputedAt(f, given, i)}

LEMMA TaintingSteps ==
  ASSUME NEW f, NEW n \in Nat, DOMAIN Body(f) = 1..n, NEW given \in BOOLEAN
  PROVE  /\ TaintingTo(f, given, 0) = {v \in {"param"} : given}
         /\ \A k \in Nat : k < n =>
               TaintingTo(f, given, k + 1) = Step(TaintingTo(f, given, k), Body(f)[k + 1])
         /\ TaintingTo(f, given, n) = {v \in Values :
               \/ v = "param" /\ given
               \/ v = "ret" /\ ReturnedBy(f, n)
               \/ v = "local" /\ \E i \in At(f, "assign") : ComputedAt(f, given, i)}
<1> DEFINE W(k) == TaintingTo(f, given, k)
           Calculated(k) == \E i \in At(f, "assign") : i <= k /\ ComputedAt(f, given, i)
<1>1. \A o : At(f, o) \subseteq 1..n /\ \A i \in 1..n : i \in At(f, o) <=> Body(f)[i].op = o
  BY DEF At
<1>2. \A k, v : v \in W(k) <=> \/ v = "param" /\ given
                               \/ v = "ret" /\ ReturnedBy(f, k)
                               \/ v = "local" /\ Calculated(k)
  BY DEF TaintingTo, Values
<1>3. ~ReturnedBy(f, 0) /\ ~Calculated(0)
  BY <1>1 DEF ReturnedBy, Externals
<1>4. ASSUME NEW k \in Nat, k < n PROVE W(k + 1) = Step(W(k), Body(f)[k + 1])
  <2> DEFINE e == Body(f)[k + 1]
  <2>1. k + 1 \in 1..n /\ (k + 1) - 1 = k /\ \A i \in 1..n : i <= k + 1 <=> i <= k \/ i = k + 1
    BY <1>4
  <2>2. ReturnedBy(f, k + 1)
          <=> ReturnedBy(f, k) \/ (e.op = "external" /\ e.kind \notin {"transfer", "send"})
    BY <1>1, <2>1 DEF ReturnedBy, Externals
  <2>3. Calculated(k + 1) <=> Calculated(k) \/ (e.op = "assign" /\ ComputedAt(f, given, k + 1))
    BY <1>1, <2>1
  <2>4. ComputedAt(f, given, k + 1)
          <=> \/ e.from = "sender"
              \/ e.from = "param" /\ given
              \/ e.from = "ret" /\ ReturnedBy(f, k)
    BY <2>1 DEF ComputedAt
  <2>5. Carries(e, W(k))
          <=> ComputedAt(f, given, k + 1) \/ (e.from = "local" /\ Calculated(k))
    BY <1>2, <2>4 DEF Carries
  <2> HIDE DEF e, W, Calculated
  <2>6. CASE e.op = "external"
    <3>1. Step(W(k), e) = IF e.kind \in {"transfer", "send"} THEN W(k) ELSE W(k) \cup {"ret"}
      BY <2>6 DEF Step
    <3>2. \A v : v \in W(k + 1) <=> v \in W(k) \/ (v = "ret" /\ e.kind \notin {"transfer", "send"})
      BY <1>2, <2>2, <2>3, <2>6
    <3>3. CASE e.kind \in {"transfer", "send"}
      <4>1. \A v : v \in W(k + 1) <=> v \in W(k)
        BY <3>2, <3>3
      <4>2. W(k + 1) = W(k)
        BY <4>1
      <4> QED
        BY <3>1, <3>3, <4>2 DEF e
    <3>4. CASE e.kind \notin {"transfer", "send"}
      <4>1. \A v : v \in W(k + 1) <=> v \in W(k) \cup {"ret"}
        BY <3>2, <3>4
      <4>2. W(k + 1) = W(k) \cup {"ret"}
        BY <4>1
      <4> QED
        BY <3>1, <3>4, <4>2 DEF e
    <3> QED
      BY <3>3, <3>4
  <2>7. CASE e.op = "assign"
    <3>1. Step(W(k), e) = IF Carries(e, W(k)) THEN W(k) \cup {"local"} ELSE W(k)
      BY <2>7 DEF Step
    <3>2. \A v : v \in W(k + 1) <=> v \in W(k) \/ (v = "local" /\ Carries(e, W(k)))
      BY <1>2, <2>2, <2>3, <2>5, <2>7
    <3> QED
      BY <3>1, <3>2 DEF e
  <2>8. CASE e.op \notin {"external", "assign"}
    <3>1. Step(W(k), e) = W(k)
      BY <2>8 DEF Step
    <3>2. \A v : v \in W(k + 1) <=> v \in W(k)
      BY <1>2, <2>2, <2>3, <2>8
    <3> QED
      BY <3>1, <3>2 DEF e
  <2> QED
    BY <2>6, <2>7, <2>8
<1>5. W(0) = {v \in {"param"} : given}
  <2> HIDE DEF W, Calculated
  <2> QED
    BY <1>2, <1>3
<1>6. Calculated(n) <=> \E i \in At(f, "assign") : ComputedAt(f, given, i)
  BY <1>1
<1>7. W(n) = {v \in Values :
                \/ v = "param" /\ given
                \/ v = "ret" /\ ReturnedBy(f, n)
                \/ v = "local" /\ \E i \in At(f, "assign") : ComputedAt(f, given, i)}
  <2> HIDE DEF W, Calculated
  <2> QED
    BY <1>2, <1>6 DEF Values
<1> QED
  BY <1>4, <1>5, <1>7

LEMMA TaintingIs ==
  ASSUME NEW f, NEW n \in Nat, Len(Body(f)) = n, DOMAIN Body(f) = 1..n, NEW given \in BOOLEAN
  PROVE  Tainting(f, given) = TaintingTo(f, given, n)
<1>1. \A j \in Externals(f) : j \in 1..n
  BY DEF Externals, At
<1>2. ReturnedBy(f, n) <=> \E j \in Externals(f) : j < n + 1 /\ Body(f)[j].kind \notin {"transfer", "send"}
  BY <1>1 DEF ReturnedBy
<1>3. \A i \in 1..n : ReturnedBy(f, i - 1)
          <=> \E j \in Externals(f) : j < i /\ Body(f)[j].kind \notin {"transfer", "send"}
  BY <1>1 DEF ReturnedBy
<1>4. \A i \in At(f, "assign") : i \in 1..n
  BY DEF At
<1>5. \A i \in At(f, "assign") : ComputedAt(f, given, i)
          <=> \/ Body(f)[i].from = "sender"
              \/ Body(f)[i].from = "param" /\ given
              \/ /\ Body(f)[i].from = "ret"
                 /\ \E j \in Externals(f) : j < i /\ Body(f)[j].kind \notin {"transfer", "send"}
  BY <1>3, <1>4 DEF ComputedAt
<1>6. \A v : v \in Tainting(f, given)
          <=> \/ v = "param" /\ given
              \/ v = "ret" /\ ReturnedBy(f, n)
              \/ v = "local" /\ \E i \in At(f, "assign") : ComputedAt(f, given, i)
  BY <1>2, <1>5 DEF Tainting
<1>7. \A v : v \in TaintingTo(f, given, n)
          <=> \/ v = "param" /\ given
              \/ v = "ret" /\ ReturnedBy(f, n)
              \/ v = "local" /\ \E i \in At(f, "assign") : ComputedAt(f, given, i)
  BY TaintingSteps DEF Values
<1> QED
  BY <1>6, <1>7

(* A function whose parameter is tainted taints no less.                   *)
LEMMA TaintingGrows ==
  ASSUME NEW f, NEW a \in BOOLEAN, NEW b \in BOOLEAN, a => b
  PROVE  Tainting(f, a) \subseteq Tainting(f, b) /\ (b => "param" \in Tainting(f, b))
BY DEF Tainting

(* What f itself taints, its parameter exactly when others may call it, is *)
(* what the program says without the walk over its nodes.                  *)
LEMMA LocalTaintIs ==
  ASSUME prog \in Programs, NEW f \in Fns
  PROVE  /\ LocalTaint(f) \subseteq Values /\ ("param" \in LocalTaint(f) <=> Public(f))
         /\ LocalTaint(f) = Tainting(f, Public(f))
<1> DEFINE X == {t \in SUBSET Values : "param" \in t <=> Public(f)}
           n == Len(Body(f))
           On(k, t) == Step(t, Body(f)[k])
           F == [x \in (1..n) \X X |-> On(x[1], x[2])]
           IsRun(u) == u = [k \in 0..n |-> IF k = 0 THEN Seed(f) ELSE On(k, u[k - 1])]
<1>1. n \in Nat
  BY ProgramAssumption DEF WellFormed, WellPlaced, IsList, Body, Src, Fns
<1>2. Seed(f) \in X
  BY DEF Seed, Values
<1>3. LocalTaint(f) = (CHOOSE u : IsRun(u))[n]
  BY DEF LocalTaint, LocalUpTo
<1> HIDE DEF n
<1>4. \A k : \A t \in X : On(k, t) \in X
  <2>1. ASSUME NEW t \in X, NEW e PROVE Step(t, e) \in X
    <3>1. t \cup {"ret"} \in X /\ t \cup {"local"} \in X
      BY DEF Values
    <3> HIDE DEF X
    <3>2. CASE e.op = "external"
      BY <3>1, <3>2 DEF Step
    <3>3. CASE e.op = "assign"
      BY <3>1, <3>3 DEF Step
    <3>4. CASE e.op \notin {"external", "assign"}
      BY <3>4 DEF Step
    <3> QED
      BY <3>2, <3>3, <3>4
  <2> HIDE DEF X
  <2> QED
    BY <2>1
<1> HIDE DEF X, On
<1>5. F \in [(1..n) \X X -> X] /\ \A k \in 1..n, t \in X : F[<<k, t>>] = On(k, t)
  BY <1>4
<1> HIDE DEF F
<1>6. PICK w : Unrolled(w, X, Seed(f), n, F) /\ Only(w, X, Seed(f), n, F)
  BY <1>1, <1>2, <1>5, Unrolls
<1>7. w \in [0..n -> X] /\ w[0] = Seed(f) /\ \A k \in 1..n : w[k - 1] \in X /\ w[k] = On(k, w[k - 1])
  <2>1. \A k \in 1..n : k - 1 \in 0..n
    BY <1>1
  <2> QED
    BY <1>5, <1>6, <2>1 DEF Unrolled
<1>8. IsRun(w)
  <2>1. \A k \in 0..n : k = 0 \/ k \in 1..n
    BY <1>1
  <2>2. \A k \in 0..n : w[k] = IF k = 0 THEN Seed(f) ELSE On(k, w[k - 1])
    BY <1>1, <1>7, <2>1
  <2> QED
    BY <1>7, <2>2
<1>9. \A u : IsRun(u) => u[n] = w[n]
  <2> SUFFICES ASSUME NEW u, IsRun(u) PROVE u[n] = w[n]
    OBVIOUS
  <2>1. u[0] = Seed(f) /\ \A k \in 1..n : u[k] = On(k, u[k - 1])
    BY <1>1
  <2> HIDE DEF IsRun
  <2>2. \A k \in 0..n : u[k] = w[k]
    BY <1>5, <1>6, <2>1 DEF Only
  <2> QED
    BY <1>1, <2>2
<1>10. LocalTaint(f) = w[n]
  <2> HIDE DEF IsRun
  <2> QED
    BY <1>3, <1>8, <1>9
<1>11. w[n] \in X
  BY <1>1, <1>7
<1>12. Public(f) \in BOOLEAN /\ DOMAIN Body(f) = 1..n
  BY ProgramAssumption DEF Public, WellFormed, WellPlaced, IsList, Body, Src, Fns, n
<1> DEFINE T == {k \in Nat : k <= n => w[k] = TaintingTo(f, Public(f), k)}
<1>13. 0 \in T
  <2>1. Seed(f) = {v \in {"param"} : Public(f)}
    BY DEF Seed
  <2> QED
    BY <1>1, <1>7, <1>12, <2>1, TaintingSteps
<1>14. ASSUME NEW k \in T PROVE k + 1 \in T
  <2> SUFFICES ASSUME k + 1 <= n PROVE w[k + 1] = TaintingTo(f, Public(f), k + 1)
    OBVIOUS
  <2>1. k \in Nat /\ k < n /\ k <= n /\ k + 1 \in 1..n /\ (k + 1) - 1 = k
    BY <1>1
  <2>2. w[k + 1] = Step(w[k], Body(f)[k + 1]) /\ w[k] = TaintingTo(f, Public(f), k)
    BY <1>7, <2>1 DEF On
  <2>3. \A j \in Nat : j < n =>
           TaintingTo(f, Public(f), j + 1) = Step(TaintingTo(f, Public(f), j), Body(f)[j + 1])
    <3> HIDE DEF T
    <3> QED
      BY <1>1, <1>12, TaintingSteps, Zenon
  <2> QED
    BY <2>1, <2>2, <2>3
<1> HIDE DEF T
<1>15. T \subseteq Nat
  BY DEF T
<1>16. T = Nat
  BY <1>13, <1>14, <1>15, NatSet
<1>17. w[n] = Tainting(f, Public(f))
  BY <1>1, <1>12, <1>16, TaintingIs DEF T, n
<1> QED
  BY <1>10, <1>11, <1>17 DEF X

-----------------------------------------------------------------------------
(* Taint between functions.  C is a set of functions that taint does not   *)
(* leave: the callable ones, and every one that a function hands a tainted *)
(* argument, its own parameter counting as tainted when it is in C.        *)

Inputs(f, S) == Tainting(f, Public(f)) \cup {"param" : g \in S \cap {f}}
Closed(C) ==
    /\ C \subseteq Fns /\ \A f \in Fns : Public(f) => f \in C
    /\ \A f \in Fns : Handed(f, Inputs(f, C)) \subseteq C

Reports == [tainted : SUBSET Values, writes : SUBSET Svs, paths : SUBSET Seq(Fns), cross : BOOLEAN]
Bounded(C) ==
    {T \in [Fns -> Reports] :
        \A f \in Fns : /\ LocalTaint(f) \subseteq T[f].tainted
                       /\ T[f].tainted \subseteq LocalTaint(f) \cup {"param"}
                       /\ "param" \in T[f].tainted => f \in C}
Holds(T) == {f \in Fns : "param" \in T[f].tainted}
Hands(T, f, g) == \E i \in At(f, "internal") : Body(f)[i].to = g /\ Body(f)[i].arg \in T[f].tainted

LEMMA InputsAre ==
  ASSUME prog \in Programs
  PROVE  \A f \in Fns : \A S, x :
            x \in Inputs(f, S) <=> x \in LocalTaint(f) \/ (x = "param" /\ f \in S)
BY LocalTaintIs DEF Inputs

LEMMA HandsMore ==
  ASSUME NEW C, NEW T \in Bounded(C), NEW U \in Bounded(C), Holds(T) \subseteq Holds(U), NEW f \in Fns
  PROVE  T[f].tainted \subseteq U[f].tainted /\ \A g : Hands(T, f, g) => Hands(U, f, g)
<1>1. /\ T[f].tainted \subseteq LocalTaint(f) \cup {"param"} /\ LocalTaint(f) \subseteq U[f].tainted
      /\ "param" \in T[f].tainted => "param" \in U[f].tainted
  BY DEF Bounded, Holds
<1>2. T[f].tainted \subseteq U[f].tainted
  BY <1>1
<1> QED
  BY <1>2 DEF Hands

LEMMA PassedOn ==
  ASSUME prog \in Programs, NEW C, Closed(C), NEW T \in Bounded(C), NEW f \in Fns, NEW g \in Fns
  PROVE  /\ Passed(T, f, g) \in Bounded(C) /\ Holds(T) \subseteq Holds(Passed(T, f, g))
         /\ Hands(T, f, g) => g \in Holds(Passed(T, f, g))
<1>1. CASE ~Injects(T, f, g)
  <2>1. Passed(T, f, g) = T
    BY <1>1 DEF Passed
  <2>2. Hands(T, f, g) => "param" \in T[g].tainted
    BY <1>1 DEF Injects, Hands
  <2> QED
    BY <2>1, <2>2 DEF Holds
<1>2. CASE Injects(T, f, g)
  <2> DEFINE U == Injected(T, f, g)
             W == {Body(g)[i].var : i \in {j \in At(g, "write") :
                      Body(g)[j].from \in T[g].tainted \cup {"param"}}}
             P == {Append(p, g) : p \in T[f].paths}
  <2>1. Passed(T, f, g) = U
    BY <1>2 DEF Passed
  <2>2. T \in [Fns -> Reports] /\ T[g] \in Reports /\ T[f] \in Reports
    BY DEF Bounded
  <2>3. W \subseteq Svs
    <3>1. W \subseteq WriteEdges(g)
      BY DEF WriteEdges
    <3> HIDE DEF W
    <3> QED
      BY <3>1, CallsOfProgram
  <2>4. P \subseteq Seq(Fns)
    <3>1. \A p \in T[f].paths : p \in Seq(Fns)
      BY <2>2 DEF Reports
    <3> QED
      BY <3>1
  <2>5. U = [T EXCEPT ![g] = [tainted |-> T[g].tainted \cup {"param"}, writes |-> T[g].writes \cup W,
                              paths |-> T[g].paths \cup P, cross |-> TRUE]]
    BY <2>2 DEF Injected
  <2> HIDE DEF U, W, P
  <2>6. U \in [Fns -> Reports]
    BY <2>2, <2>3, <2>4, <2>5 DEF Reports, Values
  <2>7. U[g].tainted = T[g].tainted \cup {"param"} /\ \A h \in Fns \ {g} : U[h] = T[h]
    BY <2>2, <2>5
  <2>8. g \in C
    <3>1. PICK i \in At(f, "internal") : Body(f)[i].to = g /\ Body(f)[i].arg \in T[f].tainted
      BY <1>2 DEF Injects
    <3>2. Body(f)[i].arg \in Inputs(f, C)
      BY <3>1, InputsAre DEF Bounded
    <3>3. g \in Handed(f, Inputs(f, C))
      BY <3>1, <3>2 DEF Handed
    <3> QED
      BY <3>3 DEF Closed
  <2>9. ASSUME NEW h \in Fns
        PROVE  /\ LocalTaint(h) \subseteq U[h].tainted
               /\ U[h].tainted \subseteq LocalTaint(h) \cup {"param"}
               /\ "param" \in U[h].tainted => h \in C
    <3>1. /\ LocalTaint(h) \subseteq T[h].tainted
          /\ T[h].tainted \subseteq LocalTaint(h) \cup {"param"}
          /\ "param" \in T[h].tainted => h \in C
      BY DEF Bounded
    <3> QED
      BY <2>7, <2>8, <3>1
  <2>10. U \in Bounded(C)
    BY <2>6, <2>9 DEF Bounded
  <2>11. Holds(T) \subseteq Holds(U) /\ g \in Holds(U)
    BY <2>7 DEF Holds
  <2> QED
    BY <2>1, <2>10, <2>11
<1> QED
  BY <1>1, <1>2

(* The elements of a set of functions in the order of the graph.           *)
LEMMA AllAscending ==
  ASSUME prog \in Programs, NEW S \in SUBSET Fns
  PROVE  LET q == Ascending(S)
         IN /\ Len(q) \in Nat /\ q \in [1..Len(q) -> S]
            /\ \A x \in S : \E i \in 1..Len(q) : q[i] = x
<1> DEFINE R == {p \in S \X S : p[1] < p[2]}
           q == Ascending(S)
           n == Cardinality(S)
<1>1. IsFiniteSet(S) /\ S \subseteq Int
  <2>1. Fns = 1..Len(prog.fun) /\ Len(prog.fun) \in Nat
    BY FunctionList
  <2>2. IsFiniteSet(Fns) /\ Fns \subseteq Int
    BY <2>1, FS_Interval
  <2> QED
    BY <2>2, FS_Subset
<1>2. Ordered(S, R)
  <2>1. \A x \in S, y \in S : <<x, y>> \in R <=> x < y
    OBVIOUS
  <2> HIDE DEF R
  <2> QED
    BY <1>1, <2>1 DEF Ordered
<1>3. q = InOrder(S, R)
  BY DEF Ascending
<1> HIDE DEF R, q, n
<1>4. /\ q \in [1..n -> S] /\ n \in Nat
      /\ \A x \in S : \E i \in 1..n : q[i] = x
  BY <1>1, <1>2, <1>3, Places DEF n
<1>5. Len(q) = n
  BY <1>4
<1> QED
  BY <1>4, <1>5 DEF q

LEMMA HoldsGrow ==
  ASSUME NEW n \in Nat, NEW w, \A k \in 1..n : Holds(w[k - 1]) \subseteq Holds(w[k])
  PROVE  \A j \in 0..n, k \in 0..n : j <= k => Holds(w[j]) \subseteq Holds(w[k])
<1> SUFFICES ASSUME NEW j \in 0..n
             PROVE  \A k \in 0..n : j <= k => Holds(w[j]) \subseteq Holds(w[k])
  OBVIOUS
<1> DEFINE T == {m \in Nat : j + m <= n => Holds(w[j]) \subseteq Holds(w[j + m])}
<1>1. 0 \in T
  OBVIOUS
<1>2. ASSUME NEW m \in T PROVE m + 1 \in T
  <2> SUFFICES ASSUME j + (m + 1) <= n PROVE Holds(w[j]) \subseteq Holds(w[j + (m + 1)])
    OBVIOUS
  <2>1. m \in Nat /\ j + m <= n /\ j + (m + 1) \in 1..n /\ (j + (m + 1)) - 1 = j + m
    OBVIOUS
  <2>2. Holds(w[j + m]) \subseteq Holds(w[j + (m + 1)])
    BY <2>1
  <2> QED
    BY <2>1, <2>2
<1> HIDE DEF T
<1>3. T \subseteq Nat
  BY DEF T
<1>4. T = Nat
  BY <1>1, <1>2, <1>3, NatSet
<1>5. ASSUME NEW k \in 0..n, j <= k PROVE Holds(w[j]) \subseteq Holds(w[k])
  <2>1. k - j \in Nat /\ j + (k - j) = k
    BY <1>5
  <2>2. k - j \in T
    BY <1>4, <2>1
  <2> QED
    BY <2>1, <2>2 DEF T
<1> QED
  BY <1>5

(* A caller passes its taint on to every callee that it hands a tainted    *)
(* argument.                                                               *)
LEMMA CallerGives ==
  ASSUME prog \in Programs, NEW C, Closed(C), NEW T \in Bounded(C), NEW f \in Fns
  PROVE  /\ FromCaller(T, f) \in Bounded(C) /\ Holds(T) \subseteq Holds(FromCaller(T, f))
         /\ \A g \in Callees(f) : Hands(T, f, g) => g \in Holds(FromCaller(T, f))
<1> DEFINE X == Bounded(C)
           callees == Ascending(Callees(f))
           n == Len(callees)
           On(k, U) == Passed(U, f, callees[k])
           F == [x \in (1..n) \X X |-> On(x[1], x[2])]
           IsRun(u) == u = [k \in 0..n |-> IF k = 0 THEN T ELSE On(k, u[k - 1])]
<1>1. /\ n \in Nat /\ \A k \in 1..n : callees[k] \in Fns
      /\ \A g \in Callees(f) : \E k \in 1..n : callees[k] = g
  <2>1. Callees(f) \in SUBSET Fns
    BY DEF Callees, Out
  <2> HIDE DEF callees
  <2>2. /\ n \in Nat /\ callees \in [1..n -> Callees(f)]
        /\ \A g \in Callees(f) : \E k \in 1..n : callees[k] = g
    BY <2>1, AllAscending DEF callees
  <2> QED
    BY <2>1, <2>2
<1>2. FromCaller(T, f) = (CHOOSE u : IsRun(u))[n]
  BY DEF FromCaller
<1> HIDE DEF n, callees
<1>3. \A k \in 1..n, U \in X : /\ On(k, U) \in X /\ Holds(U) \subseteq Holds(On(k, U))
                               /\ Hands(U, f, callees[k]) => callees[k] \in Holds(On(k, U))
  BY <1>1, PassedOn
<1> HIDE DEF X, On
<1>4. F \in [(1..n) \X X -> X] /\ \A k \in 1..n, U \in X : F[<<k, U>>] = On(k, U)
  BY <1>3
<1> HIDE DEF F
<1>5. PICK w : Unrolled(w, X, T, n, F) /\ Only(w, X, T, n, F)
  BY <1>1, <1>4, Unrolls DEF X
<1>6. /\ w \in [0..n -> X] /\ w[0] = T
      /\ \A k \in 1..n : k - 1 \in 0..n /\ w[k - 1] \in X /\ w[k] = On(k, w[k - 1])
  <2>1. \A k \in 1..n : k - 1 \in 0..n
    BY <1>1
  <2> QED
    BY <1>4, <1>5, <2>1 DEF Unrolled
<1>7. IsRun(w)
  <2>1. \A k \in 0..n : k = 0 \/ k \in 1..n
    BY <1>1
  <2>2. \A k \in 0..n : w[k] = IF k = 0 THEN T ELSE On(k, w[k - 1])
    BY <1>1, <1>6, <2>1
  <2> QED
    BY <1>6, <2>2
<1>8. \A u : IsRun(u) => u[n] = w[n]
  <2> SUFFICES ASSUME NEW u, IsRun(u) PROVE u[n] = w[n]
    OBVIOUS
  <2>1. u[0] = T /\ \A k \in 1..n : u[k] = On(k, u[k - 1])
    BY <1>1
  <2> HIDE DEF IsRun
  <2>2. \A k \in 0..n : u[k] = w[k]
    BY <1>4, <1>5, <2>1 DEF Only
  <2> QED
    BY <1>1, <2>2
<1>9. (CHOOSE u : IsRun(u))[n] = w[n]
  <2> HIDE DEF IsRun
  <2> QED
    BY <1>7, <1>8
<1>10. FromCaller(T, f) = w[n] /\ n \in 0..n
  BY <1>1, <1>2, <1>9
<1>11. \A k \in 1..n : Holds(w[k - 1]) \subseteq Holds(w[k])
  BY <1>3, <1>6
<1>12. \A j \in 0..n, k \in 0..n : j <= k => Holds(w[j]) \subseteq Holds(w[k])
  BY <1>1, <1>11, HoldsGrow
<1>13. ASSUME NEW k \in 0..n PROVE Holds(T) \subseteq Holds(w[k]) /\ Holds(w[k]) \subseteq Holds(w[n])
  <2>1. 0 \in 0..n /\ 0 <= k /\ k <= n
    BY <1>1
  <2> QED
    BY <1>6, <1>10, <1>12, <2>1
<1>14. ASSUME NEW g \in Callees(f), Hands(T, f, g) PROVE g \in Holds(w[n])
  <2>1. PICK k \in 1..n : callees[k] = g
    BY <1>1
  <2>2. k - 1 \in 0..n /\ k \in 0..n /\ w[k - 1] \in X /\ w[k] = On(k, w[k - 1])
    BY <1>1, <1>6
  <2>3. Hands(w[k - 1], f, g)
    BY <1>13, <1>14, <2>2, HandsMore DEF X
  <2>4. g \in Holds(w[k])
    BY <1>3, <2>1, <2>2, <2>3
  <2> QED
    BY <1>13, <2>2, <2>4
<1> QED
  BY <1>6, <1>10, <1>13, <1>14 DEF X

LEMMA RoundGives ==
  ASSUME prog \in Programs, NEW C, Closed(C), NEW T \in Bounded(C)
  PROVE  /\ Round(T) \in Bounded(C) /\ Holds(T) \subseteq Holds(Round(T))
         /\ \A f \in Fns : \A g \in Callees(f) : Hands(T, f, g) => g \in Holds(Round(T))
<1> DEFINE X == Bounded(C)
           nodes == Ascending(Fns)
           n == Len(nodes)
           On(k, U) == FromCaller(U, nodes[k])
           F == [x \in (1..n) \X X |-> On(x[1], x[2])]
           IsRun(u) == u = [k \in 0..n |-> IF k = 0 THEN T ELSE On(k, u[k - 1])]
<1>1. /\ n \in Nat /\ \A k \in 1..n : nodes[k] \in Fns
      /\ \A f \in Fns : \E k \in 1..n : nodes[k] = f
  <2> HIDE DEF nodes
  <2>1. /\ n \in Nat /\ nodes \in [1..n -> Fns]
        /\ \A f \in Fns : \E k \in 1..n : nodes[k] = f
    BY AllAscending DEF nodes
  <2> QED
    BY <2>1
<1>2. Round(T) = (CHOOSE u : IsRun(u))[n]
  BY DEF Round
<1> HIDE DEF n, nodes
<1>3. \A k \in 1..n, U \in X : /\ On(k, U) \in X /\ Holds(U) \subseteq Holds(On(k, U))
                               /\ \A g \in Callees(nodes[k]) :
                                     Hands(U, nodes[k], g) => g \in Holds(On(k, U))
  BY <1>1, CallerGives
<1> HIDE DEF X, On
<1>4. F \in [(1..n) \X X -> X] /\ \A k \in 1..n, U \in X : F[<<k, U>>] = On(k, U)
  BY <1>3
<1> HIDE DEF F
<1>5. PICK w : Unrolled(w, X, T, n, F) /\ Only(w, X, T, n, F)
  BY <1>1, <1>4, Unrolls DEF X
<1>6. /\ w \in [0..n -> X] /\ w[0] = T
      /\ \A k \in 1..n : k - 1 \in 0..n /\ w[k - 1] \in X /\ w[k] = On(k, w[k - 1])
  <2>1. \A k \in 1..n : k - 1 \in 0..n
    BY <1>1
  <2> QED
    BY <1>4, <1>5, <2>1 DEF Unrolled
<1>7. IsRun(w)
  <2>1. \A k \in 0..n : k = 0 \/ k \in 1..n
    BY <1>1
  <2>2. \A k \in 0..n : w[k] = IF k = 0 THEN T ELSE On(k, w[k - 1])
    BY <1>1, <1>6, <2>1
  <2> QED
    BY <1>6, <2>2
<1>8. \A u : IsRun(u) => u[n] = w[n]
  <2> SUFFICES ASSUME NEW u, IsRun(u) PROVE u[n] = w[n]
    OBVIOUS
  <2>1. u[0] = T /\ \A k \in 1..n : u[k] = On(k, u[k - 1])
    BY <1>1
  <2> HIDE DEF IsRun
  <2>2. \A k \in 0..n : u[k] = w[k]
    BY <1>4, <1>5, <2>1 DEF Only
  <2> QED
    BY <1>1, <2>2
<1>9. (CHOOSE u : IsRun(u))[n] = w[n]
  <2> HIDE DEF IsRun
  <2> QED
    BY <1>7, <1>8
<1>10. Round(T) = w[n] /\ n \in 0..n
  BY <1>1, <1>2, <1>9
<1>11. \A k \in 1..n : Holds(w[k - 1]) \subseteq Holds(w[k])
  BY <1>3, <1>6
<1>12. \A j \in 0..n, k \in 0..n : j <= k => Holds(w[j]) \subseteq Holds(w[k])
  BY <1>1, <1>11, HoldsGrow
<1>13. ASSUME NEW k \in 0..n PROVE Holds(T) \subseteq Holds(w[k]) /\ Holds(w[k]) \subseteq Holds(w[n])
  <2>1. 0 \in 0..n /\ 0 <= k /\ k <= n
    BY <1>1
  <2> QED
    BY <1>6, <1>10, <1>12, <2>1
<1>14. ASSUME NEW f \in Fns, NEW g \in Callees(f), Hands(T, f, g) PROVE g \in Holds(w[n])
  <2>1. PICK k \in 1..n : nodes[k] = f
    BY <1>1
  <2>2. k - 1 \in 0..n /\ k \in 0..n /\ w[k - 1] \in X /\ w[k] = On(k, w[k - 1])
    BY <1>1, <1>6
  <2>3. Hands(w[k - 1], f, g)
    BY <1>13, <1>14, <2>2, HandsMore DEF X
  <2>4. g \in Holds(w[k])
    BY <1>3, <2>1, <2>2, <2>3
  <2> QED
    BY <1>13, <2>2, <2>4
<1> QED
  BY <1>6, <1>10, <1>13, <1>14 DEF X

(* What TaintedIn adds in one step.                                        *)
Handing(S) == UNION {Handed(f, Inputs(f, S)) : f \in Fns}

LEMMA CallsKnown ==
  ASSUME prog \in Programs, NEW f \in Fns
  PROVE  /\ Internal(f) \subseteq Fns
         /\ \A S : Handed(f, S) \subseteq Internal(f)
         /\ \A g \in Internal(f) \ CallEdges(f) : Public(g)
<1>1. \A i \in DOMAIN Body(f) :
         /\ Body(f)[i].op = "internal" => Body(f)[i].to \in Fns
         /\ Body(f)[i].op = "external" /\ Body(f)[i].to \in Fns => Public(Body(f)[i].to)
  BY ProgramAssumption DEF WellFormed, WellPlaced, Fns, Body, Src, Public
<1>2. Internal(f) \subseteq Fns
  BY <1>1 DEF Internal, At
<1>3. \A S : Handed(f, S) \subseteq Internal(f)
  BY DEF Handed, Internal
<1>4. ASSUME NEW g \in Internal(f) \ CallEdges(f) PROVE Public(g)
  <2>1. g \in CrossCalls(f)
    BY <1>4 DEF CallEdges
  <2>2. PICK i \in At(f, "external") : Body(f)[i].to = g
    BY <2>1 DEF CrossCalls
  <2> QED
    BY <1>1, <1>2, <2>2 DEF At
<1> QED
  BY <1>2, <1>3, <1>4

LEMMA TaintedLayers ==
  ASSUME prog \in Programs
  PROVE  /\ TaintedIn[0] = {f \in Fns : Public(f)}
         /\ \A k \in Nat : /\ TaintedIn[k] \in SUBSET Fns
                            /\ TaintedIn[k + 1] = TaintedIn[k] \cup Handing(TaintedIn[k])
<1> DEFINE P == {f \in Fns : Public(f)}
           X == SUBSET Fns
           On(S) == S \cup Handing(S)
           F == [x \in Nat \X X |-> On(x[2])]
           IsLayers(l) == l = [k \in Nat |-> IF k = 0 THEN P ELSE On(l[k - 1])]
<1>1. \A S \in X : On(S) \in X
  <2>1. \A S : \A f \in Fns : Handed(f, Inputs(f, S)) \subseteq Fns
    BY CallsKnown
  <2>2. \A S : Handing(S) \subseteq Fns
    BY <2>1 DEF Handing
  <2> QED
    BY <2>2
<1>2. P \in X
  OBVIOUS
<1>3. TaintedIn = CHOOSE l : IsLayers(l)
  BY DEF TaintedIn, Handing, Inputs
<1> HIDE DEF On, X, P
<1>4. F \in [Nat \X X -> X] /\ \A k \in Nat, S \in X : F[<<k, S>>] = On(S)
  BY <1>1
<1> HIDE DEF F
<1>5. PICK l : l \in [Nat -> X] /\ l[0] = P /\ \A k \in Nat : l[k + 1] = On(l[k])
  <2>1. \E l : Iterated(l, X, P, F)
    BY <1>2, <1>4, Iterates DEF Stepping
  <2> QED
    BY <1>4, <2>1 DEF Iterated
<1>6. IsLayers(l)
  <2>1. ASSUME NEW k \in Nat PROVE l[k] = IF k = 0 THEN P ELSE On(l[k - 1])
    <3>1. CASE k = 0
      BY <1>5, <3>1
    <3>2. CASE k # 0
      <4>1. k - 1 \in Nat /\ (k - 1) + 1 = k
        BY <3>2
      <4> QED
        BY <1>5, <3>2, <4>1
    <3> QED
      BY <3>1, <3>2
  <2> QED
    BY <1>5, <2>1
<1>7. IsLayers(TaintedIn)
  <2> HIDE DEF IsLayers
  <2> QED
    BY <1>3, <1>6
<1> DEFINE w == TaintedIn
<1> HIDE DEF w
<1>8. w = [k \in Nat |-> IF k = 0 THEN P ELSE On(w[k - 1])]
  BY <1>7 DEF w
<1>9. w[0] = P /\ \A k \in Nat : w[k + 1] = On(w[k])
  BY <1>8
<1>10. \A k \in Nat : w[k] \in X
  <2> DEFINE T == {k \in Nat : w[k] \in X}
  <2>1. 0 \in T
    BY <1>2, <1>9
  <2>2. \A k \in T : k + 1 \in T
    BY <1>1, <1>9
  <2> HIDE DEF T
  <2>3. T \subseteq Nat
    BY DEF T
  <2>4. T = Nat
    BY <2>1, <2>2, <2>3, NatSet
  <2> QED
    BY <2>4 DEF T
<1> QED
  BY <1>9, <1>10 DEF w, On, P, X

(* What FlowsIn adds in one step.                                          *)
Flow(f, S) == {"sender"} \cup Tainting(f, f \in S)
Flowing(S) == UNION {Handed(f, Flow(f, S)) : f \in Fns}

LEMMA FlowLayers ==
  ASSUME prog \in Programs
  PROVE  /\ FlowsIn[0] = {f \in Fns : Public(f)}
         /\ \A k \in Nat : /\ FlowsIn[k] \in SUBSET Fns
                            /\ FlowsIn[k + 1] = FlowsIn[k] \cup Flowing(FlowsIn[k])
<1> DEFINE P == {f \in Fns : Public(f)}
           X == SUBSET Fns
           On(S) == S \cup Flowing(S)
           F == [x \in Nat \X X |-> On(x[2])]
           IsLayers(l) == l = [k \in Nat |-> IF k = 0 THEN P ELSE On(l[k - 1])]
<1>1. \A S \in X : On(S) \in X
  <2>1. \A S : \A f \in Fns : Handed(f, Flow(f, S)) \subseteq Fns
    BY CallsKnown
  <2>2. \A S : Flowing(S) \subseteq Fns
    BY <2>1 DEF Flowing
  <2> QED
    BY <2>2
<1>2. P \in X
  OBVIOUS
<1>3. FlowsIn = CHOOSE l : IsLayers(l)
  BY DEF FlowsIn, Flowing, Flow
<1> HIDE DEF On, X, P
<1>4. F \in [Nat \X X -> X] /\ \A k \in Nat, S \in X : F[<<k, S>>] = On(S)
  BY <1>1
<1> HIDE DEF F
<1>5. PICK l : l \in [Nat -> X] /\ l[0] = P /\ \A k \in Nat : l[k + 1] = On(l[k])
  <2>1. \E l : Iterated(l, X, P, F)
    BY <1>2, <1>4, Iterates DEF Stepping
  <2> QED
    BY <1>4, <2>1 DEF Iterated
<1>6. IsLayers(l)
  <2>1. ASSUME NEW k \in Nat PROVE l[k] = IF k = 0 THEN P ELSE On(l[k - 1])
    <3>1. CASE k = 0
      BY <1>5, <3>1
    <3>2. CASE k # 0
      <4>1. k - 1 \in Nat /\ (k - 1) + 1 = k
        BY <3>2
      <4> QED
        BY <1>5, <3>2, <4>1
    <3> QED
      BY <3>1, <3>2
  <2> QED
    BY <1>5, <2>1
<1>7. IsLayers(FlowsIn)
  <2> HIDE DEF IsLayers
  <2> QED
    BY <1>3, <1>6
<1> DEFINE w == FlowsIn
<1> HIDE DEF w
<1>8. w = [k \in Nat |-> IF k = 0 THEN P ELSE On(w[k - 1])]
  BY <1>7 DEF w
<1>9. w[0] = P /\ \A k \in Nat : w[k + 1] = On(w[k])
  BY <1>8
<1>10. \A k \in Nat : w[k] \in X
  <2> DEFINE T == {k \in Nat : w[k] \in X}
  <2>1. 0 \in T
    BY <1>2, <1>9
  <2>2. \A k \in T : k + 1 \in T
    BY <1>1, <1>9
  <2> HIDE DEF T
  <2>3. T \subseteq Nat
    BY DEF T
  <2>4. T = Nat
    BY <2>1, <2>2, <2>3, NatSet
  <2> QED
    BY <2>4 DEF T
<1> QED
  BY <1>9, <1>10 DEF w, On, P, X

(* After as many steps as there are functions no flow reaches another one.  *)
LEMMA FlowCloses ==
  ASSUME prog \in Programs
  PROVE  Closed(FlowsIn[Len(prog.fun)])
<1> DEFINE w == FlowsIn
           n == Len(prog.fun)
<1>1. /\ w[0] = {f \in Fns : Public(f)}
      /\ \A k \in Nat : w[k] \in SUBSET Fns /\ w[k + 1] = w[k] \cup Flowing(w[k])
  BY FlowLayers
<1>2. n \in Nat /\ IsFiniteSet(Fns) /\ Cardinality(Fns) = n
  <2>1. n \in Nat /\ Fns = 1..n
    BY FunctionList
  <2> QED
    BY <2>1, FS_Interval
<1> HIDE DEF w, n
<1>3. w[n + 1] = w[n]
  <2>1. \A k \in Nat : w[k] \in SUBSET Fns /\ w[k] \subseteq w[k + 1]
    BY <1>1
  <2>2. ASSUME NEW k \in Nat, w[k + 1] = w[k] PROVE w[(k + 1) + 1] = w[k + 1]
    <3>1. Flowing(w[k + 1]) = Flowing(w[k])
      BY <2>2, Zenon
    <3>2. w[(k + 1) + 1] = w[k + 1] \cup Flowing(w[k + 1]) /\ w[k + 1] = w[k] \cup Flowing(w[k])
      BY <1>1
    <3> QED
      BY <2>2, <3>1, <3>2
  <2> QED
    BY <1>2, <2>1, <2>2, Settles
<1>4. w[n] \in SUBSET Fns /\ Flowing(w[n]) \subseteq w[n]
  BY <1>1, <1>2, <1>3
<1>5. w[0] \subseteq w[n]
  <2> DEFINE T == {k \in Nat : w[0] \subseteq w[k]}
  <2>1. 0 \in T
    OBVIOUS
  <2>2. \A k \in T : k + 1 \in T
    BY <1>1
  <2> HIDE DEF T
  <2>3. T \subseteq Nat
    BY DEF T
  <2>4. T = Nat
    BY <2>1, <2>2, <2>3, NatSet
  <2> QED
    BY <1>2, <2>4 DEF T
<1>6. \A f \in Fns : Handed(f, Flow(f, w[n])) \subseteq w[n]
  <2>1. \A f \in Fns : Handed(f, Flow(f, w[n])) \subseteq Flowing(w[n])
    BY Zenon DEF Flowing
  <2> QED
    BY <1>4, <2>1
<1>7. \A f \in Fns : Inputs(f, w[n]) \subseteq Flow(f, w[n])
  <2> SUFFICES ASSUME NEW f \in Fns PROVE Inputs(f, w[n]) \subseteq Flow(f, w[n])
    OBVIOUS
  <2>1. Public(f) \in BOOLEAN /\ (f \in w[n]) \in BOOLEAN /\ (Public(f) => f \in w[n])
    BY <1>1, <1>5 DEF Public
  <2>2. /\ Tainting(f, Public(f)) \subseteq Tainting(f, f \in w[n])
        /\ f \in w[n] => "param" \in Tainting(f, f \in w[n])
    BY <2>1, TaintingGrows
  <2> QED
    BY <2>2 DEF Inputs, Flow
<1>8. \A f \in Fns : Handed(f, Inputs(f, w[n])) \subseteq w[n]
  BY <1>6, <1>7 DEF Handed
<1>9. Closed(w[n])
  BY <1>1, <1>4, <1>5, <1>8 DEF Closed
<1> QED
  BY <1>9 DEF w, n

(* The rounds of the pass stay inside every set that taint does not leave, *)
(* and reach what as many calls hand on.                                   *)
LEMMA RoundsGive ==
  ASSUME prog \in Programs, \A f \in Fns : Callees(f) = CallEdges(f), NEW C, Closed(C)
  PROVE  Rounds \in Bounded(C) /\ TaintedIn[MaxIterations] \subseteq Holds(Rounds)
<1> DEFINE X == Bounded(C)
           n == MaxIterations
           T == Locals
           On(k, U) == Round(U)
           F == [x \in (1..n) \X X |-> On(x[1], x[2])]
           IsRun(u) == u = [k \in 0..n |-> IF k = 0 THEN T ELSE On(k, u[k - 1])]
<1>1. n \in Nat /\ T \in X
  <2>1. ASSUME NEW f \in Fns
        PROVE  /\ LocalResult(f) \in Reports /\ LocalResult(f).tainted = LocalTaint(f)
               /\ "param" \in LocalTaint(f) => f \in C
    <3>1. LocalTaint(f) \subseteq Values /\ ("param" \in LocalTaint(f) <=> Public(f))
      BY LocalTaintIs
    <3>2. LocalWrites(f) \subseteq Svs
      <4>1. LocalWrites(f) \subseteq WriteEdges(f)
        BY DEF LocalWrites, WriteEdges
      <4> QED
        BY <4>1, CallsOfProgram
    <3>3. {<<f>>} \subseteq Seq(Fns)
      OBVIOUS
    <3> QED
      BY <3>1, <3>2, <3>3 DEF LocalResult, Reports, Closed
  <2>2. T \in [Fns -> Reports] /\ \A f \in Fns : T[f].tainted = LocalTaint(f)
    BY <2>1 DEF Locals
  <2> HIDE DEF T
  <2>3. T \in X
    BY <2>1, <2>2 DEF Bounded
  <2> QED
    BY <2>3 DEF MaxIterations
<1>2. Rounds = (CHOOSE u : IsRun(u))[n]
  BY DEF Rounds
<1> HIDE DEF n, T
<1>3. \A k \in 1..n, U \in X : On(k, U) \in X
  BY RoundGives
<1> HIDE DEF X, On
<1>4. F \in [(1..n) \X X -> X] /\ \A k \in 1..n, U \in X : F[<<k, U>>] = On(k, U)
  BY <1>3
<1> HIDE DEF F
<1>5. PICK w : Unrolled(w, X, T, n, F) /\ Only(w, X, T, n, F)
  BY <1>1, <1>4, Unrolls DEF X
<1>6. /\ w \in [0..n -> X] /\ w[0] = T
      /\ \A k \in 1..n : k - 1 \in 0..n /\ w[k - 1] \in X /\ w[k] = On(k, w[k - 1])
  <2>1. \A k \in 1..n : k - 1 \in 0..n
    BY <1>1
  <2> QED
    BY <1>4, <1>5, <2>1 DEF Unrolled
<1>7. IsRun(w)
  <2>1. \A k \in 0..n : k = 0 \/ k \in 1..n
    BY <1>1
  <2>2. \A k \in 0..n : w[k] = IF k = 0 THEN T ELSE On(k, w[k - 1])
    BY <1>1, <1>6, <2>1
  <2> QED
    BY <1>6, <2>2
<1>8. \A u : IsRun(u) => u[n] = w[n]
  <2> SUFFICES ASSUME NEW u, IsRun(u) PROVE u[n] = w[n]
    OBVIOUS
  <2>1. u[0] = T /\ \A k \in 1..n : u[k] = On(k, u[k - 1])
    BY <1>1
  <2> HIDE DEF IsRun
  <2>2. \A k \in 0..n : u[k] = w[k]
    BY <1>4, <1>5, <2>1 DEF Only
  <2> QED
    BY <1>1, <2>2
<1>9. (CHOOSE u : IsRun(u))[n] = w[n]
  <2> HIDE DEF IsRun
  <2> QED
    BY <1>7, <1>8
<1>10. Rounds = w[n] /\ n \in 0..n
  BY <1>1, <1>2, <1>9
<1>11. \A U \in X : \A g \in Fns : Public(g) => g \in Holds(U)
  BY LocalTaintIs DEF X, Bounded, Holds
<1> DEFINE Q == {k \in Nat : k <= n => TaintedIn[k] \subseteq Holds(w[k])}
<1>12. 0 \in Q
  BY <1>6, <1>10, <1>11, TaintedLayers
<1>13. ASSUME NEW k \in Q PROVE k + 1 \in Q
  <2> SUFFICES ASSUME k + 1 <= n PROVE TaintedIn[k + 1] \subseteq Holds(w[k + 1])
    OBVIOUS
  <2>1. k \in Nat /\ k <= n /\ k \in 0..n /\ k + 1 \in 0..n /\ k + 1 \in 1..n /\ (k + 1) - 1 = k
    BY <1>1
  <2> DEFINE S == TaintedIn[k]
  <2>2. S \subseteq Holds(w[k]) /\ w[k] \in X /\ w[k + 1] \in X /\ w[k + 1] = On(k + 1, w[k])
    BY <1>6, <2>1
  <2>3. w[k + 1] = Round(w[k])
    BY <2>2 DEF On
  <2>4. TaintedIn[k + 1] = S \cup Handing(S)
    BY <2>1, TaintedLayers
  <2> HIDE DEF S, Q
  <2>5. /\ Holds(w[k]) \subseteq Holds(w[k + 1])
        /\ \A f \in Fns : \A g \in Callees(f) : Hands(w[k], f, g) => g \in Holds(w[k + 1])
    BY <2>2, <2>3, RoundGives DEF X
  <2>6. ASSUME NEW f \in Fns, NEW g \in Handed(f, Inputs(f, S)) PROVE g \in Holds(w[k + 1])
    <3>1. PICK i \in At(f, "internal") : Body(f)[i].to = g /\ Body(f)[i].arg \in Inputs(f, S)
      BY DEF Handed
    <3>2. Body(f)[i].arg \in w[k][f].tainted
      BY <2>2, <3>1, InputsAre DEF X, Bounded, Holds
    <3>3. Hands(w[k], f, g)
      BY <3>1, <3>2 DEF Hands
    <3>4. g \in Internal(f) /\ g \in Fns
      BY CallsKnown
    <3>5. CASE g \in CallEdges(f)
      BY <2>5, <3>3, <3>5
    <3>6. CASE g \notin CallEdges(f)
      BY <1>11, <2>2, <3>4, <3>6, CallsKnown
    <3> QED
      BY <3>5, <3>6
  <2>7. Handing(S) \subseteq Holds(w[k + 1])
    BY <2>6 DEF Handing
  <2> QED
    BY <2>2, <2>4, <2>5, <2>7
<1> HIDE DEF Q
<1>14. Q \subseteq Nat
  BY DEF Q
<1>15. Q = Nat
  BY <1>12, <1>13, <1>14, NatSet
<1>16. TaintedIn[n] \subseteq Holds(w[n])
  BY <1>1, <1>15 DEF Q
<1> QED
  BY <1>6, <1>10, <1>16 DEF X, n

LEMMA SameHanding ==
  ASSUME prog' = prog
  PROVE  /\ Fns' = Fns /\ (\A f : Public(f)' <=> Public(f))
         /\ \A S : Handing(S)' = Handing(S') /\ Flowing(S)' = Flowing(S')
<1>1. Fns' = Fns
  BY SameProgram
<1>2. \A f : /\ Body(f)' = Body(f) /\ (Public(f)' <=> Public(f))
             /\ At(f, "internal")' = At(f, "internal")
             /\ At(f, "assign")' = At(f, "assign") /\ Externals(f)' = Externals(f)
  BY DEF Body, Src, Public, At, Externals
<1>3. \A f, given : Tainting(f, given)' = Tainting(f, given')
  BY <1>2 DEF Tainting
<1>4. \A f, S : Inputs(f, S)' = Inputs(f, S') /\ Flow(f, S)' = Flow(f, S')
  BY <1>2, <1>3 DEF Inputs, Flow
<1>5. \A f, S : /\ Handed(f, Inputs(f, S))' = Handed(f, Inputs(f, S'))
                /\ Handed(f, Flow(f, S))' = Handed(f, Flow(f, S'))
  BY <1>2, <1>4 DEF Handed
<1>6. \A S : Handing(S)' = Handing(S') /\ Flowing(S)' = Flowing(S')
  BY <1>1, <1>5 DEF Handing, Flowing
<1> QED
  BY <1>1, <1>2, <1>6

Layered ==
    prog \in Programs =>
       /\ TaintedIn[0] = {f \in Fns : Public(f)}
       /\ \A k \in Nat : TaintedIn[k + 1] = TaintedIn[k] \cup Handing(TaintedIn[k])
       /\ FlowsIn[0] = {f \in Fns : Public(f)}
       /\ \A k \in Nat : FlowsIn[k + 1] = FlowsIn[k] \cup Flowing(FlowsIn[k])

LEMMA AlwaysLayered == Layered
BY TaintedLayers, FlowLayers DEF Layered

LEMMA SameTainted ==
  ASSUME prog \in Programs, prog' = prog
  PROVE  \A k \in Nat : TaintedIn'[k] = TaintedIn[k]
<1>1. Layered /\ Layered'
  BY AlwaysLayered, PTL
<1>2. \A S : Handing(S)' = Handing(S')
  BY SameHanding
<1> DEFINE T == {k \in Nat : TaintedIn'[k] = TaintedIn[k]}
<1>3. 0 \in T
  BY <1>1, SameHanding DEF Layered
<1>4. ASSUME NEW k \in T PROVE k + 1 \in T
  <2>1. /\ TaintedIn[k + 1] = TaintedIn[k] \cup Handing(TaintedIn[k])
        /\ TaintedIn'[k + 1] = TaintedIn'[k] \cup Handing(TaintedIn[k])'
    BY <1>1 DEF Layered
  <2>2. TaintedIn'[k] = TaintedIn[k] /\ k + 1 \in Nat
    OBVIOUS
  <2>3. Handing(TaintedIn[k])' = Handing(TaintedIn[k])
    BY <1>2, <2>2
  <2>4. TaintedIn'[k + 1] = TaintedIn[k + 1]
    BY <2>1, <2>2, <2>3
  <2> QED
    BY <2>2, <2>4
<1> HIDE DEF T
<1>5. T \subseteq Nat
  BY DEF T
<1>6. T = Nat
  BY <1>3, <1>4, <1>5, NatSet
<1> QED
  BY <1>6 DEF T

LEMMA SameFlows ==
  ASSUME prog \in Programs, prog' = prog
  PROVE  \A k \in Nat : FlowsIn'[k] = FlowsIn[k]
<1>1. Layered /\ Layered'
  BY AlwaysLayered, PTL
<1>2. \A S : Flowing(S)' = Flowing(S')
  BY SameHanding
<1> DEFINE T == {k \in Nat : FlowsIn'[k] = FlowsIn[k]}
<1>3. 0 \in T
  BY <1>1, SameHanding DEF Layered
<1>4. ASSUME NEW k \in T PROVE k + 1 \in T
  <2>1. /\ FlowsIn[k + 1] = FlowsIn[k] \cup Flowing(FlowsIn[k])
        /\ FlowsIn'[k + 1] = FlowsIn'[k] \cup Flowing(FlowsIn[k])'
    BY <1>1 DEF Layered
  <2>2. FlowsIn'[k] = FlowsIn[k] /\ k + 1 \in Nat
    OBVIOUS
  <2>3. Flowing(FlowsIn[k])' = Flowing(FlowsIn[k])
    BY <1>2, <2>2
  <2>4. FlowsIn'[k + 1] = FlowsIn[k + 1]
    BY <2>1, <2>2, <2>3
  <2> QED
    BY <2>2, <2>4
<1> HIDE DEF T
<1>5. T \subseteq Nat
  BY DEF T
<1>6. T = Nat
  BY <1>3, <1>4, <1>5, NatSet
<1> QED
  BY <1>6 DEF T

TaintInv ==
    pass > 29 =>
        /\ TaintedIn[MaxIterations] \subseteq {f \in Fns : "param" \in fn[f].tainted}
        /\ {f \in Fns : "param" \in fn[f].tainted} \subseteq FlowsIn[Len(prog.fun)]

LEMMA TaintInvInductive ==
  /\ Init => TaintInv
  /\ GuardInv /\ TaintInv /\ [Next]_<<vars, hotspots>> => TaintInv'
<1>1. Init => TaintInv
  BY DEF Init, TaintInv
<1> DEFINE tainted == {f \in Fns : "param" \in fn[f].tainted}
           n == Len(prog.fun)
<1>2. ASSUME GuardInv, TaintInv, Next PROVE TaintInv'
  <2>1. /\ prog' = prog /\ pass \in 1..38 /\ pass' = pass + 1 /\ Fns' = Fns /\ Shape
        /\ prog \in Programs /\ n' = n /\ n \in Nat
    BY <1>2, Unassigned, SameProgram, FunctionList DEF GuardInv
  <2>2. /\ TaintedIn'[MaxIterations] = TaintedIn[MaxIterations]
        /\ FlowsIn'[n] = FlowsIn[n]
    BY <2>1, SameTainted, SameFlows DEF MaxIterations
  <2>3. pass' > 29 => TaintedIn[MaxIterations] \subseteq tainted' /\ tainted' \subseteq FlowsIn[n]
    <3>1. CASE pass = 29
      <4>1. Taint
        BY <1>2, <3>1, Acts
      <4>2. \A f \in Fns : Callees(f) = CallEdges(f)
        BY <1>2, <2>1, <3>1, CalleesOf DEF GuardInv
      <4>3. Closed(FlowsIn[n])
        BY <2>1, FlowCloses
      <4>4. Rounds \in Bounded(FlowsIn[n]) /\ TaintedIn[MaxIterations] \subseteq Holds(Rounds)
        BY <2>1, <4>2, <4>3, RoundsGive
      <4>5. ASSUME NEW f \in Fns PROVE fn'[f].tainted = Rounds[f].tainted
        <5>1. "tainted" \in DOMAIN fn[f]
          BY <2>1, Attributes DEF Shape
        <5> QED
          BY <4>1, <5>1 DEF Taint
      <4>6. tainted' = Holds(Rounds)
        BY <2>1, <4>5 DEF Holds
      <4>7. Holds(Rounds) \subseteq FlowsIn[n]
        BY <4>4 DEF Bounded, Holds
      <4> QED
        BY <4>4, <4>6, <4>7
    <3>2. CASE pass > 29
      <4>1. \A f \in Fns : fn'[f].tainted = fn[f].tainted
        BY <1>2, <2>1, <3>2, UnassignedLater
      <4>2. tainted' = tainted
        BY <2>1, <4>1
      <4> QED
        BY <1>2, <3>2, <4>2 DEF TaintInv
    <3> QED
      BY <2>1, <3>1, <3>2
  <2>4. TaintInv' <=> (pass' > 29 => /\ TaintedIn'[MaxIterations] \subseteq tainted'
                                    /\ tainted' \subseteq FlowsIn'[n'])
    BY DEF TaintInv, MaxIterations
  <2> HIDE DEF tainted, n
  <2> QED
    BY <2>1, <2>2, <2>3, <2>4
<1>3. ASSUME GuardInv, TaintInv, UNCHANGED <<vars, hotspots>> PROVE TaintInv'
  <2>1. prog' = prog /\ fn' = fn /\ pass' = pass /\ prog \in Programs
    BY <1>3 DEF vars, GuardInv
  <2>2. Fns' = Fns /\ n' = n /\ n \in Nat
    BY <2>1, SameProgram, FunctionList
  <2>3. /\ TaintedIn'[MaxIterations] = TaintedIn[MaxIterations]
        /\ FlowsIn'[n] = FlowsIn[n]
    BY <2>1, <2>2, SameTainted, SameFlows DEF MaxIterations
  <2>4. tainted' = tainted
    BY <2>1, <2>2
  <2>5. /\ TaintInv <=> (pass > 29 => /\ TaintedIn[MaxIterations] \subseteq tainted
                                     /\ tainted \subseteq FlowsIn[n])
        /\ TaintInv' <=> (pass' > 29 => /\ TaintedIn'[MaxIterations] \subseteq tainted'
                                       /\ tainted' \subseteq FlowsIn'[n'])
    BY DEF TaintInv, MaxIterations
  <2> HIDE DEF tainted, n
  <2> QED
    BY <1>3, <2>1, <2>2, <2>3, <2>4, <2>5
<1> QED
  BY <1>1, <1>2, <1>3

(* Four rounds, in the order of the graph, taint every function within     *)
(* four calls that hand on what is tainted as it came or by the caller     *)
(* alone, and none that no flow from an input, a result or msg.sender      *)
(* reaches, whatever the program.  What a callee computes from a tainted   *)
(* argument lies between the two: the docstring has it, the pass does not. *)
THEOREM TaintIsBounded == Spec => []TaintFollowsCalls
<1>1. Init => GuardInv /\ TaintInv
  BY GuardInvInductive, TaintInvInductive
<1>2. GuardInv /\ TaintInv /\ [Next]_<<vars, hotspots>> => (GuardInv /\ TaintInv)'
  BY GuardInvInductive, TaintInvInductive
<1>3. GuardInv /\ TaintInv => TaintFollowsCalls
  <2> SUFFICES ASSUME GuardInv, TaintInv, After("taint") PROVE TaintFollowsCalls
    BY DEF TaintFollowsCalls
  <2>1. pass > 29
    BY Through DEF GuardInv
  <2> QED
    BY <2>1 DEF TaintInv, TaintFollowsCalls
<1> QED
  BY <1>1, <1>2, <1>3, PTL DEF Spec
=============================================================================
